----------------------------- MODULE TurnsProofs -----------------------------
(***************************************************************************)
(* Of module Turns, for any clients, plays and dialects: what a client has *)
(* still to run is the rest of its job (BaseInv), what a turn has said is  *)
(* what it has run of its program (MessageInv), and so TurnsAreStored; the *)
(* ids it has cached are of rows that stay (CacheInv), so CachedIdsHold.   *)
(***************************************************************************)
EXTENDS Turns, SequenceTheorems, FiniteSetTheorems, TLAPS

-----------------------------------------------------------------------------
(* Statements and programs.                                                *)
Four == {"entity", "process", "session", "conversation"}
Graph == {"subject", "predicate", "object"}
Counts == {"entity_fact", "knowledge_graph", "process_attribute"}
Erasable == Graph \cup {"entity_fact", "entity_fact_mention", "knowledge_graph"}
Learned == Erasable \cup {"process_attribute"}

Branches == {"unless", "when", "return_recent"}
Notes == {"read_ids", "note_orphans", "note_used"}
Reads == {"read_ordered", "read_unordered"}
Ends == {"commit", "new_session", "set_session"}

\* Which statements the drivers send about which tables.
Proper(x) ==
    /\ x.do \in Ends \/ x.table \in Tables
    /\ x.table = "conversation_message" => x.do \in {"add"} \cup Reads
    /\ x.do \in Notes \cup Erases => x.table \in Erasable
    /\ x.do \in {"upsert", "count_found", "count_or_add"} => x.table \in Counts
    /\ x.do = "add" => x.table \in {"conversation", "conversation_message"}
    /\ x.do \in {"update", "return_recent"} => x.table = "conversation"

Kinds ==
    {"find", "look", "take", "add", "add_ignoring", "add_absent", "upsert", "count_found",
     "count_or_add", "update", "erase", "erase_orphans", "erase_noted", "erase_unused",
     "read_ids", "read_rows", "note_orphans", "note_used", "read_ordered", "read_unordered",
     "unless", "when", "return_recent", "commit", "new_session", "set_session"}

Data == {"none", "f", "g", "question", "answer"}

Stmt == {x \in [do : Kinds, table : Tables \cup {"none"}, skip : Nat, datum : Data] : Proper(x)}

LEMMA StatementIs ==
    ASSUME NEW x \in Stmt
    PROVE  /\ x.skip \in Nat /\ x.do \in Kinds /\ x.table \in Tables \cup {"none"} /\ x.datum \in Data
           /\ Proper(x)
BY DEF Stmt

\* The statements that go by what the one before them has left.
Follows == {"add_absent", "count_found", "count_or_add"}
Bound == Follows \cup {"take", "return_recent"}

\* What surrounds a statement of a program (m: of MongoDB's driver).
TidyAt(m, s, i) ==
    /\ s[i].do \in Branches =>
          /\ i + s[i].skip <= Len(s)
          /\ i + s[i].skip < Len(s) => s[i + s[i].skip + 1].do \notin Bound
    /\ i > 1 /\ s[i].do = "take" => s[i - 1].do = "commit"
    /\ i > 1 /\ s[i].do = "return_recent" => s[i - 1].do = "find" /\ s[i - 1].table = s[i].table
    /\ i > 1 /\ s[i].do \in Follows =>
          /\ s[i - 1].table = s[i].table
          /\ s[i - 1].do = "find" \/ (s[i].do = "add_absent" /\ s[i - 1].do = "count_found")
    /\ ~m /\ s[i].do \in Adds /\ s[i].table \in Four => i < Len(s) /\ s[i + 1].do = "commit"

Tidy(m, s) == \A i \in 1 .. Len(s) : TidyAt(m, s, i)

\* A sequence of statements of S that stands by itself.
Unit(m, S, p) == p \in Seq(S) /\ Tidy(m, p) /\ (p # <<>> => p[1].do \notin Bound)

LEMMA UnitEmpty ==
    ASSUME NEW m, NEW S
    PROVE  Unit(m, S, <<>>)
BY DEF Unit, Tidy

LEMMA UnitWidens ==
    ASSUME NEW m, NEW S, NEW T, S \subseteq T, NEW p, Unit(m, S, p)
    PROVE  Unit(m, T, p)
<1>1. p \in Seq(T)
    BY DEF Unit
<1> QED
    BY <1>1 DEF Unit

\* A statement that keeps its neighbours stays tidy.
LEMMA TidyMoves ==
    ASSUME NEW m \in BOOLEAN, NEW s, NEW t, NEW i \in Nat, NEW k \in Nat, TidyAt(m, t, k),
           s[i] = t[k],
           s[i].do \in Branches =>
              /\ i + s[i].skip <= Len(s)
              /\ i + s[i].skip < Len(s) => s[i + s[i].skip + 1].do \notin Bound,
           i > 1 /\ s[i].do \in Bound => k > 1 /\ s[i - 1] = t[k - 1],
           k < Len(t) => i < Len(s) /\ s[i + 1] = t[k + 1]
    PROVE  TidyAt(m, s, i)
<1>1. s[i].do \in Branches =>
          /\ i + s[i].skip <= Len(s)
          /\ i + s[i].skip < Len(s) => s[i + s[i].skip + 1].do \notin Bound
    OBVIOUS
<1>2. i > 1 /\ s[i].do = "take" => s[i - 1].do = "commit"
    BY DEF TidyAt, Bound
<1>3. i > 1 /\ s[i].do = "return_recent" => s[i - 1].do = "find" /\ s[i - 1].table = s[i].table
    BY DEF TidyAt, Bound
<1>4. i > 1 /\ s[i].do \in Follows =>
          /\ s[i - 1].table = s[i].table
          /\ s[i - 1].do = "find" \/ (s[i].do = "add_absent" /\ s[i - 1].do = "count_found")
    BY DEF TidyAt, Bound
<1>5. ~m /\ s[i].do \in Adds /\ s[i].table \in Four => i < Len(s) /\ s[i + 1].do = "commit"
    BY DEF TidyAt
<1> QED
    BY <1>1, <1>2, <1>3, <1>4, <1>5 DEF TidyAt

\* Units one after the other are a unit.
LEMMA UnitJoins ==
    ASSUME NEW m \in BOOLEAN, NEW S, NEW p, NEW q, Unit(m, S, p), Unit(m, S, q), S \subseteq Stmt
    PROVE  Unit(m, S, p \o q)
<1> DEFINE s == p \o q
<1>1. p \in Seq(S) /\ q \in Seq(S) /\ Len(p) \in Nat /\ Len(q) \in Nat
    BY DEF Unit
<1>2. s \in Seq(S) /\ Len(s) = Len(p) + Len(q)
    BY <1>1, ConcatProperties
<1>3. /\ \A i \in 1 .. Len(p) : s[i] = p[i]
      /\ \A i \in 1 .. Len(q) : s[Len(p) + i] = q[i]
    <2>1. \A i \in 1 .. Len(p) + Len(q) : s[i] = IF i <= Len(p) THEN p[i] ELSE q[i - Len(p)]
        BY <1>1, ConcatProperties
    <2>2. ASSUME NEW i \in 1 .. Len(q) PROVE s[Len(p) + i] = q[i]
        <3>1. Len(p) + i \in 1 .. Len(p) + Len(q) /\ ~(Len(p) + i <= Len(p)) /\ (Len(p) + i) - Len(p) = i
            BY <1>1
        <3> QED
            BY <2>1, <3>1
    <2> QED
        BY <1>1, <2>1, <2>2
<1>4. /\ \A i \in 1 .. Len(p) : p[i].skip \in Nat
      /\ \A i \in 1 .. Len(q) : q[i].skip \in Nat
    BY <1>1 DEF Stmt
<1>5. (q # <<>> <=> Len(q) > 0) /\ (p # <<>> <=> Len(p) > 0) /\ (s # <<>> <=> Len(s) > 0)
    BY <1>1, <1>2, EmptySeq
<1>6. /\ Len(q) > 0 => q[1].do \notin Bound
      /\ Len(p) > 0 => p[1].do \notin Bound
    BY <1>5 DEF Unit
<1> HIDE DEF s
<1>7. ASSUME NEW i \in 1 .. Len(p) PROVE TidyAt(m, s, i)
    <2>1. s[i] = p[i] /\ TidyAt(m, p, i) /\ i \in Nat /\ p[i].skip \in Nat
        BY <1>3, <1>4 DEF Unit, Tidy
    <2>2. i > 1 => s[i - 1] = p[i - 1]
        BY <1>3, <1>1
    <2>3. i < Len(p) => i < Len(s) /\ s[i + 1] = p[i + 1]
        BY <1>3, <1>1, <1>2
    <2>4. ASSUME p[i].do \in Branches
          PROVE  /\ i + p[i].skip <= Len(s)
                 /\ i + p[i].skip < Len(s) => s[i + p[i].skip + 1].do \notin Bound
        <3> DEFINE k == i + p[i].skip
        <3>1. k \in Nat /\ k <= Len(p) /\ k >= 1 /\ (k < Len(p) => p[k + 1].do \notin Bound)
            BY <2>1, <2>4 DEF TidyAt
        <3> HIDE DEF k
        <3>2. k < Len(p) => k + 1 \in 1 .. Len(p)
            BY <3>1, <1>1
        <3>3. k = Len(p) /\ Len(q) > 0 => s[k + 1] = q[1]
            BY <1>3, <1>1
        <3>4. k <= Len(s) /\ (k < Len(s) => s[k + 1].do \notin Bound)
            BY <3>1, <3>2, <3>3, <1>1, <1>2, <1>3, <1>6
        <3> QED
            BY <3>4 DEF k
    <2> QED
        BY <2>1, <2>2, <2>3, <2>4, TidyMoves
<1>8. ASSUME NEW k \in 1 .. Len(q) PROVE TidyAt(m, s, Len(p) + k)
    <2> DEFINE i == Len(p) + k
    <2>1. s[i] = q[k] /\ TidyAt(m, q, k) /\ k \in Nat /\ q[k].skip \in Nat /\ i \in Nat
        BY <1>1, <1>3, <1>4 DEF Unit, Tidy
    <2>2. k > 1 => s[i - 1] = q[k - 1]
        <3>1. k > 1 => k - 1 \in 1 .. Len(q) /\ Len(p) + (k - 1) = i - 1
            BY <1>1
        <3> QED
            BY <3>1, <1>3
    <2>3. k < Len(q) => i < Len(s) /\ s[i + 1] = q[k + 1]
        <3>1. k < Len(q) => k + 1 \in 1 .. Len(q) /\ Len(p) + (k + 1) = i + 1 /\ i < Len(s)
            BY <1>1, <1>2
        <3> QED
            BY <3>1, <1>3
    <2>4. ASSUME q[k].do \in Branches
          PROVE  /\ i + q[k].skip <= Len(s)
                 /\ i + q[k].skip < Len(s) => s[i + q[k].skip + 1].do \notin Bound
        <3> DEFINE l == k + q[k].skip
        <3>0. l <= Len(q) /\ (l < Len(q) => q[l + 1].do \notin Bound)
            BY <2>1, <2>4 DEF TidyAt
        <3>1. l \in Nat /\ l <= Len(q) /\ l >= 1 /\ (l < Len(q) => q[l + 1].do \notin Bound)
              /\ i + q[k].skip = Len(p) + l
            BY <3>0, <2>1, <1>1
        <3> HIDE DEF l
        <3>2. l < Len(q) => l + 1 \in 1 .. Len(q) /\ Len(p) + (l + 1) = (Len(p) + l) + 1
            BY <3>1, <1>1
        <3>3. Len(p) + l <= Len(s) /\ (Len(p) + l < Len(s) => l < Len(q))
            BY <3>1, <1>1, <1>2
        <3>4. l < Len(q) => s[(Len(p) + l) + 1].do \notin Bound
            BY <3>1, <3>2, <1>3
        <3> QED
            BY <3>1, <3>3, <3>4
    <2>5. k = 1 => s[i].do \notin Bound
        BY <2>1, <1>6, <1>1
    <2> HIDE DEF i
    <2>6. i > 1 /\ s[i].do \in Bound => k > 1 /\ s[i - 1] = q[k - 1]
        BY <2>1, <2>2, <2>5
    <2>7. TidyAt(m, s, i)
        BY <2>1, <2>3, <2>4, <2>6, TidyMoves
    <2> QED
        BY <2>7 DEF i
<1>9. \A i \in 1 .. Len(s) : TidyAt(m, s, i)
    <2>1. ASSUME NEW i \in 1 .. Len(s) PROVE i \in 1 .. Len(p) \/ \E k \in 1 .. Len(q) : i = Len(p) + k
        <3>1. CASE i > Len(p)
            <4> DEFINE k == i - Len(p)
            <4>1. k \in 1 .. Len(q) /\ i = Len(p) + k
                BY <3>1, <1>1, <1>2
            <4> QED
                BY <4>1
        <3>2. CASE i <= Len(p)
            BY <3>2, <1>1, <1>2
        <3> QED
            BY <3>1, <3>2, <1>1, <1>2
    <2> QED
        BY <2>1, <1>7, <1>8
<1>10. s # <<>> => s[1].do \notin Bound
    <2>1. CASE Len(p) > 0
        BY <2>1, <1>3, <1>1, <1>6
    <2>2. CASE Len(p) = 0
        BY <2>2, <1>3, <1>2, <1>1, <1>5, <1>6
    <2> QED
        BY <2>1, <2>2, <1>1
<1> QED
    BY <1>2, <1>9, <1>10 DEF Unit, Tidy, s

\* Nothing in it goes by what was before: no branch, and no row of the four tables.
Plain(m, x) ==
    /\ x.do \notin Branches \cup Bound
    /\ ~m => ~(x.do \in Adds /\ x.table \in Four)

LEMMA UnitPlain ==
    ASSUME NEW m \in BOOLEAN, NEW S, NEW p \in Seq(S), \A i \in 1 .. Len(p) : Plain(m, p[i])
    PROVE  Unit(m, S, p)
<1>1. \A i \in 1 .. Len(p) : TidyAt(m, p, i)
    BY DEF Plain, TidyAt, Bound
<1>2. p # <<>> => p[1].do \notin Bound
    BY DEF Plain
<1> QED
    BY <1>1, <1>2 DEF Unit, Tidy

\* What x, which a statement p[1] that goes by it follows, is.
Suits(x, y) ==
    /\ y.do = "take" => x.do = "commit"
    /\ y.do = "return_recent" => x.do = "find" /\ x.table = y.table
    /\ y.do \in Follows =>
          /\ x.table = y.table
          /\ x.do = "find" \/ (y.do = "add_absent" /\ x.do = "count_found")

\* A statement before the others.
LEMMA TidyPreceded ==
    ASSUME NEW m \in BOOLEAN, NEW S, S \subseteq Stmt, NEW x \in S, NEW p \in Seq(S), Tidy(m, p),
           x.do \in Branches => x.skip = Len(p),
           ~m /\ x.do \in Adds /\ x.table \in Four => Len(p) > 0 /\ p[1].do = "commit",
           Len(p) > 0 => Suits(x, p[1])
    PROVE  <<x>> \o p \in Seq(S) /\ Tidy(m, <<x>> \o p) /\ (x.do \notin Bound => Unit(m, S, <<x>> \o p))
<1> DEFINE s == <<x>> \o p
<1>1. p \in Seq(S) /\ <<x>> \in Seq(S) /\ Len(<<x>>) = 1 /\ Len(p) \in Nat
    OBVIOUS
<1>2. s \in Seq(S) /\ Len(s) = 1 + Len(p) /\ s[1] = x /\ \A i \in 1 .. Len(p) : s[i + 1] = p[i]
    <2>1. s \in Seq(S) /\ Len(s) = 1 + Len(p)
          /\ \A i \in 1 .. 1 + Len(p) : s[i] = IF i <= 1 THEN <<x>>[i] ELSE p[i - 1]
        BY <1>1, ConcatProperties
    <2>2. ASSUME NEW i \in 1 .. Len(p) PROVE s[i + 1] = p[i]
        <3>1. i + 1 \in 1 .. 1 + Len(p) /\ ~(i + 1 <= 1) /\ (i + 1) - 1 = i
            BY <1>1
        <3> QED
            BY <2>1, <3>1
    <2> QED
        BY <1>1, <2>1, <2>2
<1> HIDE DEF s
<1>3. ASSUME NEW k \in 1 .. Len(p) PROVE TidyAt(m, s, k + 1)
    <2>1. s[k + 1] = p[k] /\ TidyAt(m, p, k) /\ k \in Nat /\ p[k].skip \in Nat /\ k + 1 \in Nat
        BY <1>1, <1>2 DEF Stmt, Tidy
    <2>2. k > 1 => s[(k + 1) - 1] = p[k - 1]
        <3>1. k > 1 => k - 1 \in 1 .. Len(p) /\ (k - 1) + 1 = (k + 1) - 1
            BY <1>1, <1>3
        <3> QED
            BY <3>1, <1>2
    <2>3. k < Len(p) => k + 1 < Len(s) /\ s[(k + 1) + 1] = p[k + 1]
        <3>1. k < Len(p) => k + 1 \in 1 .. Len(p) /\ k + 1 < Len(s)
            BY <1>1, <1>2
        <3> QED
            BY <3>1, <1>2
    <2>4. ASSUME p[k].do \in Branches
          PROVE  /\ (k + 1) + p[k].skip <= Len(s)
                 /\ (k + 1) + p[k].skip < Len(s) => s[(k + 1) + p[k].skip + 1].do \notin Bound
        <3> DEFINE l == k + p[k].skip
        <3>0. l <= Len(p) /\ (l < Len(p) => p[l + 1].do \notin Bound)
            BY <2>1, <2>4 DEF TidyAt
        <3>1. l \in Nat /\ l >= 1 /\ (k + 1) + p[k].skip = l + 1
            BY <2>1, <1>1
        <3> HIDE DEF l
        <3>2. l < Len(p) => l + 1 \in 1 .. Len(p)
            BY <3>1, <1>1
        <3>3. l + 1 <= Len(s) /\ (l + 1 < Len(s) => l < Len(p))
            BY <3>0, <3>1, <1>1, <1>2
        <3> QED
            BY <3>0, <3>1, <3>2, <3>3, <1>2
    <2>5. CASE k > 1
        <3>1. (k + 1) > 1 /\ s[k + 1].do \in Bound => k > 1 /\ s[(k + 1) - 1] = p[k - 1]
            BY <2>2, <2>5
        <3> QED
            BY <2>1, <2>3, <2>4, <3>1, TidyMoves
    <2>6. CASE k = 1
        <3>1. Suits(x, p[1]) /\ s[2] = p[1] /\ s[1] = x
            BY <2>1, <2>6, <1>2, <1>1
        <3>2. k + 1 = 2 /\ 2 - 1 = 1
            BY <2>6
        <3>3. 2 > 1 /\ s[2].do = "take" => s[2 - 1].do = "commit"
            BY <3>1, <3>2 DEF Suits
        <3>4. s[2].do = "return_recent" => s[2 - 1].do = "find" /\ s[2 - 1].table = s[2].table
            BY <3>1, <3>2 DEF Suits
        <3>5. s[2].do \in Follows =>
                 /\ s[2 - 1].table = s[2].table
                 /\ s[2 - 1].do = "find" \/ (s[2].do = "add_absent" /\ s[2 - 1].do = "count_found")
            BY <3>1, <3>2 DEF Suits
        <3>6. s[2].do \in Branches =>
                 /\ 2 + s[2].skip <= Len(s)
                 /\ 2 + s[2].skip < Len(s) => s[2 + s[2].skip + 1].do \notin Bound
            BY <2>4, <2>6, <3>1
        <3>7. ~m /\ s[2].do \in Adds /\ s[2].table \in Four => 2 < Len(s) /\ s[2 + 1].do = "commit"
            BY <2>1, <2>3, <2>6, <3>1 DEF TidyAt
        <3> QED
            BY <3>2, <3>3, <3>4, <3>5, <3>6, <3>7 DEF TidyAt
    <2> QED
        BY <2>5, <2>6
<1>4. TidyAt(m, s, 1)
    <2>1. s[1].do \in Branches => 1 + s[1].skip <= Len(s) /\ ~(1 + s[1].skip < Len(s))
        BY <1>1, <1>2
    <2>2. ~m /\ s[1].do \in Adds /\ s[1].table \in Four => 1 < Len(s) /\ s[1 + 1].do = "commit"
        BY <1>1, <1>2
    <2> QED
        BY <2>1, <2>2 DEF TidyAt
<1>5. ASSUME NEW i \in 1 .. Len(s), i # 1 PROVE \E k \in 1 .. Len(p) : i = k + 1
    <2> DEFINE k == i - 1
    <2>1. k \in 1 .. Len(p) /\ i = k + 1
        BY <1>5, <1>1, <1>2
    <2> QED
        BY <2>1
<1>6. Tidy(m, s)
    BY <1>3, <1>4, <1>5 DEF Tidy
<1> QED
    BY <1>2, <1>6 DEF Unit, s

\* A branch past the whole of a unit.
LEMMA UnitGuarded ==
    ASSUME NEW m \in BOOLEAN, NEW S, S \subseteq Stmt, NEW p, Unit(m, S, p), NEW x \in S,
           x.do \in {"unless", "when"}, x.skip = Len(p)
    PROVE  Unit(m, S, <<x>> \o p)
<1>1. p \in Seq(S) /\ Tidy(m, p) /\ (Len(p) > 0 => p[1].do \notin Bound)
    BY EmptySeq DEF Unit
<1>2. Len(p) > 0 => Suits(x, p[1])
    BY <1>1 DEF Suits, Bound
<1>3. x.do \notin Bound /\ x.do \notin Adds
    BY DEF Bound, Follows, Adds
<1> QED
    BY <1>1, <1>2, <1>3, TidyPreceded

\* Short sequences one after the other.
LEMMA PairsJoin ==
    ASSUME NEW a, NEW b, NEW c, NEW d
    PROVE  <<a, b>> \o <<c, d>> = <<a, b, c, d>>
<1> DEFINE S == {a, b, c, d}
           s == <<a, b>> \o <<c, d>>
<1>1. <<a, b>> \in Seq(S) /\ <<c, d>> \in Seq(S) /\ <<a, b, c, d>> \in Seq(S)
    OBVIOUS
<1>2. s \in Seq(S) /\ Len(s) = 4 /\ \A i \in 1 .. 4 : s[i] = IF i <= 2 THEN <<a, b>>[i] ELSE <<c, d>>[i - 2]
    BY <1>1, ConcatProperties
<1>3. \A i \in 1 .. 4 : s[i] = <<a, b, c, d>>[i]
    BY <1>2
<1> QED
    BY <1>1, <1>2, <1>3, SeqEqual

LEMMA PairPrecedes ==
    ASSUME NEW S, NEW a \in S, NEW b \in S, NEW p \in Seq(S)
    PROVE  <<a, b>> \o p = <<a>> \o (<<b>> \o p)
<1>1. <<a>> \in Seq(S) /\ <<b>> \in Seq(S) /\ <<a>> \o <<b>> = <<a, b>>
    <2>1. <<a>> \in Seq(S) /\ <<b>> \in Seq(S) /\ <<a, b>> \in Seq(S) /\ Len(<<a, b>>) = 2
        OBVIOUS
    <2>2. <<a>> \o <<b>> \in Seq(S) /\ Len(<<a>> \o <<b>>) = 2
          /\ \A i \in 1 .. 2 : (<<a>> \o <<b>>)[i] = IF i <= 1 THEN <<a>>[i] ELSE <<b>>[i - 1]
        BY <2>1, ConcatProperties
    <2>3. \A i \in 1 .. 2 : (<<a>> \o <<b>>)[i] = <<a, b>>[i]
        BY <2>2
    <2> QED
        BY <2>1, <2>2, <2>3, SeqEqual
<1>2. (<<a>> \o <<b>>) \o p = <<a>> \o (<<b>> \o p)
    BY <1>1, ConcatAssociative
<1> QED
    BY <1>1, <1>2

LEMMA TablesAre ==
    Tables = Four \cup Learned \cup {"conversation_message"}
BY DEF Tables, NaturalKey, Four, Learned, Erasable, Graph

\* The statements that create one row, and those that learn.
Makings(t) ==
    {x \in Stmt : /\ x.do \in {"find", "take", "add", "add_ignoring", "add_absent", "commit",
                               "return_recent"}
                  /\ x.do = "commit" \/ x.table = t}

Learnings ==
    {x \in Stmt : /\ x.do \in {"find", "take", "look", "add_ignoring", "add_absent", "commit",
                               "upsert", "count_found", "count_or_add"}
                  /\ x.do = "commit" \/ x.table \in Learned
                  /\ x.do = "look" => x.table = "entity_fact"}

Making == {"find", "take", "add_ignoring", "add_absent"}

LEMMA MakingsAre ==
    ASSUME NEW t \in Four \cup Graph
    PROVE  /\ \A kind \in Making : Statement(kind, t) \in Makings(t)
           /\ Commit \in Makings(t)
           /\ Makings(t) \subseteq Stmt
           /\ t \in Graph => Makings(t) \subseteq Learnings
<1>1. t \in Tables /\ t # "conversation_message"
    BY TablesAre DEF Four, Graph, Learned, Erasable
<1>2. ASSUME NEW kind \in Making
      PROVE  Statement(kind, t) \in Makings(t)
    <2>1. kind \in Kinds /\ "none" \in Data
        BY DEF Making, Kinds, Data
    <2>2. Statement(kind, t) \in [do : Kinds, table : Tables \cup {"none"}, skip : Nat, datum : Data]
        BY <1>1, <2>1 DEF Statement
    <2>3. Proper(Statement(kind, t))
        BY <1>1 DEF Statement, Proper, Making, Ends, Notes, Erases, Reads
    <2> QED
        BY <2>2, <2>3 DEF Makings, Statement, Stmt, Making
<1>3. Commit \in Makings(t)
    <2>1. Commit \in [do : Kinds, table : Tables \cup {"none"}, skip : Nat, datum : Data]
        BY DEF Commit, Statement, Kinds, Data
    <2> QED
        BY <2>1 DEF Makings, Commit, Statement, Stmt, Proper, Ends, Notes, Erases, Reads
<1>4. t \in Graph => Makings(t) \subseteq Learnings
    <2>1. ASSUME t \in Graph, NEW x \in Makings(t) PROVE x \in Learnings
        <3>1. x \in Stmt /\ (x.do = "commit" \/ x.table \in Graph) /\ x.do \notin {"add", "return_recent"}
            <4>1. t \notin {"conversation", "conversation_message"}
                BY <2>1 DEF Graph
            <4>2. x \in Stmt /\ (x.do = "commit" \/ x.table = t)
                BY <2>1 DEF Makings
            <4> QED
                BY <2>1, <4>1, <4>2 DEF Stmt, Proper
        <3> QED
            BY <2>1, <3>1 DEF Makings, Learnings, Learned, Erasable
    <2> QED
        BY <2>1
<1> QED
    BY <1>2, <1>3, <1>4 DEF Makings

\* INSERT IGNORE or ON CONFLICT DO NOTHING, then the SELECT.
LEMMA IgnoreAndTakeIs ==
    ASSUME NEW m \in BOOLEAN, NEW t \in Four \cup Graph
    PROVE  Unit(m, Makings(t), IgnoreAndTake(t))
<1>1. AddIgnoring(t) \in Makings(t) /\ Commit \in Makings(t) /\ Take(t) \in Makings(t)
    BY MakingsAre DEF AddIgnoring, Take, Making
<1>2. IgnoreAndTake(t) \in Seq(Makings(t))
    BY <1>1 DEF IgnoreAndTake
<1>3. \A i \in 1 .. 3 : TidyAt(m, IgnoreAndTake(t), i)
    BY DEF IgnoreAndTake, AddIgnoring, Commit, Take, Statement, TidyAt, Branches, Follows, Adds
<1> QED
    BY <1>2, <1>3 DEF Unit, Tidy, IgnoreAndTake, Bound, AddIgnoring, Statement, Follows

\* MERGE, then the SELECT.
LEMMA MergeAndTakeIs ==
    ASSUME NEW m \in BOOLEAN, NEW t \in Four \cup Graph
    PROVE  Unit(m, Makings(t), MergeAndTake(t))
<1>1. Find(t) \in Makings(t) /\ AddAbsent(t) \in Makings(t) /\ Commit \in Makings(t) /\ Take(t) \in Makings(t)
    BY MakingsAre DEF Find, AddAbsent, Take, Making
<1>2. MergeAndTake(t) = <<Find(t), AddAbsent(t), Commit, Take(t)>>
    BY PairsJoin DEF MergeAndTake, Merge
<1>3. MergeAndTake(t) \in Seq(Makings(t)) /\ Len(MergeAndTake(t)) = 4
    BY <1>1, <1>2
<1>4. \A i \in 1 .. 4 : TidyAt(m, <<Find(t), AddAbsent(t), Commit, Take(t)>>, i)
    BY DEF Find, AddAbsent, Commit, Take, Statement, TidyAt, Branches, Follows, Adds
<1>5. MergeAndTake(t)[1].do = "find"
    BY <1>2 DEF Find, Statement
<1> QED
    BY <1>2, <1>3, <1>4, <1>5 DEF Unit, Tidy, Bound, Follows

\* find_one, then insert_one.
LEMMA FindOrInsertIs ==
    ASSUME NEW t \in Four \cup Graph
    PROVE  Unit(TRUE, Makings(t), FindOrInsert(t))
<1>1. Find(t) \in Makings(t) /\ AddAbsent(t) \in Makings(t)
    BY MakingsAre DEF Find, AddAbsent, Making
<1>2. FindOrInsert(t) \in Seq(Makings(t))
    BY <1>1 DEF FindOrInsert
<1>3. \A i \in 1 .. 2 : TidyAt(TRUE, FindOrInsert(t), i)
    BY DEF FindOrInsert, Find, AddAbsent, Statement, TidyAt, Branches, Follows, Adds
<1> QED
    BY <1>2, <1>3 DEF Unit, Tidy, FindOrInsert, Bound, Find, Statement, Follows

\* A recent conversation, or what creates one.
LEMMA RecentOrIs ==
    ASSUME NEW m \in BOOLEAN, NEW p, Unit(m, Makings("conversation"), p)
    PROVE  Unit(m, Makings("conversation"), RecentOr(p))
<1> DEFINE S == Makings("conversation")
           x == Find("conversation")
           y == ReturnRecent(Len(p))
<1>1. S \subseteq Stmt /\ p \in Seq(S) /\ Len(p) \in Nat /\ Tidy(m, p) /\ (Len(p) > 0 => p[1].do \notin Bound)
    BY EmptySeq DEF Makings, Unit
<1>2. x \in S
    <2>1. "conversation" \in Four \cup Graph /\ "find" \in Making
        BY DEF Four, Making
    <2> QED
        BY <2>1, MakingsAre DEF Find
<1>3. y \in S
    <2>1. y = [do |-> "return_recent", table |-> "conversation", skip |-> Len(p), datum |-> "none"]
        BY DEF ReturnRecent, Statement
    <2>2. "conversation" \in Tables
        BY TablesAre DEF Four
    <2>3. y \in [do : Kinds, table : Tables \cup {"none"}, skip : Nat, datum : Data]
        BY <1>1, <2>1, <2>2 DEF Kinds, Data
    <2>4. Proper(y)
        BY <2>1, <2>2 DEF Proper, Ends, Notes, Erases, Reads
    <2>5. y \in Stmt
        BY <2>3, <2>4 DEF Stmt
    <2> QED
        BY <2>1, <2>5 DEF Makings
<1>4. y.do = "return_recent" /\ y.table = "conversation" /\ y.skip = Len(p)
      /\ x.do = "find" /\ x.table = "conversation"
    BY DEF ReturnRecent, Find, Statement
<1>5. RecentOr(p) = <<x>> \o (<<y>> \o p)
    BY <1>1, <1>2, <1>3, PairPrecedes DEF RecentOr
<1> HIDE DEF S, x, y
<1>6. <<y>> \o p \in Seq(S) /\ Tidy(m, <<y>> \o p)
    <2>1. Len(p) > 0 => Suits(y, p[1])
        BY <1>1 DEF Suits, Bound
    <2> QED
        BY <1>1, <1>3, <1>4, <2>1, TidyPreceded DEF Adds
<1>7. (<<y>> \o p)[1] = y
    BY <1>1, <1>3, ConcatProperties
<1>8. Suits(x, (<<y>> \o p)[1])
    BY <1>4, <1>7 DEF Suits, Follows
<1>9. Unit(m, S, <<x>> \o (<<y>> \o p))
    BY <1>1, <1>2, <1>4, <1>6, <1>8, TidyPreceded DEF Adds, Bound, Follows, Branches
<1> QED
    BY <1>5, <1>9 DEF S

-----------------------------------------------------------------------------
(* A statement that needs the id of t runs when it is known.               *)
\* The statements that need the id of t, and those after which it is known.
Uses(t, x) ==
    x.do \in Adds /\ x.table = (IF t = "session" THEN "conversation" ELSE "conversation_message")

Gives(m, t, x) == x.table = t /\ (x.do = "take" \/ (m /\ x.do \in {"add", "add_absent"}))

\* A branch that is taken when the id of t is known.
Knows(t, x) == x.table = t /\ x.do \in {"unless", "return_recent"}

Looks(t, x) == x.do = "look" /\ x.table = t

\* From the places G of s on, the id of t is known before it is needed.
Closed(m, t, s, G) ==
    \A i \in 1 .. Len(s) :
        /\ i \in G =>
              /\ ~Uses(t, s[i])
              /\ Gives(m, t, s[i]) \/ i + 1 \in G
              /\ s[i].do \in Branches => Knows(t, s[i]) \/ i + s[i].skip + 1 \in G
        /\ Looks(t, s[i]) => i + 1 \in G

\* So it is from the start; e: its end may be reached without it.
Safe(m, t, s, e) == \E G \in SUBSET (1 .. Len(s) + e) : 1 \in G /\ Closed(m, t, s, G)

Free(t, s) == \A i \in 1 .. Len(s) : ~Uses(t, s[i])

Blind(t, s) == \A i \in 1 .. Len(s) : ~Looks(t, s[i])

LEMMA SafeWidens ==
    ASSUME NEW m \in BOOLEAN, NEW t, NEW s \in Seq(Stmt), Safe(m, t, s, 0)
    PROVE  Safe(m, t, s, 1)
<1>1. 1 .. Len(s) + 0 \subseteq 1 .. Len(s) + 1
    OBVIOUS
<1> QED
    BY <1>1 DEF Safe

LEMMA SafeFree ==
    ASSUME NEW m \in BOOLEAN, NEW t, NEW s \in Seq(Stmt), Free(t, s), Tidy(m, s)
    PROVE  Safe(m, t, s, 1)
<1>1. ASSUME NEW i \in 1 .. Len(s)
      PROVE  i + 1 \in 1 .. Len(s) + 1 /\ (s[i].do \in Branches => i + s[i].skip + 1 \in 1 .. Len(s) + 1)
    <2>1. s[i].skip \in Nat
        BY DEF Stmt
    <2>2. s[i].do \in Branches => i + s[i].skip <= Len(s)
        BY DEF Tidy, TidyAt
    <2> QED
        BY <2>1, <2>2
<1>2. Closed(m, t, s, 1 .. Len(s) + 1)
    BY <1>1 DEF Closed, Free
<1> QED
    BY <1>2 DEF Safe

\* The statements of p \o q.
LEMMA JoinedAt ==
    ASSUME NEW S, NEW p \in Seq(S), NEW q \in Seq(S)
    PROVE  /\ p \o q \in Seq(S) /\ Len(p) \in Nat /\ Len(q) \in Nat
           /\ Len(p \o q) = Len(p) + Len(q)
           /\ \A i \in 1 .. Len(p) : (p \o q)[i] = p[i]
           /\ \A i \in 1 .. Len(q) : (p \o q)[Len(p) + i] = q[i]
           /\ \A i \in 1 .. Len(p \o q) : i \in 1 .. Len(p) \/ \E k \in 1 .. Len(q) : i = Len(p) + k
<1> DEFINE s == p \o q
<1>1. Len(p) \in Nat /\ Len(q) \in Nat
    OBVIOUS
<1>2. s \in Seq(S) /\ Len(s) = Len(p) + Len(q)
      /\ \A i \in 1 .. Len(p) + Len(q) : s[i] = IF i <= Len(p) THEN p[i] ELSE q[i - Len(p)]
    BY ConcatProperties
<1> HIDE DEF s
<1>3. ASSUME NEW i \in 1 .. Len(q) PROVE s[Len(p) + i] = q[i]
    <2>1. Len(p) + i \in 1 .. Len(p) + Len(q) /\ ~(Len(p) + i <= Len(p)) /\ (Len(p) + i) - Len(p) = i
        BY <1>1
    <2> QED
        BY <2>1, <1>2
<1>4. ASSUME NEW i \in 1 .. Len(s) PROVE i \in 1 .. Len(p) \/ \E k \in 1 .. Len(q) : i = Len(p) + k
    <2>1. CASE i > Len(p)
        <3> DEFINE k == i - Len(p)
        <3>1. k \in 1 .. Len(q) /\ i = Len(p) + k
            BY <2>1, <1>1, <1>2
        <3> QED
            BY <3>1
    <2>2. CASE i <= Len(p)
        BY <2>2, <1>1, <1>2
    <2> QED
        BY <2>1, <2>2, <1>1, <1>2
<1>5. \A i \in 1 .. Len(p) : s[i] = p[i]
    BY <1>1, <1>2
<1> QED
    BY <1>1, <1>2, <1>3, <1>4, <1>5 DEF s

\* What does not need the id may come first.
LEMMA SafeAfter ==
    ASSUME NEW m \in BOOLEAN, NEW t, NEW p \in Seq(Stmt), NEW q \in Seq(Stmt), NEW e \in {0, 1},
           Free(t, p), Tidy(m, p), Safe(m, t, q, e)
    PROVE  Safe(m, t, p \o q, e)
<1>1. PICK H \in SUBSET (1 .. Len(q) + e) : 1 \in H /\ Closed(m, t, q, H)
    BY DEF Safe
<1> DEFINE s == p \o q
           G == 1 .. Len(p) \cup {Len(p) + k : k \in H}
<1>2. /\ s \in Seq(Stmt) /\ Len(p) \in Nat /\ Len(q) \in Nat /\ Len(s) = Len(p) + Len(q)
      /\ \A i \in 1 .. Len(p) : s[i] = p[i]
      /\ \A i \in 1 .. Len(q) : s[Len(p) + i] = q[i]
      /\ \A i \in 1 .. Len(s) : i \in 1 .. Len(p) \/ \E k \in 1 .. Len(q) : i = Len(p) + k
    BY JoinedAt
<1>3. \A k \in Nat : Len(p) + k \in G <=> (k \in H \/ (k = 0 /\ Len(p) > 0))
    BY <1>1, <1>2
<1>4. G \subseteq 1 .. Len(s) + e
    BY <1>1, <1>2
<1>5. 1 \in G
    <2>1. Len(p) + 1 \in G
        BY <1>1, <1>3
    <2> QED
        BY <2>1, <1>2
<1>6. \A i \in 1 .. Len(p) : i \in G /\ i + 1 \in G
    <2>1. Len(p) + 1 \in G
        BY <1>1, <1>3
    <2> QED
        BY <2>1, <1>2
<1>7. \A i \in Nat : i >= 1 /\ i <= Len(p) + 1 => i \in G
    <2>1. Len(p) + 1 \in G
        BY <1>1, <1>3
    <2> QED
        BY <2>1, <1>2
<1> HIDE DEF s, G
<1>8. ASSUME NEW i \in 1 .. Len(p)
      PROVE  /\ ~Uses(t, s[i])
             /\ i + 1 \in G
             /\ s[i].do \in Branches => i + s[i].skip + 1 \in G
    <2>1. p[i].skip \in Nat /\ s[i] = p[i]
        BY <1>2, StatementIs
    <2>2. p[i].do \in Branches => i + p[i].skip <= Len(p)
        BY DEF Tidy, TidyAt
    <2>3. p[i].do \in Branches => i + p[i].skip + 1 \in Nat /\ i + p[i].skip + 1 >= 1 /\ i + p[i].skip + 1 <= Len(p) + 1
        BY <2>1, <2>2, <1>2
    <2> QED
        BY <2>1, <2>3, <1>6, <1>7 DEF Free
<1>9. ASSUME NEW k \in 1 .. Len(q)
      PROVE  /\ Len(p) + k \in G =>
                  /\ ~Uses(t, s[Len(p) + k])
                  /\ Gives(m, t, s[Len(p) + k]) \/ (Len(p) + k) + 1 \in G
                  /\ s[Len(p) + k].do \in Branches =>
                        Knows(t, s[Len(p) + k]) \/ (Len(p) + k) + s[Len(p) + k].skip + 1 \in G
             /\ Looks(t, s[Len(p) + k]) => (Len(p) + k) + 1 \in G
    <2>1. s[Len(p) + k] = q[k] /\ q[k].skip \in Nat /\ k \in Nat /\ k # 0
        <3>1. k \in Nat /\ k # 0 /\ s[Len(p) + k] = q[k] /\ q[k] \in Stmt
            BY <1>2
        <3> QED
            BY <3>1, StatementIs
    <2>2. /\ (Len(p) + k) + 1 \in G <=> k + 1 \in H
          /\ (Len(p) + k) + q[k].skip + 1 \in G <=> k + q[k].skip + 1 \in H
          /\ Len(p) + k \in G <=> k \in H
        <3>1. (Len(p) + k) + 1 = Len(p) + (k + 1) /\ k + 1 \in Nat /\ k + 1 # 0
            BY <2>1, <1>2
        <3>2. (Len(p) + k) + q[k].skip + 1 = Len(p) + (k + q[k].skip + 1)
            BY <2>1, <1>2
        <3>3. k + q[k].skip + 1 \in Nat /\ k + q[k].skip + 1 # 0
            BY <2>1
        <3> QED
            BY <3>1, <3>2, <3>3, <2>1, <1>3
    <2> QED
        BY <2>1, <2>2, <1>1 DEF Closed
<1>10. Closed(m, t, s, G)
    BY <1>2, <1>8, <1>9 DEF Closed
<1> QED
    BY <1>4, <1>5, <1>10 DEF Safe, s

\* What does not need the id, or comes when it is known, may come last.
LEMMA SafeBefore ==
    ASSUME NEW m \in BOOLEAN, NEW t, NEW p \in Seq(Stmt), NEW q \in Seq(Stmt), NEW e \in {0, 1},
           Safe(m, t, p, e), IF e = 0 THEN Blind(t, q) ELSE Free(t, q) /\ Tidy(m, q)
    PROVE  Safe(m, t, p \o q, e)
<1>1. PICK H \in SUBSET (1 .. Len(p) + e) : 1 \in H /\ Closed(m, t, p, H)
    BY DEF Safe
<1> DEFINE s == p \o q
           G == H \cup (IF e = 0 THEN {} ELSE Len(p) + 1 .. Len(p) + Len(q) + 1)
<1>2. /\ s \in Seq(Stmt) /\ Len(p) \in Nat /\ Len(q) \in Nat /\ Len(s) = Len(p) + Len(q)
      /\ \A i \in 1 .. Len(p) : s[i] = p[i]
      /\ \A i \in 1 .. Len(q) : s[Len(p) + i] = q[i]
      /\ \A i \in 1 .. Len(s) : i \in 1 .. Len(p) \/ \E k \in 1 .. Len(q) : i = Len(p) + k
    BY JoinedAt
<1>3. G \subseteq 1 .. Len(s) + e /\ 1 \in G /\ H \subseteq G
    <2>1. H \subseteq 1 .. Len(s) + e
        BY <1>1, <1>2
    <2>2. e = 1 => Len(p) + 1 .. Len(p) + Len(q) + 1 \subseteq 1 .. Len(s) + e
        BY <1>2
    <2> QED
        BY <1>1, <2>1, <2>2
<1>4. \A i \in 1 .. Len(p) : i \in G => i \in H
    BY <1>1, <1>2
<1>5. \A k \in Nat : k >= 1 /\ k <= Len(q) + 1 =>
          (e = 0 => Len(p) + k \notin G) /\ (e = 1 => Len(p) + k \in G)
    BY <1>1, <1>2
<1> HIDE DEF s, G
<1>6. ASSUME NEW i \in 1 .. Len(p)
      PROVE  /\ i \in G =>
                  /\ ~Uses(t, s[i])
                  /\ Gives(m, t, s[i]) \/ i + 1 \in G
                  /\ s[i].do \in Branches => Knows(t, s[i]) \/ i + s[i].skip + 1 \in G
             /\ Looks(t, s[i]) => i + 1 \in G
    BY <1>1, <1>2, <1>3, <1>4 DEF Closed
<1>7. ASSUME NEW k \in 1 .. Len(q)
      PROVE  /\ Len(p) + k \in G =>
                  /\ ~Uses(t, s[Len(p) + k])
                  /\ Gives(m, t, s[Len(p) + k]) \/ (Len(p) + k) + 1 \in G
                  /\ s[Len(p) + k].do \in Branches =>
                        Knows(t, s[Len(p) + k]) \/ (Len(p) + k) + s[Len(p) + k].skip + 1 \in G
             /\ Looks(t, s[Len(p) + k]) => (Len(p) + k) + 1 \in G
    <2>0. q[k] \in Stmt /\ q[k].skip \in Nat
        BY StatementIs
    <2>1. s[Len(p) + k] = q[k] /\ q[k].skip \in Nat /\ k \in Nat /\ k >= 1 /\ k <= Len(q) + 1
        BY <1>2, <2>0
    <2>2. CASE e = 0
        BY <2>1, <2>2, <1>5 DEF Blind
    <2>3. CASE e = 1
        <3>1. (Len(p) + k) + 1 \in G
            <4>1. (Len(p) + k) + 1 = Len(p) + (k + 1) /\ k + 1 \in Nat /\ k + 1 >= 1 /\ k + 1 <= Len(q) + 1
                BY <2>1, <1>2
            <4> QED
                BY <4>1, <2>3, <1>5
        <3>2. q[k].do \in Branches => k + q[k].skip <= Len(q)
            BY <2>3 DEF Tidy, TidyAt
        <3>3. q[k].do \in Branches => (Len(p) + k) + q[k].skip + 1 \in G
            <4> DEFINE j == q[k].skip  h == k + j + 1
            <4>1. j \in Nat /\ h \in Nat /\ h >= 1 /\ (Len(p) + k) + j + 1 = Len(p) + h
                BY <2>0, <2>1, <1>2
            <4>2. q[k].do \in Branches => h <= Len(q) + 1
                BY <4>1, <3>2, <2>1, <1>2
            <4> HIDE DEF h
            <4>3. q[k].do \in Branches => Len(p) + h \in G
                BY <4>1, <4>2, <2>3, <1>5
            <4> QED
                BY <4>1, <4>3
        <3>4. ~Uses(t, q[k])
            BY <2>3 DEF Free
        <3> QED
            BY <2>1, <3>1, <3>3, <3>4
    <2> QED
        BY <2>2, <2>3
<1>8. Closed(m, t, s, G)
    BY <1>2, <1>6, <1>7 DEF Closed
<1> QED
    BY <1>3, <1>8 DEF Safe, s

\* A branch past the whole of it, which is taken when the id is known if e = 0.
LEMMA SafeGuarded ==
    ASSUME NEW m \in BOOLEAN, NEW t, NEW p \in Seq(Stmt), NEW x \in Stmt, NEW e \in {0, 1},
           x.do \in Branches, x.skip = Len(p), e = 0 => Knows(t, x),
           Safe(m, t, p, e)
    PROVE  Safe(m, t, <<x>> \o p, e)
<1>1. PICK H \in SUBSET (1 .. Len(p) + e) : 1 \in H /\ Closed(m, t, p, H)
    BY DEF Safe
<1> DEFINE s == <<x>> \o p
           G == {1} \cup {1 + k : k \in H} \cup (IF e = 0 THEN {} ELSE {Len(p) + 2})
<1>2. /\ s \in Seq(Stmt) /\ Len(p) \in Nat /\ Len(s) = 1 + Len(p)
      /\ s[1] = x
      /\ \A i \in 1 .. Len(p) : s[1 + i] = p[i]
      /\ \A i \in 1 .. Len(s) : i = 1 \/ \E k \in 1 .. Len(p) : i = 1 + k
    <2>1. <<x>> \in Seq(Stmt) /\ Len(<<x>>) = 1 /\ <<x>>[1] = x
        OBVIOUS
    <2>2. /\ s \in Seq(Stmt) /\ Len(p) \in Nat /\ Len(s) = Len(<<x>>) + Len(p)
          /\ \A i \in 1 .. Len(<<x>>) : s[i] = <<x>>[i]
          /\ \A i \in 1 .. Len(p) : s[Len(<<x>>) + i] = p[i]
          /\ \A i \in 1 .. Len(s) : i \in 1 .. Len(<<x>>) \/ \E k \in 1 .. Len(p) : i = Len(<<x>>) + k
        BY <2>1, JoinedAt
    <2> HIDE DEF s
    <2>3. Len(s) = 1 + Len(p) /\ s[1] = x
        BY <2>1, <2>2
    <2>4. \A i \in 1 .. Len(p) : s[1 + i] = p[i]
        BY <2>1, <2>2
    <2>5. \A i \in 1 .. Len(s) : i = 1 \/ \E k \in 1 .. Len(p) : i = 1 + k
        BY <2>1, <2>2
    <2> QED
        BY <2>2, <2>3, <2>4, <2>5
<1>3. G \subseteq 1 .. Len(s) + e /\ 1 \in G /\ 2 \in G
    BY <1>1, <1>2
<1>4. \A k \in 1 .. Len(p) : 1 + k \in G <=> k \in H
    BY <1>1, <1>2
<1>5. \A k \in H : 1 + k \in G
    OBVIOUS
<1>6. e = 1 => Len(p) + 2 \in G
    OBVIOUS
<1> HIDE DEF s, G
<1>7. /\ ~Uses(t, s[1])
      /\ 1 + 1 \in G
      /\ s[1].do \in Branches => Knows(t, s[1]) \/ 1 + s[1].skip + 1 \in G
      /\ ~Looks(t, s[1])
    BY <1>2, <1>3, <1>6 DEF Uses, Looks, Branches, Adds
<1>8. ASSUME NEW k \in 1 .. Len(p)
      PROVE  /\ 1 + k \in G =>
                  /\ ~Uses(t, s[1 + k])
                  /\ Gives(m, t, s[1 + k]) \/ (1 + k) + 1 \in G
                  /\ s[1 + k].do \in Branches => Knows(t, s[1 + k]) \/ (1 + k) + s[1 + k].skip + 1 \in G
             /\ Looks(t, s[1 + k]) => (1 + k) + 1 \in G
    <2>1. s[1 + k] = p[k] /\ p[k].skip \in Nat /\ k \in Nat
        <3>1. s[1 + k] = p[k] /\ p[k] \in Stmt /\ k \in Nat
            BY <1>2
        <3> QED
            BY <3>1, StatementIs
    <2>2. /\ k + 1 \in H => (1 + k) + 1 \in G
          /\ k + p[k].skip + 1 \in H => (1 + k) + p[k].skip + 1 \in G
        <3>1. (1 + k) + 1 = 1 + (k + 1)
            BY <2>1
        <3>2. (1 + k) + p[k].skip + 1 = 1 + (k + p[k].skip + 1)
            <4> DEFINE z == p[k].skip
            <4>1. z \in Nat /\ k \in Nat
                BY <2>1
            <4> HIDE DEF z
            <4>2. (1 + k) + z + 1 = 1 + (k + z + 1)
                BY <4>1
            <4> QED
                BY <4>2 DEF z
        <3> QED
            BY <3>1, <3>2, <1>5
    <2> QED
        BY <2>1, <2>2, <1>1, <1>4 DEF Closed
<1>9. Closed(m, t, s, G)
    BY <1>2, <1>7, <1>8 DEF Closed
<1> QED
    BY <1>3, <1>9 DEF Safe, s

-----------------------------------------------------------------------------
(* The drivers.                                                            *)
Updatings == {x \in Stmt : x.do \in {"update", "commit"}}

Readings == {x \in Stmt : x.do \in Reads}

Recallings == {x \in Stmt : x.do \in {"read_ids", "read_rows"} /\ x.table = "entity_fact"}

Forgettings == {x \in Stmt : x.do \in Erases \cup Notes \cup {"commit"}}

\* What the methods of a driver are made of (m: of MongoDB's).
Good(m, D) ==
    /\ Unit(m, Makings("entity"), D.entity)
    /\ Unit(m, Makings("process"), D.process)
    /\ Unit(m, Makings("session"), D.session.create)
    /\ Unit(m, Makings("conversation"), D.conversation.create)
    /\ Safe(m, "session", D.session.create, 0)
    /\ Safe(m, "conversation", D.conversation.create, 0)
    /\ D.session.read = <<Look("session")>> /\ D.conversation.read = <<Look("conversation")>>
    /\ D.message = <<Add("conversation_message")>>
    /\ Unit(m, Readings, D.messages)
    /\ Unit(m, Updatings, D.conversation.update)
    /\ Unit(m, Learnings, D.fact_create.each) /\ Unit(m, Learnings, D.fact_create.end)
    /\ Unit(m, Learnings, D.graph_create.each) /\ Unit(m, Learnings, D.graph_create.end)
    /\ Unit(m, Learnings, D.attribute.each) /\ Unit(m, Learnings, D.attribute.end)
    /\ Unit(m, Forgettings, D.graph_delete) /\ Unit(m, Forgettings, D.fact_delete)
    /\ Unit(m, Recallings, D.fact_read)

\* Statements of a kind, about a table.
LEMMA StatementFits ==
    ASSUME NEW kind \in Kinds, NEW t \in Tables \cup {"none"}, Proper(Statement(kind, t))
    PROVE  Statement(kind, t) \in Stmt
<1>1. Statement(kind, t) \in [do : Kinds, table : Tables \cup {"none"}, skip : Nat, datum : Data]
    BY DEF Statement, Data
<1> QED
    BY <1>1 DEF Stmt

\* After INSERT and SELECT, or insert_one, the id is known.
LEMMA MakersGive ==
    ASSUME NEW t \in {"session", "conversation"}
    PROVE  /\ \A m \in BOOLEAN : Safe(m, t, IgnoreAndTake(t), 0) /\ Safe(m, t, MergeAndTake(t), 0)
           /\ Safe(TRUE, t, FindOrInsert(t), 0)
           /\ Safe(TRUE, "conversation", <<Add("conversation")>>, 0)
<1>1. ASSUME NEW m \in BOOLEAN PROVE Safe(m, t, IgnoreAndTake(t), 0)
    <2>1. Closed(m, t, IgnoreAndTake(t), 1 .. 3)
        BY DEF Closed, IgnoreAndTake, AddIgnoring, Commit, Take, Statement, Uses, Gives, Branches, Looks, Adds
    <2>2. Len(IgnoreAndTake(t)) = 3
        BY DEF IgnoreAndTake
    <2> QED
        BY <2>1, <2>2 DEF Safe
<1>2. ASSUME NEW m \in BOOLEAN PROVE Safe(m, t, MergeAndTake(t), 0)
    <2>1. MergeAndTake(t) = <<Find(t), AddAbsent(t), Commit, Take(t)>>
        BY PairsJoin DEF MergeAndTake, Merge
    <2>2. Closed(m, t, <<Find(t), AddAbsent(t), Commit, Take(t)>>, 1 .. 4)
        BY DEF Closed, Find, AddAbsent, Commit, Take, Statement, Uses, Gives, Branches, Looks, Adds
    <2>3. Len(<<Find(t), AddAbsent(t), Commit, Take(t)>>) = 4
        OBVIOUS
    <2> QED
        BY <2>1, <2>2, <2>3 DEF Safe
<1>3. ASSUME NEW m \in BOOLEAN, m = TRUE PROVE Safe(m, t, FindOrInsert(t), 0)
    <2>1. Closed(m, t, FindOrInsert(t), 1 .. 2)
        BY <1>3 DEF Closed, FindOrInsert, Find, AddAbsent, Statement, Uses, Gives, Branches, Looks, Adds
    <2>2. Len(FindOrInsert(t)) = 2
        BY DEF FindOrInsert
    <2> QED
        BY <2>1, <2>2 DEF Safe
<1>4. ASSUME NEW m \in BOOLEAN, m = TRUE PROVE Safe(m, "conversation", <<Add("conversation")>>, 0)
    <2>1. Closed(m, "conversation", <<Add("conversation")>>, 1 .. 1)
        BY <1>4 DEF Closed, Add, Statement, Uses, Gives, Branches, Looks, Adds
    <2>2. Len(<<Add("conversation")>>) = 1
        OBVIOUS
    <2> QED
        BY <2>1, <2>2 DEF Safe
<1> QED
    BY <1>1, <1>2, <1>3, <1>4

LEMMA RecentOrGives ==
    ASSUME NEW m \in BOOLEAN, NEW p, Unit(m, Makings("conversation"), p), Safe(m, "conversation", p, 0)
    PROVE  Safe(m, "conversation", RecentOr(p), 0)
<1> DEFINE x == Find("conversation")
           y == ReturnRecent(Len(p))
           t == "conversation"
<1>1. p \in Seq(Stmt) /\ Len(p) \in Nat
    BY UnitWidens DEF Makings, Unit
<1>2. x.do = "find" /\ x.table = t /\ x \in Stmt
    <2>1. Proper(x) /\ "find" \in Kinds /\ t \in Tables \cup {"none"}
        BY TablesAre DEF Proper, Find, Statement, Ends, Reads, Notes, Erases, Kinds, Four
    <2> QED
        BY <2>1, StatementFits DEF Find, Statement
<1>3. y.do = "return_recent" /\ y.table = t /\ y.skip = Len(p) /\ y \in Stmt
    <2>1. y = [do |-> "return_recent", table |-> t, skip |-> Len(p), datum |-> "none"]
        BY DEF ReturnRecent, Statement
    <2>2. "return_recent" \in Kinds /\ t \in Tables \cup {"none"} /\ Len(p) \in Nat /\ "none" \in Data
        BY <1>1, TablesAre DEF Kinds, Data, Four
    <2>3. Proper(y)
        BY <2>1, TablesAre DEF Proper, Ends, Reads, Notes, Erases, Four
    <2>4. y \in [do : Kinds, table : Tables \cup {"none"}, skip : Nat, datum : Data]
        BY <2>1, <2>2
    <2>5. y \in Stmt
        BY <2>3, <2>4 DEF Stmt
    <2> QED
        BY <2>1, <2>5
<1>4. RecentOr(p) = <<x>> \o (<<y>> \o p)
    BY <1>1, <1>2, <1>3, PairPrecedes DEF RecentOr
<1> HIDE DEF x, y
<1>5. Safe(m, t, <<y>> \o p, 0) /\ <<y>> \o p \in Seq(Stmt)
    <2>1. Knows(t, y) /\ y.do \in Branches
        BY <1>3 DEF Knows, Branches
    <2>2. <<y>> \in Seq(Stmt)
        BY <1>3
    <2>3. <<y>> \o p \in Seq(Stmt)
        BY <1>1, <2>2, ConcatProperties
    <2> QED
        BY <1>1, <1>3, <2>1, <2>3, SafeGuarded
<1>6. <<x>> \in Seq(Stmt) /\ Free(t, <<x>>) /\ Tidy(m, <<x>>)
    <2>1. <<x>> \in Seq(Stmt) /\ Len(<<x>>) = 1 /\ <<x>>[1] = x
        BY <1>2
    <2>2. TidyAt(m, <<x>>, 1)
        BY <1>2, <2>1 DEF TidyAt, Branches, Adds
    <2> QED
        BY <1>2, <2>1, <2>2 DEF Free, Uses, Adds, Tidy
<1>7. Safe(m, t, <<x>> \o (<<y>> \o p), 0)
    BY <1>5, <1>6, SafeAfter
<1> QED
    BY <1>4, <1>7

-----------------------------------------------------------------------------
\* The statements of a plain method.
LEMMA PlainIs ==
    ASSUME NEW m \in BOOLEAN, NEW x \in Stmt, x.do \notin Branches \cup Bound \cup Adds
    PROVE  Plain(m, x)
BY DEF Plain

\* What the methods of the SQL drivers send of facts, triples and attributes.
LEMMA LearningKinds ==
    /\ \A t \in Counts : Upsert(t) \in Learnings /\ CountFound(t) \in Learnings /\ CountOrAdd(t) \in Learnings
    /\ \A t \in Learned : Find(t) \in Learnings /\ AddAbsent(t) \in Learnings /\ AddIgnoring(t) \in Learnings
    /\ Look("entity_fact") \in Learnings
    /\ Commit \in Learnings
    /\ Learnings \subseteq Stmt
<1>1. ASSUME NEW t \in Learned, NEW kind \in {"find", "add_absent", "add_ignoring", "look"},
             kind = "look" => t = "entity_fact"
      PROVE  Statement(kind, t) \in Learnings
    <2>1. Proper(Statement(kind, t)) /\ kind \in Kinds /\ t \in Tables
        BY TablesAre DEF Proper, Statement, Ends, Reads, Notes, Erases, Kinds, Learned, Erasable, Graph
    <2> QED
        BY <1>1, <2>1, StatementFits DEF Learnings, Statement
<1>2. ASSUME NEW t \in Counts, NEW kind \in {"upsert", "count_found", "count_or_add"}
      PROVE  Statement(kind, t) \in Learnings
    <2>1. Proper(Statement(kind, t)) /\ kind \in Kinds /\ t \in Tables /\ t \in Learned
        BY TablesAre DEF Proper, Statement, Ends, Reads, Notes, Erases, Kinds, Learned, Erasable, Graph, Counts
    <2> QED
        BY <2>1, StatementFits DEF Learnings, Statement
<1>3. Commit \in Learnings
    <2>1. Proper(Statement("commit", "none")) /\ "commit" \in Kinds
        BY DEF Proper, Statement, Ends, Reads, Notes, Erases, Kinds
    <2> QED
        BY <2>1, StatementFits DEF Learnings, Commit, Statement
<1> QED
    BY <1>1, <1>2, <1>3 DEF Learnings, Learned, Erasable, Upsert, CountFound, CountOrAdd, Find, AddAbsent, AddIgnoring, Look

\* MERGE ... WHEN MATCHED; find_one, $inc and insert_one.
LEMMA PairsAre ==
    ASSUME NEW m \in BOOLEAN
    PROVE  /\ \A t \in Learned : Unit(m, Learnings, Merge(t))
           /\ \A t \in Counts : Unit(m, Learnings, MergeCounting(t)) /\ Unit(m, Learnings, FindThenCount(t))
<1>1. ASSUME NEW t \in Learned PROVE Unit(m, Learnings, Merge(t))
    <2>1. Merge(t) \in Seq(Learnings)
        BY LearningKinds DEF Merge
    <2>2. \A i \in 1 .. 2 : TidyAt(m, Merge(t), i)
        BY DEF Merge, Find, AddAbsent, Statement, TidyAt, Branches, Follows, Adds, Learned, Erasable, Graph, Four
    <2> QED
        BY <2>1, <2>2 DEF Unit, Tidy, Merge, Bound, Find, Statement, Follows
<1>2. ASSUME NEW t \in Counts PROVE Unit(m, Learnings, MergeCounting(t)) /\ Unit(m, Learnings, FindThenCount(t))
    <2>0. t \in Learned
        BY DEF Counts, Learned, Erasable, Graph
    <2>1. MergeCounting(t) \in Seq(Learnings)
        BY <2>0, LearningKinds DEF MergeCounting
    <2>2. \A i \in 1 .. 2 : TidyAt(m, MergeCounting(t), i)
        BY DEF MergeCounting, Find, CountOrAdd, Statement, TidyAt, Branches, Follows, Adds, Counts, Four
    <2>3. FindThenCount(t) \in Seq(Learnings)
        BY <2>0, LearningKinds DEF FindThenCount
    <2>4. \A i \in 1 .. 3 : TidyAt(m, FindThenCount(t), i)
        BY DEF FindThenCount, Find, CountFound, AddAbsent, Statement, TidyAt, Branches, Follows, Adds, Counts, Four
    <2>5. Unit(m, Learnings, MergeCounting(t))
        BY <2>1, <2>2 DEF Unit, Tidy, MergeCounting, Bound, Find, Statement, Follows
    <2>6. Unit(m, Learnings, FindThenCount(t))
        BY <2>3, <2>4 DEF Unit, Tidy, FindThenCount, Bound, Find, Statement, Follows
    <2> QED
        BY <2>5, <2>6
<1> QED
    BY <1>1, <1>2

\* Methods whose statements stand by themselves.
LEMMA SimpleLearning ==
    ASSUME NEW m \in BOOLEAN
    PROVE  /\ Unit(m, Learnings, <<Upsert("entity_fact"), Look("entity_fact"), AddIgnoring("entity_fact_mention")>>)
           /\ Unit(m, Learnings, <<Upsert("knowledge_graph"), Commit>>)
           /\ Unit(m, Learnings, <<Upsert("knowledge_graph")>>)
           /\ Unit(m, Learnings, <<Upsert("process_attribute")>>)
           /\ Unit(m, Learnings, <<Look("entity_fact")>>)
           /\ Unit(m, Learnings, <<AddIgnoring("entity_fact_mention")>>)
           /\ Unit(m, Learnings, <<Commit>>)
<1>1. /\ Upsert("entity_fact") \in Learnings /\ Upsert("knowledge_graph") \in Learnings
      /\ Upsert("process_attribute") \in Learnings /\ Look("entity_fact") \in Learnings
      /\ AddIgnoring("entity_fact_mention") \in Learnings /\ Commit \in Learnings
    BY LearningKinds DEF Counts, Learned, Erasable
<1>2. /\ \A t \in Counts : Plain(m, Upsert(t))
      /\ Plain(m, Look("entity_fact")) /\ Plain(m, AddIgnoring("entity_fact_mention"))
      /\ Plain(m, Commit)
    BY DEF Plain, Upsert, Look, AddIgnoring, Commit, Statement, Branches, Bound, Follows, Adds, Four, Counts
<1>3. Plain(m, Upsert("entity_fact")) /\ Plain(m, Upsert("knowledge_graph")) /\ Plain(m, Upsert("process_attribute"))
    BY <1>2 DEF Counts
<1> HIDE DEF Learnings
<1>4. ASSUME NEW x \in Learnings, Plain(m, x) PROVE Unit(m, Learnings, <<x>>)
    <2>1. <<x>> \in Seq(Learnings) /\ Len(<<x>>) = 1
        OBVIOUS
    <2>2. \A i \in 1 .. Len(<<x>>) : Plain(m, <<x>>[i])
        BY <2>1, <1>4
    <2> QED
        BY <2>1, <2>2, UnitPlain
<1>5. ASSUME NEW x \in Learnings, Plain(m, x), NEW y \in Learnings, Plain(m, y) PROVE Unit(m, Learnings, <<x, y>>)
    <2>1. <<x, y>> \in Seq(Learnings) /\ Len(<<x, y>>) = 2
        OBVIOUS
    <2>2. \A i \in 1 .. Len(<<x, y>>) : Plain(m, <<x, y>>[i])
        BY <2>1, <1>5
    <2> QED
        BY <2>1, <2>2, UnitPlain
<1>6. ASSUME NEW x \in Learnings, Plain(m, x), NEW y \in Learnings, Plain(m, y), NEW z \in Learnings, Plain(m, z)
      PROVE  Unit(m, Learnings, <<x, y, z>>)
    <2>1. <<x, y, z>> \in Seq(Learnings) /\ Len(<<x, y, z>>) = 3
        OBVIOUS
    <2>2. \A i \in 1 .. Len(<<x, y, z>>) : Plain(m, <<x, y, z>>[i])
        BY <2>1, <1>6
    <2> QED
        BY <2>1, <2>2, UnitPlain
<1> QED
    BY <1>1, <1>2, <1>3, <1>4, <1>5, <1>6

LEMMA SimpleOthers ==
    ASSUME NEW m \in BOOLEAN
    PROVE  /\ Unit(m, Updatings, <<Update("conversation"), Commit>>)
           /\ Unit(m, Updatings, <<Update("conversation")>>)
           /\ Unit(m, Readings, <<ReadOrdered("conversation_message")>>)
           /\ Unit(m, Readings, <<ReadUnordered("conversation_message")>>)
           /\ Unit(m, Recallings, <<ReadIds("entity_fact"), ReadRows("entity_fact")>>)
<1>1. Update("conversation") \in Updatings /\ Commit \in Updatings
    <2>1. /\ Proper(Statement("update", "conversation")) /\ Proper(Statement("commit", "none"))
          /\ "update" \in Kinds /\ "commit" \in Kinds /\ "conversation" \in Tables
        BY TablesAre DEF Proper, Statement, Ends, Reads, Notes, Erases, Kinds, Four
    <2> QED
        BY <2>1, StatementFits DEF Updatings, Update, Commit, Statement
<1>2. ReadOrdered("conversation_message") \in Readings /\ ReadUnordered("conversation_message") \in Readings
    <2>1. /\ Proper(Statement("read_ordered", "conversation_message"))
          /\ Proper(Statement("read_unordered", "conversation_message"))
          /\ "read_ordered" \in Kinds /\ "read_unordered" \in Kinds /\ "conversation_message" \in Tables
        BY TablesAre DEF Proper, Statement, Ends, Reads, Notes, Erases, Kinds, Four
    <2> QED
        BY <2>1, StatementFits DEF Readings, Reads, ReadOrdered, ReadUnordered, Statement
<1>3. ReadIds("entity_fact") \in Recallings /\ ReadRows("entity_fact") \in Recallings
    <2>1. /\ Proper(Statement("read_ids", "entity_fact"))
          /\ Proper(Statement("read_rows", "entity_fact"))
          /\ "read_ids" \in Kinds /\ "read_rows" \in Kinds /\ "entity_fact" \in Tables
        BY TablesAre DEF Proper, Statement, Ends, Reads, Notes, Erases, Kinds, Learned, Erasable
    <2> QED
        BY <2>1, StatementFits DEF Recallings, ReadIds, ReadRows, Statement
<1>4. /\ Plain(m, Update("conversation")) /\ Plain(m, Commit)
      /\ Plain(m, ReadOrdered("conversation_message")) /\ Plain(m, ReadUnordered("conversation_message"))
      /\ Plain(m, ReadIds("entity_fact")) /\ Plain(m, ReadRows("entity_fact"))
    BY DEF Plain, Update, ReadOrdered, ReadUnordered, ReadIds, ReadRows, Commit, Statement, Branches, Bound, Follows, Adds
<1>5. ASSUME NEW S, NEW x \in S, Plain(m, x) PROVE Unit(m, S, <<x>>)
    <2>1. <<x>> \in Seq(S) /\ Len(<<x>>) = 1
        OBVIOUS
    <2>2. \A i \in 1 .. Len(<<x>>) : Plain(m, <<x>>[i])
        BY <2>1, <1>5
    <2> QED
        BY <2>1, <2>2, UnitPlain
<1>6. ASSUME NEW S, NEW x \in S, Plain(m, x), NEW y \in S, Plain(m, y) PROVE Unit(m, S, <<x, y>>)
    <2>1. <<x, y>> \in Seq(S) /\ Len(<<x, y>>) = 2
        OBVIOUS
    <2>2. \A i \in 1 .. Len(<<x, y>>) : Plain(m, <<x, y>>[i])
        BY <2>1, <1>6
    <2> QED
        BY <2>1, <2>2, UnitPlain
<1> QED
    BY <1>1, <1>2, <1>3, <1>4, <1>5, <1>6

\* What forgets an entity.
LEMMA SimpleForgetting ==
    ASSUME NEW m \in BOOLEAN
    PROVE  /\ Unit(m, Forgettings, SqliteGraphDelete) /\ Unit(m, Forgettings, SqliteFactDelete)
           /\ Unit(m, Forgettings, PostgresqlGraphDelete) /\ Unit(m, Forgettings, PostgresqlFactDelete)
           /\ Unit(m, Forgettings, MysqlGraphDelete) /\ Unit(m, Forgettings, MysqlFactDelete)
           /\ Unit(m, Forgettings, OracleGraphDelete) /\ Unit(m, Forgettings, OracleFactDelete)
           /\ Unit(m, Forgettings, MongodbGraphDelete) /\ Unit(m, Forgettings, MongodbFactDelete)
<1>1. ASSUME NEW t \in Erasable, NEW kind \in Erases \cup Notes PROVE Statement(kind, t) \in Forgettings /\ Plain(m, Statement(kind, t))
    <2>1. Proper(Statement(kind, t)) /\ kind \in Kinds /\ t \in Tables
        BY TablesAre DEF Proper, Statement, Ends, Reads, Notes, Erases, Kinds, Learned, Erasable, Graph
    <2>2. Statement(kind, t) \in Forgettings
        BY <2>1, StatementFits DEF Forgettings, Statement
    <2>3. Plain(m, Statement(kind, t))
        BY DEF Plain, Statement, Branches, Bound, Follows, Adds, Notes, Erases
    <2> QED
        BY <2>2, <2>3
<1>2. Commit \in Forgettings /\ Plain(m, Commit)
    <2>1. Proper(Statement("commit", "none")) /\ "commit" \in Kinds
        BY DEF Proper, Statement, Ends, Reads, Notes, Erases, Kinds
    <2> QED
        BY <2>1, StatementFits DEF Forgettings, Commit, Statement, Plain, Branches, Bound, Follows, Adds
<1> DEFINE P == {x \in Forgettings : Plain(m, x)}
<1>3. /\ \A t \in Erasable : Erase(t) \in P /\ EraseOrphans(t) \in P /\ EraseNoted(t) \in P /\ EraseUnused(t) \in P
                              /\ NoteOrphans(t) \in P /\ NoteUsed(t) \in P
      /\ Commit \in P
    BY <1>1, <1>2 DEF Erase, EraseOrphans, EraseNoted, EraseUnused, NoteOrphans, NoteUsed, Erases, Notes
<1>4. /\ \A t \in {"subject", "predicate", "object", "knowledge_graph", "entity_fact", "entity_fact_mention"} : t \in Erasable
    BY DEF Erasable, Graph
<1>5. /\ Erase("knowledge_graph") \in P /\ Erase("entity_fact") \in P /\ Erase("entity_fact_mention") \in P
      /\ EraseOrphans("subject") \in P /\ EraseOrphans("predicate") \in P /\ EraseOrphans("object") \in P
      /\ EraseNoted("subject") \in P /\ EraseNoted("predicate") \in P /\ EraseNoted("object") \in P
      /\ EraseUnused("subject") \in P /\ EraseUnused("predicate") \in P /\ EraseUnused("object") \in P
      /\ NoteOrphans("subject") \in P /\ NoteOrphans("predicate") \in P /\ NoteOrphans("object") \in P
      /\ NoteUsed("subject") \in P /\ NoteUsed("predicate") \in P /\ NoteUsed("object") \in P
    BY <1>3, <1>4
<1>6. ASSUME NEW s \in Seq(P) PROVE Unit(m, Forgettings, s)
    <2>1. s \in Seq(Forgettings) /\ \A i \in 1 .. Len(s) : Plain(m, s[i])
        OBVIOUS
    <2> QED
        BY <2>1, UnitPlain
<1> HIDE DEF P
<1>7. /\ SqliteGraphDelete \in Seq(P) /\ SqliteFactDelete \in Seq(P)
      /\ MysqlGraphDelete \in Seq(P) /\ MysqlFactDelete \in Seq(P)
    BY <1>3, <1>5 DEF SqliteGraphDelete, SqliteFactDelete, MysqlGraphDelete, MysqlFactDelete
<1>8. PostgresqlGraphDelete \in Seq(P) /\ PostgresqlFactDelete \in Seq(P)
    BY <1>3, <1>5 DEF PostgresqlGraphDelete, PostgresqlFactDelete
<1>9. OracleGraphDelete \in Seq(P) /\ OracleFactDelete \in Seq(P)
    BY <1>3, <1>5 DEF OracleGraphDelete, OracleFactDelete
<1>10. MongodbGraphDelete \in Seq(P) /\ MongodbFactDelete \in Seq(P)
    BY <1>3, <1>5 DEF MongodbGraphDelete, MongodbFactDelete
<1> QED
    BY <1>6, <1>7, <1>8, <1>9, <1>10

\* What creates a triple.
LEMMA TriplesAre ==
    ASSUME NEW m \in BOOLEAN, NEW p, NEW q, NEW r, NEW s,
           Unit(m, Makings("subject"), p), Unit(m, Makings("predicate"), q),
           Unit(m, Makings("object"), r), Unit(m, Learnings, s)
    PROVE  Unit(m, Learnings, Triple(p, q, r, s))
<1>1. \A t \in Graph : Makings(t) \subseteq Learnings
    BY MakingsAre
<1>2. Unit(m, Learnings, p) /\ Unit(m, Learnings, q) /\ Unit(m, Learnings, r)
    BY <1>1, UnitWidens DEF Graph
<1>3. Learnings \subseteq Stmt
    BY DEF Learnings
<1>4. Unit(m, Learnings, p \o q)
    BY <1>2, <1>3, UnitJoins
<1>5. Unit(m, Learnings, p \o q \o r)
    BY <1>2, <1>3, <1>4, UnitJoins
<1>6. Unit(m, Learnings, p \o q \o r \o s)
    BY <1>3, <1>5, UnitJoins
<1> QED
    BY <1>6 DEF Triple

\* The parts that the SQL drivers share.
SharesSql(D) ==
    /\ D.conversation.read = <<Look("conversation")>> /\ D.session.read = <<Look("session")>>
    /\ D.message = <<Add("conversation_message")>>
    /\ D.messages \in {<<ReadOrdered("conversation_message")>>, <<ReadUnordered("conversation_message")>>}
    /\ D.conversation.update \in {<<Update("conversation"), Commit>>, <<Update("conversation")>>}
    /\ D.fact_read = <<ReadIds("entity_fact"), ReadRows("entity_fact")>>

LEMMA SharedIsGood ==
    ASSUME NEW m \in BOOLEAN, NEW D, SharesSql(D)
    PROVE  /\ D.session.read = <<Look("session")>> /\ D.conversation.read = <<Look("conversation")>>
           /\ D.message = <<Add("conversation_message")>>
           /\ Unit(m, Readings, D.messages)
           /\ Unit(m, Updatings, D.conversation.update)
           /\ Unit(m, Recallings, D.fact_read)
BY SimpleOthers DEF SharesSql

\* INSERT ... ON CONFLICT DO NOTHING, and SELECT.
LEMMA IgnoringIsGood ==
    ASSUME NEW m \in BOOLEAN
    PROVE  /\ Unit(m, Makings("entity"), IgnoreAndTake("entity"))
           /\ Unit(m, Makings("process"), IgnoreAndTake("process"))
           /\ Unit(m, Makings("session"), IgnoreAndTake("session"))
           /\ Unit(m, Makings("conversation"), RecentOr(IgnoreAndTake("conversation")))
           /\ Safe(m, "session", IgnoreAndTake("session"), 0)
           /\ Safe(m, "conversation", RecentOr(IgnoreAndTake("conversation")), 0)
           /\ \A s : Unit(m, Learnings, s) =>
                 Unit(m, Learnings, Triple(IgnoreAndTake("subject"), IgnoreAndTake("predicate"),
                                           IgnoreAndTake("object"), s))
<1>1. \A t \in Four \cup Graph : Unit(m, Makings(t), IgnoreAndTake(t))
    BY IgnoreAndTakeIs
<1>2. /\ Unit(m, Makings("entity"), IgnoreAndTake("entity"))
      /\ Unit(m, Makings("process"), IgnoreAndTake("process"))
      /\ Unit(m, Makings("session"), IgnoreAndTake("session"))
      /\ Unit(m, Makings("conversation"), IgnoreAndTake("conversation"))
    BY <1>1 DEF Four
<1>3. /\ Unit(m, Makings("subject"), IgnoreAndTake("subject"))
      /\ Unit(m, Makings("predicate"), IgnoreAndTake("predicate"))
      /\ Unit(m, Makings("object"), IgnoreAndTake("object"))
    BY <1>1 DEF Graph
<1>4. Unit(m, Makings("conversation"), RecentOr(IgnoreAndTake("conversation")))
    BY <1>2, RecentOrIs
<1>5. Safe(m, "session", IgnoreAndTake("session"), 0) /\ Safe(m, "conversation", IgnoreAndTake("conversation"), 0)
    BY MakersGive
<1>6. Safe(m, "conversation", RecentOr(IgnoreAndTake("conversation")), 0)
    BY <1>2, <1>5, RecentOrGives
<1>7. ASSUME NEW s, Unit(m, Learnings, s)
      PROVE  Unit(m, Learnings, Triple(IgnoreAndTake("subject"), IgnoreAndTake("predicate"),
                                       IgnoreAndTake("object"), s))
    BY <1>3, <1>7, TriplesAre
<1> QED
    BY <1>2, <1>4, <1>5, <1>6, <1>7

\* MERGE, and SELECT.
LEMMA MergingIsGood ==
    ASSUME NEW m \in BOOLEAN
    PROVE  /\ Unit(m, Makings("entity"), MergeAndTake("entity"))
           /\ Unit(m, Makings("process"), MergeAndTake("process"))
           /\ Unit(m, Makings("session"), MergeAndTake("session"))
           /\ Unit(m, Makings("conversation"), RecentOr(MergeAndTake("conversation")))
           /\ Safe(m, "session", MergeAndTake("session"), 0)
           /\ Safe(m, "conversation", RecentOr(MergeAndTake("conversation")), 0)
           /\ \A s : Unit(m, Learnings, s) =>
                 Unit(m, Learnings, Triple(MergeAndTake("subject"), MergeAndTake("predicate"),
                                           MergeAndTake("object"), s))
<1>1. \A t \in Four \cup Graph : Unit(m, Makings(t), MergeAndTake(t))
    BY MergeAndTakeIs
<1>2. /\ Unit(m, Makings("entity"), MergeAndTake("entity"))
      /\ Unit(m, Makings("process"), MergeAndTake("process"))
      /\ Unit(m, Makings("session"), MergeAndTake("session"))
      /\ Unit(m, Makings("conversation"), MergeAndTake("conversation"))
    BY <1>1 DEF Four
<1>3. /\ Unit(m, Makings("subject"), MergeAndTake("subject"))
      /\ Unit(m, Makings("predicate"), MergeAndTake("predicate"))
      /\ Unit(m, Makings("object"), MergeAndTake("object"))
    BY <1>1 DEF Graph
<1>4. Unit(m, Makings("conversation"), RecentOr(MergeAndTake("conversation")))
    BY <1>2, RecentOrIs
<1>5. Safe(m, "session", MergeAndTake("session"), 0) /\ Safe(m, "conversation", MergeAndTake("conversation"), 0)
    BY MakersGive
<1>6. Safe(m, "conversation", RecentOr(MergeAndTake("conversation")), 0)
    BY <1>2, <1>5, RecentOrGives
<1>7. ASSUME NEW s, Unit(m, Learnings, s)
      PROVE  Unit(m, Learnings, Triple(MergeAndTake("subject"), MergeAndTake("predicate"),
                                       MergeAndTake("object"), s))
    BY <1>3, <1>7, TriplesAre
<1> QED
    BY <1>2, <1>4, <1>5, <1>6, <1>7

LEMMA SqliteIsGood == Good(FALSE, SqliteDriver)
<1> DEFINE D == SqliteDriver
<1>1. SharesSql(D)
    BY DEF SharesSql, SqliteDriver, SqliteConversation, SqliteSession, SqliteMessage, SqliteMessages, SqliteFactRead
<1>2. /\ D.entity = IgnoreAndTake("entity") /\ D.process = IgnoreAndTake("process")
      /\ D.session.create = IgnoreAndTake("session")
      /\ D.conversation.create = RecentOr(IgnoreAndTake("conversation"))
    BY DEF SqliteDriver, SqliteConversation, SqliteSession, SqliteEntity, SqliteProcess
<1>3. /\ Unit(FALSE, Learnings, D.fact_create.each) /\ Unit(FALSE, Learnings, D.fact_create.end)
      /\ Unit(FALSE, Learnings, D.attribute.each) /\ Unit(FALSE, Learnings, D.attribute.end)
    BY SimpleLearning DEF SqliteDriver, SqliteFactCreate, SqliteAttribute
<1>4. Unit(FALSE, Learnings, D.graph_create.each) /\ Unit(FALSE, Learnings, D.graph_create.end)
    BY SimpleLearning, IgnoringIsGood, UnitEmpty DEF SqliteDriver, SqliteGraphCreate
<1>5. Unit(FALSE, Forgettings, D.graph_delete) /\ Unit(FALSE, Forgettings, D.fact_delete)
    BY SimpleForgetting DEF SqliteDriver
<1> HIDE DEF D
<1> QED
    BY <1>1, <1>2, <1>3, <1>4, <1>5, SharedIsGood, IgnoringIsGood DEF Good, D

LEMMA PostgresqlIsGood == Good(FALSE, PostgresqlDriver)
<1> DEFINE D == PostgresqlDriver
<1>1. SharesSql(D)
    BY DEF SharesSql, PostgresqlDriver, PostgresqlConversation, PostgresqlSession, PostgresqlMessage,
           PostgresqlMessages, PostgresqlFactRead
<1>2. /\ D.entity = IgnoreAndTake("entity") /\ D.process = IgnoreAndTake("process")
      /\ D.session.create = IgnoreAndTake("session")
      /\ D.conversation.create = RecentOr(IgnoreAndTake("conversation"))
    BY DEF PostgresqlDriver, PostgresqlConversation, PostgresqlSession, PostgresqlEntity, PostgresqlProcess
<1>3. /\ Unit(FALSE, Learnings, D.fact_create.each) /\ Unit(FALSE, Learnings, D.fact_create.end)
      /\ Unit(FALSE, Learnings, D.attribute.each) /\ Unit(FALSE, Learnings, D.attribute.end)
    BY SimpleLearning, UnitEmpty DEF PostgresqlDriver, PostgresqlFactCreate, PostgresqlAttribute
<1>4. Unit(FALSE, Learnings, D.graph_create.each) /\ Unit(FALSE, Learnings, D.graph_create.end)
    BY SimpleLearning, IgnoringIsGood, UnitEmpty DEF PostgresqlDriver, PostgresqlGraphCreate
<1>5. Unit(FALSE, Forgettings, D.graph_delete) /\ Unit(FALSE, Forgettings, D.fact_delete)
    BY SimpleForgetting DEF PostgresqlDriver
<1> HIDE DEF D
<1> QED
    BY <1>1, <1>2, <1>3, <1>4, <1>5, SharedIsGood, IgnoringIsGood DEF Good, D

LEMMA MysqlIsGood == Good(FALSE, MysqlDriver)
<1> DEFINE D == MysqlDriver
<1>1. SharesSql(D)
    BY DEF SharesSql, MysqlDriver, MysqlConversation, MysqlSession, MysqlMessage, MysqlMessages, MysqlFactRead
<1>2. /\ D.entity = IgnoreAndTake("entity") /\ D.process = IgnoreAndTake("process")
      /\ D.session.create = IgnoreAndTake("session")
      /\ D.conversation.create = RecentOr(IgnoreAndTake("conversation"))
    BY DEF MysqlDriver, MysqlConversation, MysqlSession, MysqlEntity, MysqlProcess
<1>3. /\ Unit(FALSE, Learnings, D.fact_create.each) /\ Unit(FALSE, Learnings, D.fact_create.end)
      /\ Unit(FALSE, Learnings, D.attribute.each) /\ Unit(FALSE, Learnings, D.attribute.end)
    BY SimpleLearning DEF MysqlDriver, MysqlFactCreate, MysqlAttribute
<1>4. Unit(FALSE, Learnings, D.graph_create.each) /\ Unit(FALSE, Learnings, D.graph_create.end)
    BY SimpleLearning, IgnoringIsGood, UnitEmpty DEF MysqlDriver, MysqlGraphCreate
<1>5. Unit(FALSE, Forgettings, D.graph_delete) /\ Unit(FALSE, Forgettings, D.fact_delete)
    BY SimpleForgetting DEF MysqlDriver
<1> HIDE DEF D
<1> QED
    BY <1>1, <1>2, <1>3, <1>4, <1>5, SharedIsGood, IgnoringIsGood DEF Good, D

LEMMA OceanbaseIsGood == Good(FALSE, OceanbaseDriver)
<1> DEFINE D == OceanbaseDriver
<1>1. /\ D.entity = MysqlDriver.entity /\ D.process = MysqlDriver.process /\ D.session = MysqlDriver.session
      /\ D.conversation = MysqlDriver.conversation /\ D.message = MysqlDriver.message
      /\ D.messages = MysqlDriver.messages /\ D.graph_create = MysqlDriver.graph_create
      /\ D.attribute = MysqlDriver.attribute /\ D.graph_delete = MysqlDriver.graph_delete
      /\ D.fact_delete = MysqlDriver.fact_delete /\ D.fact_read = MysqlDriver.fact_read
      /\ D.fact_create = OceanbaseFactCreate
    BY DEF OceanbaseDriver, MysqlDriver
<1>2. Unit(FALSE, Learnings, D.fact_create.each) /\ Unit(FALSE, Learnings, D.fact_create.end)
    <2>1. /\ OceanbaseFactCreate.each = <<Upsert("entity_fact"), Look("entity_fact"), AddIgnoring("entity_fact_mention")>>
          /\ OceanbaseFactCreate.end = <<Commit>>
        BY DEF OceanbaseFactCreate
    <2> HIDE DEF D
    <2> QED
        BY <1>1, <2>1, SimpleLearning
<1> HIDE DEF D
<1> QED
    BY <1>1, <1>2, MysqlIsGood DEF Good, D

LEMMA OracleIsGood == Good(FALSE, OracleDriver)
<1> DEFINE D == OracleDriver
<1>1. SharesSql(D)
    BY DEF SharesSql, OracleDriver, OracleConversation, OracleSession, OracleMessage, OracleMessages, OracleFactRead
<1>2. /\ D.entity = MergeAndTake("entity") /\ D.process = MergeAndTake("process")
      /\ D.session.create = MergeAndTake("session")
      /\ D.conversation.create = RecentOr(MergeAndTake("conversation"))
    BY DEF OracleDriver, OracleConversation, OracleSession, OracleEntity, OracleProcess
<1>3. Unit(FALSE, Learnings, MergeCounting("entity_fact") \o <<Look("entity_fact")>> \o Merge("entity_fact_mention"))
    <2>1. /\ Unit(FALSE, Learnings, MergeCounting("entity_fact"))
          /\ Unit(FALSE, Learnings, <<Look("entity_fact")>>)
          /\ Unit(FALSE, Learnings, Merge("entity_fact_mention"))
        BY PairsAre, SimpleLearning DEF Counts, Learned, Erasable
    <2>2. Unit(FALSE, Learnings, MergeCounting("entity_fact") \o <<Look("entity_fact")>>)
        BY <2>1, LearningKinds, UnitJoins
    <2> QED
        BY <2>1, <2>2, LearningKinds, UnitJoins
<1>4. /\ Unit(FALSE, Learnings, D.fact_create.each) /\ Unit(FALSE, Learnings, D.fact_create.end)
      /\ Unit(FALSE, Learnings, D.attribute.each) /\ Unit(FALSE, Learnings, D.attribute.end)
    BY <1>3, PairsAre, SimpleLearning DEF OracleDriver, OracleFactCreate, OracleAttribute, Counts
<1>5. Unit(FALSE, Learnings, MergeCounting("knowledge_graph") \o <<Commit>>)
    BY PairsAre, SimpleLearning, LearningKinds, UnitJoins DEF Counts
<1>6. Unit(FALSE, Learnings, D.graph_create.each) /\ Unit(FALSE, Learnings, D.graph_create.end)
    BY <1>5, MergingIsGood, UnitEmpty DEF OracleDriver, OracleGraphCreate
<1>7. Unit(FALSE, Forgettings, D.graph_delete) /\ Unit(FALSE, Forgettings, D.fact_delete)
    BY SimpleForgetting DEF OracleDriver
<1> HIDE DEF D
<1> QED
    BY <1>1, <1>2, <1>4, <1>6, <1>7, SharedIsGood, MergingIsGood DEF Good, D

LEMMA MongodbIsGood ==
    ASSUME NEW m \in BOOLEAN, m = TRUE
    PROVE  Good(m, MongodbDriver)
<1> DEFINE D == MongodbDriver
<1>1. SharesSql(D)
    BY DEF SharesSql, MongodbDriver, MongodbConversation, MongodbSession, MongodbMessage, MongodbMessages, MongodbFactRead
<1>2. /\ D.entity = FindOrInsert("entity") /\ D.process = FindOrInsert("process")
      /\ D.session.create = FindOrInsert("session")
      /\ D.conversation.create = RecentOr(<<Add("conversation")>>)
    BY DEF MongodbDriver, MongodbConversation, MongodbSession, MongodbEntity, MongodbProcess
<1>3. \A t \in Four \cup Graph : Unit(m, Makings(t), FindOrInsert(t))
    BY FindOrInsertIs
<1>4. Unit(m, Makings("conversation"), <<Add("conversation")>>)
    <2>1. Add("conversation") \in Makings("conversation")
        <3>1. "add" \in Making => Statement("add", "conversation") \in Makings("conversation")
            BY MakingsAre DEF Four
        <3>2. Proper(Statement("add", "conversation")) /\ "add" \in Kinds /\ "conversation" \in Tables
            BY TablesAre DEF Proper, Statement, Ends, Reads, Notes, Erases, Kinds, Four
        <3> QED
            BY <3>2, StatementFits DEF Add, Statement, Makings
    <2>2. <<Add("conversation")>> \in Seq(Makings("conversation")) /\ Len(<<Add("conversation")>>) = 1
        BY <2>1
    <2>3. TidyAt(m, <<Add("conversation")>>, 1)
        BY DEF TidyAt, Add, Statement, Branches
    <2>4. Tidy(m, <<Add("conversation")>>)
        <3> DEFINE p == <<Add("conversation")>>
        <3>1. Len(p) = 1 /\ TidyAt(m, p, 1)
            BY <2>2, <2>3
        <3> HIDE DEF p
        <3>2. \A i \in 1 .. Len(p) : i = 1
            BY <3>1
        <3>3. Tidy(m, p)
            BY <3>1, <3>2 DEF Tidy
        <3> QED
            BY <3>3 DEF p
    <2>5. <<Add("conversation")>>[1].do \notin Bound
        BY DEF Bound, Follows, Add, Statement
    <2> QED
        BY <2>2, <2>4, <2>5 DEF Unit
<1>5. Unit(m, Makings("conversation"), RecentOr(<<Add("conversation")>>))
    BY <1>4, RecentOrIs
<1>6. Safe(m, "session", FindOrInsert("session"), 0) /\ Safe(m, "conversation", <<Add("conversation")>>, 0)
    BY MakersGive
<1>7. Safe(m, "conversation", RecentOr(<<Add("conversation")>>), 0)
    BY <1>4, <1>6, RecentOrGives
<1>8. \A t \in Counts : Unit(m, Learnings, FindThenCount(t))
    BY PairsAre
<1>9. Unit(m, Learnings, FindThenCount("entity_fact") \o <<AddIgnoring("entity_fact_mention")>>)
    BY <1>8, SimpleLearning, LearningKinds, UnitJoins DEF Counts
<1>10. /\ Unit(m, Learnings, D.fact_create.each) /\ Unit(m, Learnings, D.fact_create.end)
       /\ Unit(m, Learnings, D.attribute.each) /\ Unit(m, Learnings, D.attribute.end)
    BY <1>8, <1>9, UnitEmpty DEF MongodbDriver, MongodbFactCreate, MongodbAttribute, Counts
<1>11. Unit(m, Learnings, D.graph_create.each) /\ Unit(m, Learnings, D.graph_create.end)
    <2>1. /\ Unit(m, Makings("subject"), FindOrInsert("subject"))
          /\ Unit(m, Makings("predicate"), FindOrInsert("predicate"))
          /\ Unit(m, Makings("object"), FindOrInsert("object"))
        BY <1>3 DEF Graph
    <2>2. Unit(m, Learnings, FindThenCount("knowledge_graph"))
        BY <1>8 DEF Counts
    <2>3. Unit(m, Learnings, Triple(FindOrInsert("subject"), FindOrInsert("predicate"),
                                    FindOrInsert("object"), FindThenCount("knowledge_graph")))
        BY <2>1, <2>2, TriplesAre
    <2> QED
        BY <2>3, UnitEmpty DEF MongodbDriver, MongodbGraphCreate
<1>12. Unit(m, Forgettings, D.graph_delete) /\ Unit(m, Forgettings, D.fact_delete)
    BY SimpleForgetting DEF MongodbDriver
<1>13. /\ Unit(m, Makings("entity"), D.entity) /\ Unit(m, Makings("process"), D.process)
       /\ Unit(m, Makings("session"), D.session.create)
    BY <1>2, <1>3 DEF Four
<1> HIDE DEF D
<1> QED
    BY <1>1, <1>2, <1>5, <1>6, <1>7, <1>10, <1>11, <1>12, <1>13, SharedIsGood DEF Good, D

\* The driver of every dialect.
LEMMA DriversAreGood == \A d \in AllDialects : Good(d = "mongodb", Driver[d])
<1>1. /\ Driver["sqlite"] = SqliteDriver /\ Driver["postgresql"] = PostgresqlDriver
      /\ Driver["mysql"] = MysqlDriver /\ Driver["tidb"] = MysqlDriver
      /\ Driver["oceanbase"] = OceanbaseDriver /\ Driver["oracle"] = OracleDriver
      /\ Driver["mongodb"] = MongodbDriver
    BY DEF Driver
<1>2. ASSUME NEW d \in AllDialects, d # "mongodb" PROVE Good(FALSE, Driver[d])
    BY <1>1, <1>2, SqliteIsGood, PostgresqlIsGood, MysqlIsGood, OceanbaseIsGood, OracleIsGood DEF AllDialects
<1>3. ASSUME NEW m \in BOOLEAN, m = TRUE PROVE Good(m, Driver["mongodb"])
    BY <1>1, <1>3, MongodbIsGood
<1>4. ASSUME NEW d \in AllDialects PROVE Good(d = "mongodb", Driver[d])
    <2>1. CASE d = "mongodb"
        BY <2>1, <1>3
    <2>2. CASE d # "mongodb"
        <3> DEFINE m == d = "mongodb"
        <3>1. m = FALSE
            BY <2>2
        <3> QED
            BY <3>1, <1>2, <2>2
    <2> QED
        BY <2>1, <2>2
<1> QED
    BY <1>4

-----------------------------------------------------------------------------
(* Programs.                                                               *)
MessageAdd(x) == x.do \in Adds /\ x.table = "conversation_message"

\* The statements a job may send.
OfJob(j) ==
    {x \in Stmt :
        /\ MessageAdd(x) => j = "turn"
        /\ x.do \in Erases => j = "forget"
        /\ x.do = "update" => j \in Learns
        /\ x.table \in {"session", "conversation"} => j \in {"turn", "inject"} \/ x.do \in {"when", "update"} \cup Ends
        /\ x.do = "look" => x.table = "entity_fact" \/ j = "inject"
        /\ x.do = "new_session" <=> j = "new_session"
        /\ x.do = "set_session" <=> j = "restore"}

\* A turn ends with its question, its answer and the commit.
TurnShape(s) ==
    LET n == Len(s)
    IN  /\ n >= 1 /\ s[n].do = "commit"
        /\ n >= 2 => MessageAdd(s[n - 1]) /\ s[n - 1].datum = "answer"
        /\ n >= 3 => MessageAdd(s[n - 2]) /\ s[n - 2].datum = "question"
        /\ \A i \in 1 .. n - 3 :
              ~MessageAdd(s[i]) /\ (s[i].do \in Branches => i + s[i].skip <= n - 3)

\* The methods of the drivers keep to the jobs they serve.
LEMMA MethodsServe ==
    /\ \A t \in {"entity", "process"} :
          \A j \in {"turn", "inject", "forget", "recall"} \cup Learns : Makings(t) \subseteq OfJob(j)
    /\ \A t \in {"session", "conversation"} : \A j \in {"turn", "inject"} : Makings(t) \subseteq OfJob(j)
    /\ \A j \in Learns : Learnings \subseteq OfJob(j) /\ Updatings \subseteq OfJob(j)
    /\ Readings \subseteq OfJob("inject")
    /\ Recallings \subseteq OfJob("recall")
    /\ Forgettings \subseteq OfJob("forget")
<1>1. ASSUME NEW t \in {"entity", "process"}, NEW j \in {"turn", "inject", "forget", "recall"} \cup Learns,
             NEW x \in Makings(t)
      PROVE  x \in OfJob(j)
    BY DEF Makings, OfJob, MessageAdd, Erases, Adds, Learns, Ends
<1>2. ASSUME NEW t \in {"session", "conversation"}, NEW j \in {"turn", "inject"}, NEW x \in Makings(t)
      PROVE  x \in OfJob(j)
    BY DEF Makings, OfJob, MessageAdd, Erases, Adds, Learns, Ends
<1>3. ASSUME NEW j \in Learns, NEW x \in Learnings PROVE x \in OfJob(j)
    <2>1. x \in Stmt /\ Proper(x)
        BY StatementIs DEF Learnings
    <2> QED
        BY <2>1 DEF Learnings, OfJob, MessageAdd, Erases, Adds, Learns, Learned, Erasable, Graph, Proper, Counts, Reads, Ends
<1>4. ASSUME NEW j \in Learns, NEW x \in Updatings PROVE x \in OfJob(j)
    BY DEF Updatings, OfJob, MessageAdd, Erases, Adds, Learns, Ends
<1>5. ASSUME NEW x \in Readings PROVE x \in OfJob("inject")
    BY DEF Readings, Reads, OfJob, MessageAdd, Erases, Adds, Learns, Ends
<1>6. ASSUME NEW x \in Recallings PROVE x \in OfJob("recall")
    BY DEF Recallings, OfJob, MessageAdd, Erases, Adds, Learns, Ends
<1>7. ASSUME NEW x \in Forgettings PROVE x \in OfJob("forget")
    <2>1. x \in Stmt /\ Proper(x)
        BY StatementIs DEF Forgettings
    <2> QED
        BY <2>1 DEF Forgettings, OfJob, MessageAdd, Erases, Adds, Notes, Learns, Proper, Erasable, Graph, Ends
<1> QED
    BY <1>1, <1>2, <1>3, <1>4, <1>5, <1>6, <1>7

\* A lookup of the session or of its conversation, which may find nothing.
LEMMA LooksServe ==
    ASSUME NEW t \in {"session", "conversation"}
    PROVE  Look(t) \in OfJob("inject") /\ \A m \in BOOLEAN : Unit(m, OfJob("inject"), <<Look(t)>>)
<1>1. Look(t) \in OfJob("inject")
    <2>1. Proper(Statement("look", t)) /\ "look" \in Kinds /\ t \in Tables
        BY TablesAre DEF Proper, Statement, Ends, Reads, Notes, Erases, Kinds, Four
    <2>2. Look(t) \in Stmt
        BY <2>1, StatementFits DEF Look
    <2> QED
        BY <2>2 DEF OfJob, Look, Statement, MessageAdd, Adds, Erases, Learns
<1>2. <<Look(t)>> \in Seq(OfJob("inject")) /\ Len(<<Look(t)>>) = 1 /\ <<Look(t)>>[1] = Look(t)
    BY <1>1
<1>3. \A m \in BOOLEAN : Plain(m, Look(t))
    BY DEF Plain, Look, Statement, Branches, Bound, Follows, Adds
<1> DEFINE p == <<Look(t)>>
<1>4. p \in Seq(OfJob("inject")) /\ \A i \in 1 .. Len(p) : p[i] = Look(t)
    BY <1>2
<1> HIDE DEF p
<1>5. \A m \in BOOLEAN : Unit(m, OfJob("inject"), p)
    BY <1>3, <1>4, UnitPlain
<1> QED
    BY <1>1, <1>5 DEF p

\* The statements by which a client decides for itself.
LEMMA GuardsServe ==
    ASSUME NEW t \in Four, NEW n \in Nat
    PROVE  /\ Unless(t, n).do = "unless" /\ Unless(t, n).table = t /\ Unless(t, n).skip = n
           /\ When(t, n).do = "when" /\ When(t, n).table = t /\ When(t, n).skip = n
           /\ \A j \in {"turn", "inject"} : Unless(t, n) \in OfJob(j)
           /\ \A j \in {"inject"} \cup Learns : When(t, n) \in OfJob(j)
<1>1. /\ Unless(t, n) = [do |-> "unless", table |-> t, skip |-> n, datum |-> "none"]
      /\ When(t, n) = [do |-> "when", table |-> t, skip |-> n, datum |-> "none"]
    BY DEF Unless, When, Statement
<1>2. t \in Tables
    BY TablesAre
<1>3. /\ Unless(t, n) \in [do : Kinds, table : Tables \cup {"none"}, skip : Nat, datum : Data]
      /\ When(t, n) \in [do : Kinds, table : Tables \cup {"none"}, skip : Nat, datum : Data]
    BY <1>1, <1>2 DEF Kinds, Data
<1>4. Proper(Unless(t, n)) /\ Proper(When(t, n))
    BY <1>1, <1>2 DEF Proper, Ends, Reads, Notes, Erases, Four
<1>5. Unless(t, n) \in Stmt /\ When(t, n) \in Stmt
    BY <1>3, <1>4 DEF Stmt
<1>6. \A j \in {"turn", "inject"} : Unless(t, n) \in OfJob(j)
    BY <1>1, <1>5 DEF OfJob, MessageAdd, Adds, Erases, Learns
<1>7. \A j \in {"inject"} \cup Learns : When(t, n) \in OfJob(j)
    BY <1>1, <1>5 DEF OfJob, MessageAdd, Adds, Erases, Learns
<1> QED
    BY <1>1, <1>6, <1>7

LEMMA CachedIs ==
    ASSUME NEW m \in BOOLEAN, NEW t \in Four, NEW j \in {"turn", "inject"}, NEW p, Unit(m, OfJob(j), p)
    PROVE  /\ Unit(m, OfJob(j), Cached(t, p)) /\ Cached(t, p) # <<>>
           /\ \A u : (u = t /\ Safe(m, u, p, 0)) => Safe(m, u, Cached(t, p), 0)
           /\ \A u : Safe(m, u, p, 1) => Safe(m, u, Cached(t, p), 1)
<1> DEFINE x == Unless(t, Len(p))
           S == OfJob(j)
<1>1. p \in Seq(S) /\ S \subseteq Stmt /\ Len(p) \in Nat /\ p \in Seq(Stmt)
    BY DEF Unit, OfJob
<1>2. x \in S /\ x.do = "unless" /\ x.skip = Len(p) /\ x.table = t
    BY <1>1, GuardsServe
<1> HIDE DEF x, S
<1>3. Unit(m, S, <<x>> \o p)
    BY <1>1, <1>2, UnitGuarded DEF S
<1>4. x \in Stmt /\ x.do \in Branches /\ Knows(t, x)
    BY <1>1, <1>2 DEF Branches, Knows
<1>5. ASSUME NEW u, u = t, Safe(m, u, p, 0) PROVE Safe(m, u, <<x>> \o p, 0)
    BY <1>1, <1>2, <1>4, <1>5, SafeGuarded
<1>6. ASSUME NEW u, Safe(m, u, p, 1) PROVE Safe(m, u, <<x>> \o p, 1)
    BY <1>1, <1>2, <1>4, <1>6, SafeGuarded
<1>7. <<x>> \o p # <<>>
    <2>1. <<x>> \in Seq(S) /\ Len(<<x>>) = 1
        BY <1>2
    <2>2. Len(<<x>> \o p) = 1 + Len(p) /\ <<x>> \o p \in Seq(S)
        BY <1>1, <2>1, ConcatProperties
    <2> QED
        BY <1>1, <2>2, EmptySeq
<1> QED
    BY <1>3, <1>5, <1>6, <1>7 DEF Cached, x, S

LEMMA KnownIs ==
    ASSUME NEW m \in BOOLEAN, NEW t \in Four, NEW j \in {"inject"} \cup Learns, NEW p, Unit(m, OfJob(j), p)
    PROVE  Unit(m, OfJob(j), Known(t, p)) /\ Known(t, p) # <<>>
<1> DEFINE x == When(t, Len(p))
           S == OfJob(j)
<1>1. p \in Seq(S) /\ S \subseteq Stmt /\ Len(p) \in Nat
    BY DEF Unit, OfJob
<1>2. x \in S /\ x.do = "when" /\ x.skip = Len(p)
    BY <1>1, GuardsServe
<1> HIDE DEF x, S
<1>3. Unit(m, S, <<x>> \o p)
    BY <1>1, <1>2, UnitGuarded DEF S
<1>4. <<x>> \o p # <<>>
    <2>1. <<x>> \in Seq(S) /\ Len(<<x>>) = 1
        BY <1>2
    <2>2. Len(<<x>> \o p) = 1 + Len(p) /\ <<x>> \o p \in Seq(S)
        BY <1>1, <2>1, ConcatProperties
    <2> QED
        BY <1>1, <2>2, EmptySeq
<1> QED
    BY <1>3, <1>4 DEF Known, x, S

\* The same statements, about one datum.
LEMMA WithIs ==
    ASSUME NEW m \in BOOLEAN, NEW datum \in Data, NEW p, Unit(m, Learnings, p)
    PROVE  Unit(m, Learnings, With(datum, p))
<1> DEFINE q == With(datum, p)
<1>1. p \in Seq(Learnings) /\ Len(p) \in Nat /\ DOMAIN p = 1 .. Len(p)
    BY DEF Unit
<1>2. ASSUME NEW i \in 1 .. Len(p)
      PROVE  /\ [p[i] EXCEPT !.datum = datum] \in Learnings
             /\ [p[i] EXCEPT !.datum = datum].do = p[i].do
             /\ [p[i] EXCEPT !.datum = datum].table = p[i].table
             /\ [p[i] EXCEPT !.datum = datum].skip = p[i].skip
    <2>1. p[i] \in Learnings
        BY <1>1
    <2>2. p[i] \in [do : Kinds, table : Tables \cup {"none"}, skip : Nat, datum : Data] /\ Proper(p[i])
        BY <2>1 DEF Learnings, Stmt
    <2>3. /\ [p[i] EXCEPT !.datum = datum] \in [do : Kinds, table : Tables \cup {"none"}, skip : Nat, datum : Data]
          /\ [p[i] EXCEPT !.datum = datum].do = p[i].do
          /\ [p[i] EXCEPT !.datum = datum].table = p[i].table
          /\ [p[i] EXCEPT !.datum = datum].skip = p[i].skip
        BY <2>2
    <2>4. Proper([p[i] EXCEPT !.datum = datum])
        BY <2>2, <2>3 DEF Proper
    <2> QED
        BY <2>1, <2>3, <2>4 DEF Learnings, Stmt
<1>3. q = [i \in 1 .. Len(p) |-> [p[i] EXCEPT !.datum = datum]]
    BY <1>1 DEF With
<1>4. q \in Seq(Learnings) /\ Len(q) = Len(p)
    BY <1>1, <1>2, <1>3
<1>5. \A i \in 1 .. Len(q) : q[i].do = p[i].do /\ q[i].table = p[i].table /\ q[i].skip = p[i].skip
    BY <1>2, <1>3, <1>4
<1> HIDE DEF q
<1>6. ASSUME NEW i \in 1 .. Len(q) PROVE TidyAt(m, q, i)
    <2>1. TidyAt(m, p, i) /\ i \in Nat /\ i >= 1 /\ i <= Len(p) /\ p[i].skip \in Nat
        BY <1>1, <1>4 DEF Unit, Tidy, Learnings, Stmt
    <2>2. q[i].do = p[i].do /\ q[i].table = p[i].table /\ q[i].skip = p[i].skip
        BY <1>5
    <2>3. i > 1 => q[i - 1].do = p[i - 1].do /\ q[i - 1].table = p[i - 1].table
        BY <1>5, <1>4, <2>1
    <2>4. i < Len(p) => q[i + 1].do = p[i + 1].do
        BY <1>5, <1>4, <2>1
    <2>5. p[i].do \in Branches => i + p[i].skip <= Len(p)
        BY <2>1 DEF TidyAt
    <2>6. p[i].do \in Branches /\ i + p[i].skip < Len(p) => q[i + p[i].skip + 1].do = p[i + p[i].skip + 1].do
        BY <1>5, <1>4, <2>1
    <2> QED
        BY <1>4, <2>1, <2>2, <2>3, <2>4, <2>5, <2>6 DEF TidyAt
<1>7. q # <<>> => q[1].do \notin Bound
    <2>1. q # <<>> => Len(q) > 0 /\ p # <<>>
        BY <1>1, <1>4, EmptySeq
    <2>2. q # <<>> => 1 \in 1 .. Len(q)
        BY <2>1, <1>1, <1>4
    <2> QED
        BY <2>1, <2>2, <1>5 DEF Unit
<1> QED
    BY <1>4, <1>6, <1>7 DEF Unit, Tidy, q

\* The question or the answer of a turn.
LEMMA MessageIs ==
    ASSUME NEW m \in BOOLEAN, NEW datum \in Data
    PROVE  \E x \in OfJob("turn") :
              /\ With(datum, <<Add("conversation_message")>>) = <<x>>
              /\ MessageAdd(x) /\ x.datum = datum
              /\ Unit(m, OfJob("turn"), <<x>>)
<1> DEFINE y == Add("conversation_message")
           x == [y EXCEPT !.datum = datum]
<1>1. y = [do |-> "add", table |-> "conversation_message", skip |-> 0, datum |-> "none"]
    BY DEF Add, Statement
<1>2. x = [do |-> "add", table |-> "conversation_message", skip |-> 0, datum |-> datum]
    BY <1>1
<1>3. With(datum, <<y>>) = <<x>>
    <2>1. <<y>> = [i \in 1 .. 1 |-> y] /\ DOMAIN <<y>> = 1 .. 1
        OBVIOUS
    <2> QED
        BY <2>1 DEF With
<1> HIDE DEF x, y
<1>4. x \in Stmt
    <2>1. "conversation_message" \in Tables
        BY TablesAre
    <2>2. Proper(x)
        BY <1>2, <2>1 DEF Proper, Ends, Reads, Notes, Erases
    <2>3. x \in [do : Kinds, table : Tables \cup {"none"}, skip : Nat, datum : Data]
        BY <1>2, <2>1 DEF Kinds
    <2> QED
        BY <2>2, <2>3 DEF Stmt
<1>5. x \in OfJob("turn") /\ MessageAdd(x) /\ x.datum = datum
    BY <1>2, <1>4 DEF OfJob, MessageAdd, Adds, Erases, Learns
<1>6. Plain(m, x)
    BY <1>2 DEF Plain, Branches, Bound, Follows, Four
<1>7. <<x>> \in Seq(OfJob("turn")) /\ \A i \in 1 .. Len(<<x>>) : <<x>>[i] = x
    BY <1>5
<1>8. Unit(m, OfJob("turn"), <<x>>)
    BY <1>6, <1>7, UnitPlain
<1> QED
    BY <1>3, <1>5, <1>8 DEF y

LEMMA CommitServes ==
    ASSUME NEW m \in BOOLEAN, NEW j \in {"turn"} \cup Learns
    PROVE  Commit \in OfJob(j) /\ Unit(m, OfJob(j), <<Commit>>)
<1>1. Commit \in OfJob(j)
    <2>1. Proper(Statement("commit", "none")) /\ "commit" \in Kinds
        BY DEF Proper, Statement, Ends, Reads, Notes, Erases, Kinds
    <2>2. Commit \in Stmt
        BY <2>1, StatementFits DEF Commit
    <2> QED
        BY <2>2 DEF OfJob, Commit, Statement, MessageAdd, Adds, Erases, Learns
<1>2. Plain(m, Commit)
    BY DEF Plain, Commit, Statement, Branches, Bound, Follows, Adds
<1> DEFINE p == <<Commit>>
<1>3. p \in Seq(OfJob(j)) /\ \A i \in 1 .. Len(p) : p[i] = Commit
    BY <1>1
<1> HIDE DEF p
<1>4. Unit(m, OfJob(j), p)
    BY <1>2, <1>3, UnitPlain
<1> QED
    BY <1>1, <1>4 DEF p

LEMMA TurnShapeIs ==
    ASSUME NEW m \in BOOLEAN, NEW h \in Seq(Stmt), Tidy(m, h), \A i \in 1 .. Len(h) : ~MessageAdd(h[i]),
           NEW x \in Stmt, MessageAdd(x), x.datum = "question",
           NEW y \in Stmt, MessageAdd(y), y.datum = "answer"
    PROVE  /\ TurnShape(h \o <<x>> \o <<y>> \o <<Commit>>) /\ h \o <<x>> \o <<y>> \o <<Commit>> # <<>>
           /\ Len(h \o <<x>> \o <<y>> \o <<Commit>>) >= 3
<1>1. Commit \in Stmt /\ Commit.do = "commit"
    BY LearningKinds DEF Commit, Statement
<1>2. /\ <<x>> \in Seq(Stmt) /\ <<y>> \in Seq(Stmt) /\ <<Commit>> \in Seq(Stmt)
      /\ Len(<<x>>) = 1 /\ Len(<<y>>) = 1 /\ Len(<<Commit>>) = 1 /\ Len(h) \in Nat
    BY <1>1
<1> DEFINE a == h \o <<x>>
           b == a \o <<y>>
           s == b \o <<Commit>>
           n == Len(h)
<1>3. /\ a \in Seq(Stmt) /\ Len(a) = n + 1 /\ a[n + 1] = x
      /\ \A i \in 1 .. n : a[i] = h[i]
    <2>1. <<x>>[1] = x /\ 1 \in 1 .. Len(<<x>>)
        BY <1>2
    <2> QED
        BY <1>2, <2>1, JoinedAt
<1> HIDE DEF a
<1>4. /\ b \in Seq(Stmt) /\ Len(b) = n + 2 /\ b[n + 2] = y /\ b[n + 1] = x
      /\ \A i \in 1 .. n : b[i] = h[i]
    <2>1. <<y>>[1] = y /\ 1 \in 1 .. Len(<<y>>)
        BY <1>2
    <2>2. b \in Seq(Stmt) /\ Len(b) = Len(a) + 1 /\ b[Len(a) + 1] = y /\ \A i \in 1 .. Len(a) : b[i] = a[i]
        BY <1>2, <1>3, <2>1, JoinedAt
    <2> QED
        BY <1>2, <1>3, <2>2
<1> HIDE DEF b
<1>5. /\ s \in Seq(Stmt) /\ Len(s) = n + 3 /\ s[n + 3] = Commit /\ s[n + 2] = y /\ s[n + 1] = x
      /\ \A i \in 1 .. n : s[i] = h[i]
    <2>1. <<Commit>>[1] = Commit /\ 1 \in 1 .. Len(<<Commit>>)
        BY <1>2
    <2>2. s \in Seq(Stmt) /\ Len(s) = Len(b) + 1 /\ s[Len(b) + 1] = Commit /\ \A i \in 1 .. Len(b) : s[i] = b[i]
        BY <1>2, <1>4, <2>1, JoinedAt
    <2> QED
        BY <1>2, <1>4, <2>2
<1> HIDE DEF s
<1>6. ASSUME NEW i \in 1 .. n PROVE ~MessageAdd(s[i]) /\ (s[i].do \in Branches => i + s[i].skip <= n)
    <2>1. s[i] = h[i] /\ TidyAt(m, h, i)
        BY <1>5 DEF Tidy
    <2> QED
        BY <2>1 DEF TidyAt
<1>7. TurnShape(s)
    <2>1. n \in Nat /\ Len(s) = n + 3 /\ Len(s) - 1 = n + 2 /\ Len(s) - 2 = n + 1 /\ Len(s) - 3 = n
        BY <1>2, <1>5
    <2>2. s[Len(s)].do = "commit" /\ s[Len(s) - 1] = y /\ s[Len(s) - 2] = x
        BY <1>1, <1>5, <2>1
    <2>3. \A i \in 1 .. Len(s) - 3 : ~MessageAdd(s[i]) /\ (s[i].do \in Branches => i + s[i].skip <= Len(s) - 3)
        BY <1>6, <2>1
    <2>4. Len(s) >= 1
        BY <2>1
    <2> QED
        BY <2>2, <2>3, <2>4 DEF TurnShape
<1>8. s # <<>> /\ Len(s) >= 3
    BY <1>2, <1>5, EmptySeq
<1> QED
    BY <1>7, <1>8 DEF s, b, a

\* In a unit of statements of S nothing has a property that no statement of S has.
LEMMA UnitIsFree ==
    ASSUME NEW m \in BOOLEAN, NEW S, S \subseteq Stmt, NEW p, Unit(m, S, p)
    PROVE  /\ p \in Seq(Stmt) /\ Tidy(m, p)
           /\ \A t : (\A x \in S : ~Uses(t, x)) => Free(t, p)
           /\ \A t : (\A x \in S : ~Looks(t, x)) => Blind(t, p)
BY DEF Unit, Free, Blind

LEMMA TurnIs ==
    ASSUME NEW m \in BOOLEAN, NEW D, Good(m, D)
    PROVE  /\ Unit(m, OfJob("turn"), Turn(D)) /\ Turn(D) # <<>> /\ TurnShape(Turn(D)) /\ Len(Turn(D)) >= 3
           /\ Safe(m, "session", Turn(D), 1) /\ Safe(m, "conversation", Turn(D), 1)
<1> DEFINE S == OfJob("turn")
           E == Cached("entity", D.entity)
           P == Cached("process", D.process)
           V == Cached("session", D.session.create)
           C == Cached("conversation", D.conversation.create)
<1>0. D.message = <<Add("conversation_message")>>
    BY DEF Good
<1>1. PICK x \in S : /\ With("question", D.message) = <<x>> /\ MessageAdd(x) /\ x.datum = "question"
                     /\ Unit(m, S, <<x>>)
    <2>1. "question" \in Data
        BY DEF Data
    <2> QED
        BY <1>0, <2>1, MessageIs
<1>2. PICK y \in S : /\ With("answer", D.message) = <<y>> /\ MessageAdd(y) /\ y.datum = "answer"
                     /\ Unit(m, S, <<y>>)
    <2>1. "answer" \in Data
        BY DEF Data
    <2> QED
        BY <1>0, <2>1, MessageIs
<1>3. Turn(D) = E \o P \o V \o C \o <<x>> \o <<y>> \o <<Commit>>
    BY <1>1, <1>2 DEF Turn
<1>4. /\ Unit(m, Makings("entity"), D.entity) /\ Unit(m, Makings("process"), D.process)
      /\ Unit(m, Makings("session"), D.session.create)
      /\ Unit(m, Makings("conversation"), D.conversation.create)
      /\ Safe(m, "session", D.session.create, 0)
      /\ Safe(m, "conversation", D.conversation.create, 0)
    BY DEF Good
<1>5. S \subseteq Stmt /\ Commit \in S /\ Unit(m, S, <<Commit>>) /\ "turn" \in {"turn", "inject"}
    BY CommitServes DEF OfJob
<1>6. /\ Unit(m, S, D.entity) /\ Unit(m, S, D.process) /\ Unit(m, S, D.session.create)
      /\ Unit(m, S, D.conversation.create)
    BY <1>4, MethodsServe, UnitWidens
<1>7. Unit(m, S, E) /\ Unit(m, S, P) /\ Unit(m, S, V) /\ Unit(m, S, C)
    BY <1>6, CachedIs DEF Four
<1>8. Safe(m, "session", V, 0) /\ Safe(m, "conversation", C, 0)
    BY <1>4, <1>6, CachedIs DEF Four
\* No unit but the messages adds one, and none looks up a session or a conversation.
<1>9. \A z \in S : ~Looks("session", z) /\ ~Looks("conversation", z)
    BY DEF OfJob, Looks
<1>10. ASSUME NEW t \in Four, NEW p, Unit(m, Makings(t), p)
       PROVE  \A i \in 1 .. Len(Cached(t, p)) :
                 /\ ~MessageAdd(Cached(t, p)[i])
                 /\ t # "conversation" => ~Uses("session", Cached(t, p)[i])
    <2>1. p \in Seq(Makings(t)) /\ Makings(t) \subseteq Stmt /\ p \in Seq(Stmt) /\ Len(p) \in Nat
        BY <1>10 DEF Unit, Makings
    <2> DEFINE g == Unless(t, Len(p))
    <2>2. g \in OfJob("turn") /\ g.do = "unless"
        BY <2>1, GuardsServe
    <2>3. g \in Stmt
        BY <2>2 DEF OfJob
    <2> HIDE DEF g
    <2>4. <<g>> \in Seq(Stmt) /\ Len(<<g>>) = 1 /\ <<g>>[1] = g
        BY <2>3
    <2> DEFINE s == <<g>> \o p
    <2>5. /\ \A i \in 1 .. Len(p) : s[1 + i] = p[i]
          /\ s[1] = g
          /\ \A i \in 1 .. Len(s) : i = 1 \/ \E k \in 1 .. Len(p) : i = 1 + k
        <3>1. /\ \A i \in 1 .. Len(<<g>>) : s[i] = <<g>>[i]
              /\ \A i \in 1 .. Len(p) : s[Len(<<g>>) + i] = p[i]
              /\ \A i \in 1 .. Len(s) : i \in 1 .. Len(<<g>>) \/ \E k \in 1 .. Len(p) : i = Len(<<g>>) + k
            BY <2>1, <2>4, JoinedAt
        <3> QED
            BY <3>1, <2>4
    <2> HIDE DEF s
    <2>6. \A i \in 1 .. Len(p) : ~MessageAdd(p[i]) /\ (t # "conversation" => ~Uses("session", p[i]))
        BY <2>1 DEF Makings, MessageAdd, Uses, Adds, Four
    <2>7. ~MessageAdd(g) /\ ~Uses("session", g)
        BY <2>2 DEF MessageAdd, Uses, Adds
    <2>8. \A i \in 1 .. Len(s) : ~MessageAdd(s[i]) /\ (t # "conversation" => ~Uses("session", s[i]))
        BY <2>5, <2>6, <2>7
    <2> QED
        BY <2>8 DEF s, g, Cached
<1>11. /\ \A i \in 1 .. Len(E) : ~MessageAdd(E[i]) /\ ~Uses("session", E[i])
       /\ \A i \in 1 .. Len(P) : ~MessageAdd(P[i]) /\ ~Uses("session", P[i])
       /\ \A i \in 1 .. Len(V) : ~MessageAdd(V[i])
       /\ \A i \in 1 .. Len(C) : ~MessageAdd(C[i])
    BY <1>4, <1>10 DEF Four
<1> HIDE DEF E, P, V, C
<1> DEFINE EP == E \o P
           EPV == EP \o V
           H == EPV \o C
<1>12. Unit(m, S, EP)
    BY <1>5, <1>7, UnitJoins
<1>13. Unit(m, S, EPV)
    BY <1>5, <1>7, <1>12, UnitJoins
<1>14. Unit(m, S, H)
    BY <1>5, <1>7, <1>13, UnitJoins
<1>15. /\ E \in Seq(Stmt) /\ P \in Seq(Stmt) /\ V \in Seq(Stmt) /\ C \in Seq(Stmt)
       /\ EP \in Seq(Stmt) /\ EPV \in Seq(Stmt) /\ H \in Seq(Stmt)
       /\ Tidy(m, EP) /\ Tidy(m, EPV) /\ Tidy(m, H)
    BY <1>5, <1>7, <1>12, <1>13, <1>14, UnitIsFree
<1>16. \A i \in 1 .. Len(EP) : ~MessageAdd(EP[i]) /\ ~Uses("session", EP[i])
    BY <1>11, <1>15, JoinedAt
<1> HIDE DEF EP
<1>17. \A i \in 1 .. Len(EPV) : ~MessageAdd(EPV[i])
    BY <1>11, <1>15, <1>16, JoinedAt
<1> HIDE DEF EPV
<1>18. \A i \in 1 .. Len(H) : ~MessageAdd(H[i])
    BY <1>11, <1>15, <1>17, JoinedAt
<1>19. Free("session", EP) /\ Free("conversation", EPV)
    BY <1>16, <1>17 DEF Free, Uses, MessageAdd
<1>20. Safe(m, "session", EPV, 0)
    BY <1>8, <1>15, <1>19, SafeAfter DEF EPV
<1>21. \A t \in {"session", "conversation"} : /\ Blind(t, C) /\ Blind(t, <<x>>) /\ Blind(t, <<y>>)
                                               /\ Blind(t, <<Commit>>)
    BY <1>1, <1>2, <1>5, <1>7, <1>9, UnitIsFree
<1>22. Safe(m, "session", H, 0)
    BY <1>15, <1>20, <1>21, SafeBefore
<1>23. Safe(m, "conversation", H, 0)
    BY <1>8, <1>15, <1>19, SafeAfter
<1> HIDE DEF H
<1>24. /\ <<x>> \in Seq(Stmt) /\ <<y>> \in Seq(Stmt) /\ <<Commit>> \in Seq(Stmt)
    BY <1>1, <1>2, <1>5, UnitIsFree
<1> DEFINE A == H \o <<x>>
           B == A \o <<y>>
           F == B \o <<Commit>>
<1>25. /\ Unit(m, S, A) /\ A \in Seq(Stmt)
    BY <1>1, <1>5, <1>14, UnitJoins, UnitIsFree
<1>26. ASSUME NEW t \in {"session", "conversation"} PROVE Safe(m, t, A, 0)
    BY <1>15, <1>21, <1>22, <1>23, <1>24, SafeBefore
<1> HIDE DEF A
<1>27. /\ Unit(m, S, B) /\ B \in Seq(Stmt)
    BY <1>2, <1>5, <1>25, UnitJoins, UnitIsFree
<1>28. ASSUME NEW t \in {"session", "conversation"} PROVE Safe(m, t, B, 0)
    BY <1>21, <1>24, <1>25, <1>26, SafeBefore
<1> HIDE DEF B
<1>29. /\ Unit(m, S, F) /\ F \in Seq(Stmt)
    BY <1>5, <1>27, UnitJoins, UnitIsFree
<1>30. ASSUME NEW t \in {"session", "conversation"} PROVE Safe(m, t, F, 1)
    <2>1. Safe(m, t, F, 0)
        BY <1>21, <1>24, <1>27, <1>28, SafeBefore
    <2> QED
        BY <1>29, <2>1, SafeWidens
<1>31. TurnShape(F) /\ F # <<>> /\ Len(F) >= 3
    <2>1. x \in Stmt /\ y \in Stmt
        BY <1>5
    <2> QED
        BY <1>1, <1>2, <1>15, <1>18, <2>1, TurnShapeIs DEF F, B, A
<1>32. Turn(D) = F
    BY <1>3 DEF F, B, A, H, EPV, EP
<1> QED
    BY <1>29, <1>30, <1>31, <1>32

LEMMA InjectIs ==
    ASSUME NEW m \in BOOLEAN, NEW D, Good(m, D)
    PROVE  /\ Unit(m, OfJob("inject"), Inject(D)) /\ Inject(D) # <<>>
           /\ Safe(m, "session", Inject(D), 1) /\ Safe(m, "conversation", Inject(D), 1)
<1> DEFINE S == OfJob("inject")
<1>1. S \subseteq Stmt /\ "inject" \in {"turn", "inject"} /\ "inject" \in {"inject"} \cup Learns
    BY DEF OfJob
<1>2. /\ Unit(m, Makings("entity"), D.entity) /\ Unit(m, Makings("process"), D.process)
      /\ Unit(m, Makings("session"), D.session.create)
      /\ Unit(m, Makings("conversation"), D.conversation.create)
      /\ Safe(m, "session", D.session.create, 0)
      /\ D.session.read = <<Look("session")>> /\ D.conversation.read = <<Look("conversation")>>
      /\ Unit(m, Readings, D.messages)
    BY DEF Good
<1>3. /\ Unit(m, S, D.entity) /\ Unit(m, S, D.process) /\ Unit(m, S, D.session.create)
      /\ Unit(m, S, D.conversation.create) /\ Unit(m, S, D.messages)
      /\ Unit(m, S, D.session.read) /\ Unit(m, S, D.conversation.read)
    BY <1>2, MethodsServe, LooksServe, UnitWidens
<1> DEFINE E == D.entity
           P == D.process
           V == D.session.create
           C == D.conversation.create
           R == D.session.read
           Q == D.conversation.read
           M == D.messages
<1>4. /\ Unit(m, S, E) /\ Unit(m, S, P) /\ Unit(m, S, V) /\ Unit(m, S, C) /\ Unit(m, S, M)
      /\ Unit(m, S, R) /\ Unit(m, S, Q)
      /\ Safe(m, "session", V, 0)
    BY <1>2, <1>3
<1>5. Inject(D) = LET create == Cached("session", E \o P \o V) \o C
                      ensure == Cached("session", R) \o Known("session", Q) \o Cached("conversation", create)
                  IN  Cached("conversation", ensure) \o M
    BY DEF Inject
<1>6. /\ E \in Seq(Stmt) /\ P \in Seq(Stmt) /\ V \in Seq(Stmt) /\ C \in Seq(Stmt) /\ M \in Seq(Stmt)
      /\ R \in Seq(Stmt) /\ Q \in Seq(Stmt) /\ Tidy(m, M)
    BY <1>1, <1>4, UnitIsFree
<1>7. Blind("session", C) /\ Free("session", E) /\ Free("session", P) /\ Free("session", M)
    <2>1. \A z \in Makings("conversation") : ~Looks("session", z)
        BY DEF Makings, Looks
    <2>2. \A z \in Makings("entity") \cup Makings("process") \cup Readings : ~Uses("session", z)
        BY DEF Makings, Uses, Readings, Reads, Adds
    <2>3. /\ Makings("entity") \subseteq Stmt /\ Makings("process") \subseteq Stmt /\ Readings \subseteq Stmt
          /\ Makings("conversation") \subseteq Stmt
        BY DEF Makings, Readings
    <2> QED
        BY <1>2, <2>1, <2>2, <2>3, UnitIsFree
<1>8. R = <<Look("session")>> /\ Q = <<Look("conversation")>>
    BY <1>2
<1> HIDE DEF E, P, V, C, R, Q, M
<1> DEFINE EP == E \o P
           EPV == EP \o V
           K == Cached("session", EPV)
           N == K \o C
           L == Cached("conversation", N)
           X == Cached("session", R)
           Y == Known("session", Q)
           XY == X \o Y
           Z == XY \o L
           W == Cached("conversation", Z)
           F == W \o M
<1>9. Unit(m, S, EP) /\ EP \in Seq(Stmt) /\ Tidy(m, EP) /\ Free("session", EP)
    <2>1. Unit(m, S, EP)
        BY <1>1, <1>4, UnitJoins
    <2>2. Free("session", EP)
        BY <1>6, <1>7, JoinedAt DEF Free
    <2> QED
        BY <1>1, <2>1, <2>2, UnitIsFree
<1>10. Unit(m, S, EPV) /\ EPV \in Seq(Stmt) /\ Safe(m, "session", EPV, 0)
    <2> HIDE DEF EP
    <2>1. Unit(m, S, EPV)
        BY <1>1, <1>4, <1>9, UnitJoins
    <2>2. Safe(m, "session", EPV, 0)
        BY <1>4, <1>6, <1>9, SafeAfter
    <2> QED
        BY <1>1, <2>1, <2>2, UnitIsFree
<1> HIDE DEF EPV
<1>11. Unit(m, S, K) /\ K \in Seq(Stmt) /\ Safe(m, "session", K, 0)
    BY <1>1, <1>10, CachedIs, UnitIsFree DEF Four
<1> HIDE DEF K
<1>12. Unit(m, S, N) /\ N \in Seq(Stmt) /\ Safe(m, "session", N, 1)
    <2>1. Unit(m, S, N) /\ N \in Seq(Stmt)
        BY <1>1, <1>4, <1>11, UnitJoins, UnitIsFree
    <2>2. Safe(m, "session", N, 0)
        BY <1>6, <1>7, <1>11, SafeBefore
    <2> QED
        BY <2>1, <2>2, SafeWidens
<1> HIDE DEF N
<1>13. Unit(m, S, L) /\ L \in Seq(Stmt) /\ Safe(m, "session", L, 1)
    BY <1>1, <1>12, CachedIs, UnitIsFree DEF Four
<1> HIDE DEF L
<1>14. /\ Unit(m, S, X) /\ Unit(m, S, Y) /\ X \in Seq(Stmt) /\ Y \in Seq(Stmt)
       /\ Free("session", X) /\ Free("session", Y)
    <2>1. Unit(m, S, X) /\ Unit(m, S, Y)
        BY <1>1, <1>4, CachedIs, KnownIs DEF Four
    <2>2. X \in Seq(Stmt) /\ Y \in Seq(Stmt)
        BY <1>1, <2>1, UnitIsFree
    <2>3. ASSUME NEW g \in Stmt, g.do \in {"unless", "when"}, NEW h \in Stmt, h.do = "look"
          PROVE  Free("session", <<g>> \o <<h>>)
        <3>1. <<g>> \in Seq(Stmt) /\ <<h>> \in Seq(Stmt) /\ Len(<<g>>) = 1 /\ Len(<<h>>) = 1
              /\ <<g>>[1] = g /\ <<h>>[1] = h
            OBVIOUS
        <3>2. ~Uses("session", g) /\ ~Uses("session", h)
            BY <2>3 DEF Uses, Adds
        <3>3. Free("session", <<g>>) /\ Free("session", <<h>>)
            BY <3>1, <3>2 DEF Free
        <3> QED
            BY <3>1, <3>3, JoinedAt DEF Free
    <2>4. /\ Look("session") \in Stmt /\ Look("conversation") \in Stmt
          /\ Look("session").do = "look" /\ Look("conversation").do = "look"
        BY <1>1, LooksServe DEF Look, Statement
    <2>5. Len(R) \in Nat /\ Len(Q) \in Nat
        BY <1>6
    <2>6. /\ Unless("session", Len(R)) \in Stmt /\ Unless("session", Len(R)).do = "unless"
          /\ When("session", Len(Q)) \in Stmt /\ When("session", Len(Q)).do = "when"
        BY <1>1, <2>5, GuardsServe DEF Four
    <2>7. X = <<Unless("session", Len(R))>> \o R /\ Y = <<When("session", Len(Q))>> \o Q
        BY DEF Cached, Known
    <2> HIDE DEF X, Y
    <2> QED
        BY <1>8, <2>1, <2>2, <2>3, <2>4, <2>6, <2>7
<1> HIDE DEF X, Y
<1>15. Unit(m, S, XY) /\ XY \in Seq(Stmt) /\ Tidy(m, XY) /\ Free("session", XY)
    <2>1. Unit(m, S, XY)
        BY <1>1, <1>14, UnitJoins
    <2>2. Free("session", XY)
        BY <1>14, JoinedAt DEF Free
    <2> QED
        BY <1>1, <2>1, <2>2, UnitIsFree
<1> HIDE DEF XY
<1>16. Unit(m, S, Z) /\ Z \in Seq(Stmt) /\ Safe(m, "session", Z, 1)
    BY <1>1, <1>13, <1>15, UnitJoins, UnitIsFree, SafeAfter
<1> HIDE DEF Z
<1>17. Unit(m, S, W) /\ W \in Seq(Stmt) /\ Safe(m, "session", W, 1) /\ W # <<>>
    BY <1>1, <1>16, CachedIs, UnitIsFree DEF Four
<1> HIDE DEF W
<1>18. Unit(m, S, F) /\ F \in Seq(Stmt) /\ Tidy(m, F)
    BY <1>1, <1>4, <1>17, UnitJoins, UnitIsFree
<1>19. Safe(m, "session", F, 1)
    BY <1>6, <1>7, <1>17, SafeBefore
<1>20. Safe(m, "conversation", F, 1)
    <2>1. \A z \in S : ~Uses("conversation", z)
        BY DEF OfJob, Uses, MessageAdd
    <2>2. Free("conversation", F)
        BY <1>1, <1>18, <2>1, UnitIsFree
    <2> QED
        BY <1>18, <2>2, SafeFree
<1>21. F # <<>>
    <2>1. Len(W) > 0 /\ Len(F) = Len(W) + Len(M) /\ Len(M) \in Nat /\ Len(W) \in Nat
        BY <1>6, <1>17, JoinedAt, EmptySeq
    <2> QED
        BY <1>18, <2>1, EmptySeq
<1>22. Inject(D) = F
    BY <1>5 DEF F, W, Z, XY, X, Y, L, N, K, EPV, EP
<1> QED
    BY <1>18, <1>19, <1>20, <1>21, <1>22

LEMMA FactIs ==
    ASSUME NEW m \in BOOLEAN, NEW D, Good(m, D), NEW datum \in Data
    PROVE  Unit(m, Learnings, Fact(D, datum))
BY WithIs DEF Fact, Good

LEMMA LearnIs ==
    ASSUME NEW m \in BOOLEAN, NEW D, Good(m, D), NEW j \in Learns, NEW facts, Unit(m, Learnings, facts)
    PROVE  Unit(m, OfJob(j), Learn(D, facts)) /\ Learn(D, facts) # <<>>
<1> DEFINE S == OfJob(j)
           w1 == D.entity \o D.process
           w2 == w1 \o facts
           w3 == w2 \o D.fact_create.end
           w4 == w3 \o D.graph_create.each
           w5 == w4 \o D.graph_create.end
           w6 == w5 \o D.attribute.each
           w7 == w6 \o D.attribute.end
           w8 == w7 \o D.conversation.update
           w9 == w8 \o <<Commit>>
<1>1. S \subseteq Stmt
    BY DEF OfJob
<1>2. /\ Makings("entity") \subseteq S /\ Makings("process") \subseteq S
      /\ Learnings \subseteq S /\ Updatings \subseteq S
    BY MethodsServe
<1>3. /\ Unit(m, S, D.entity) /\ Unit(m, S, D.process) /\ Unit(m, S, facts)
      /\ Unit(m, S, D.fact_create.end) /\ Unit(m, S, D.graph_create.each)
      /\ Unit(m, S, D.graph_create.end) /\ Unit(m, S, D.attribute.each)
      /\ Unit(m, S, D.attribute.end) /\ Unit(m, S, D.conversation.update)
      /\ Unit(m, S, <<Commit>>)
    BY <1>2, UnitWidens, CommitServes DEF Good
<1> HIDE DEF S
<1>4. Unit(m, S, w1)
    BY <1>1, <1>3, UnitJoins
<1> HIDE DEF w1
<1>5. Unit(m, S, w2)
    BY <1>1, <1>3, <1>4, UnitJoins
<1> HIDE DEF w2
<1>6. Unit(m, S, w3)
    BY <1>1, <1>3, <1>5, UnitJoins
<1> HIDE DEF w3
<1>7. Unit(m, S, w4)
    BY <1>1, <1>3, <1>6, UnitJoins
<1> HIDE DEF w4
<1>8. Unit(m, S, w5)
    BY <1>1, <1>3, <1>7, UnitJoins
<1> HIDE DEF w5
<1>9. Unit(m, S, w6)
    BY <1>1, <1>3, <1>8, UnitJoins
<1> HIDE DEF w6
<1>10. Unit(m, S, w7)
    BY <1>1, <1>3, <1>9, UnitJoins
<1> HIDE DEF w7
<1>11. Unit(m, S, w8)
    BY <1>1, <1>3, <1>10, UnitJoins
<1> HIDE DEF w8
<1>12. Unit(m, S, w9)
    BY <1>1, <1>3, <1>11, UnitJoins
<1> HIDE DEF w9
<1>13. Unit(m, OfJob(j), Known("conversation", w9)) /\ Known("conversation", w9) # <<>>
    <2>1. "conversation" \in Four /\ j \in {"inject"} \cup Learns
        BY DEF Four
    <2>2. Unit(m, OfJob(j), w9)
        BY <1>12 DEF S
    <2> QED
        BY <2>1, <2>2, KnownIs
<1>14. Learn(D, facts) = Known("conversation", w9)
    BY DEF Learn, w9, w8, w7, w6, w5, w4, w3, w2, w1
<1> QED
    BY <1>13, <1>14

\* Makings are never empty.
LEMMA MakingIsSome ==
    ASSUME NEW m \in BOOLEAN, NEW j \in {"forget", "recall"}, NEW D, Good(m, D), NEW q, Unit(m, OfJob(j), q),
           D.entity # <<>>
    PROVE  Unit(m, OfJob(j), D.entity \o q) /\ D.entity \o q # <<>>
<1>1. OfJob(j) \subseteq Stmt /\ Makings("entity") \subseteq OfJob(j)
    BY MethodsServe DEF OfJob
<1>2. Unit(m, OfJob(j), D.entity)
    BY <1>1, UnitWidens DEF Good
<1>3. Unit(m, OfJob(j), D.entity \o q)
    BY <1>1, <1>2, UnitJoins
<1>4. /\ D.entity \in Seq(Stmt) /\ q \in Seq(Stmt) /\ Len(D.entity) \in Nat /\ Len(q) \in Nat
      /\ D.entity \o q \in Seq(Stmt) /\ Len(D.entity \o q) = Len(D.entity) + Len(q)
    <2>1. D.entity \in Seq(Stmt) /\ q \in Seq(Stmt)
        BY <1>1, <1>2, UnitIsFree
    <2> DEFINE e == D.entity
    <2> HIDE DEF e
    <2>2. e \in Seq(Stmt)
        BY <2>1 DEF e
    <2>3. /\ e \in Seq(Stmt) /\ q \in Seq(Stmt) /\ Len(e) \in Nat /\ Len(q) \in Nat
          /\ e \o q \in Seq(Stmt) /\ Len(e \o q) = Len(e) + Len(q)
        BY <2>1, <2>2, JoinedAt
    <2> QED
        BY <2>3 DEF e
<1>5. Len(D.entity) > 0
    BY <1>4, EmptySeq
<1>6. D.entity \o q # <<>>
    BY <1>4, <1>5, EmptySeq
<1> QED
    BY <1>3, <1>6

LEMMA EntitiesAreMade == \A d \in AllDialects : Driver[d].entity # <<>>
<1>1. \A t : IgnoreAndTake(t) # <<>> /\ FindOrInsert(t) # <<>>
    BY DEF IgnoreAndTake, FindOrInsert
<1>2. \A t : MergeAndTake(t) # <<>>
    <2>1. ASSUME NEW t PROVE MergeAndTake(t) # <<>>
        <3>1. MergeAndTake(t) = <<Find(t), AddAbsent(t), Commit, Take(t)>>
            BY PairsJoin DEF MergeAndTake, Merge
        <3> QED
            BY <3>1
    <2> QED
        BY <2>1
<1>3. /\ Driver["sqlite"] = SqliteDriver /\ Driver["postgresql"] = PostgresqlDriver
      /\ Driver["mysql"] = MysqlDriver /\ Driver["tidb"] = MysqlDriver
      /\ Driver["oceanbase"] = OceanbaseDriver /\ Driver["oracle"] = OracleDriver
      /\ Driver["mongodb"] = MongodbDriver
    BY DEF Driver
<1>4. /\ SqliteDriver.entity = IgnoreAndTake("entity") /\ PostgresqlDriver.entity = IgnoreAndTake("entity")
      /\ MysqlDriver.entity = IgnoreAndTake("entity") /\ OceanbaseDriver.entity = IgnoreAndTake("entity")
      /\ OracleDriver.entity = MergeAndTake("entity") /\ MongodbDriver.entity = FindOrInsert("entity")
    BY DEF SqliteDriver, PostgresqlDriver, MysqlDriver, OceanbaseDriver, OracleDriver, MongodbDriver,
           SqliteEntity, PostgresqlEntity, MysqlEntity, OracleEntity, MongodbEntity
<1> QED
    BY <1>1, <1>2, <1>3, <1>4 DEF AllDialects

LEMMA OnlyStatement ==
    ASSUME NEW m \in BOOLEAN, NEW kind \in {"new_session", "set_session"}, NEW j \in JobKinds,
           kind = "new_session" <=> j = "new_session", kind = "set_session" <=> j = "restore"
    PROVE  LET p == <<Statement(kind, "none")>>
           IN  Unit(m, OfJob(j), p) /\ Len(p) = 1 /\ p # <<>>
<1> DEFINE x == Statement(kind, "none")
           p == <<x>>
<1>1. x \in OfJob(j)
    <2>1. Proper(x) /\ kind \in Kinds
        BY DEF Proper, Statement, Ends, Reads, Notes, Erases, Kinds
    <2>2. x \in Stmt
        BY <2>1, StatementFits
    <2>3. x.do = kind /\ x.table = "none"
        BY DEF Statement
    <2> HIDE DEF x
    <2> QED
        BY <2>2, <2>3 DEF OfJob, MessageAdd, Adds, Erases, Learns
<1>2. Plain(m, x)
    BY DEF Plain, Statement, Branches, Bound, Follows, Adds
<1> HIDE DEF x
<1>3. p \in Seq(OfJob(j)) /\ Len(p) = 1 /\ \A i \in 1 .. Len(p) : p[i] = x
    BY <1>1
<1> HIDE DEF p
<1>4. Unit(m, OfJob(j), p)
    BY <1>2, <1>3, UnitPlain
<1>5. p # <<>>
    BY <1>3, EmptySeq
<1> QED
    BY <1>3, <1>4, <1>5 DEF p, x

\* What the program of a job is (m: in MongoDB).
ProgramOf(m, j, p) ==
    /\ Unit(m, OfJob(j), p) /\ p # <<>>
    /\ Safe(m, "session", p, 1) /\ Safe(m, "conversation", p, 1)
    /\ j = "turn" => TurnShape(p) /\ Len(p) >= 3
    /\ j \in {"new_session", "restore"} => Len(p) = 1

LEMMA OthersAreFree ==
    ASSUME NEW m \in BOOLEAN, NEW j \in JobKinds \ {"turn", "inject"}, NEW p, Unit(m, OfJob(j), p)
    PROVE  Safe(m, "session", p, 1) /\ Safe(m, "conversation", p, 1)
<1>1. OfJob(j) \subseteq Stmt
    BY DEF OfJob
<1>2. \A x \in OfJob(j) : ~Uses("session", x) /\ ~Uses("conversation", x)
    BY DEF OfJob, Uses, MessageAdd, Ends, Adds
<1> QED
    BY <1>1, <1>2, UnitIsFree, SafeFree

LEMMA ProgramsAre ==
    ASSUME NEW d \in AllDialects, NEW j \in JobKinds
    PROVE  ProgramOf(d = "mongodb", j, Programs(Driver[d])[j])
<1> DEFINE m == d = "mongodb"
           D == Driver[d]
           p == Programs(D)[j]
<1>1. m \in BOOLEAN /\ Good(m, D) /\ D.entity # <<>>
    BY DriversAreGood, EntitiesAreMade
<1> SUFFICES ProgramOf(m, j, p)
    OBVIOUS
<1> HIDE DEF m, D
<1>2. /\ Programs(D)["turn"] = Turn(D) /\ Programs(D)["inject"] = Inject(D)
      /\ Programs(D)["learn"] = Learn(D, Fact(D, "f") \o Fact(D, "g"))
      /\ Programs(D)["learn2"] = Learn(D, Fact(D, "g") \o Fact(D, "f"))
      /\ Programs(D)["learn1"] = Learn(D, Fact(D, "f"))
      /\ Programs(D)["forget"] = Forget(D) /\ Programs(D)["recall"] = Recall(D)
      /\ Programs(D)["new_session"] = NewSession /\ Programs(D)["restore"] = Restore
    BY DEF Programs
<1>3. /\ Unit(m, Learnings, Fact(D, "f")) /\ Unit(m, Learnings, Fact(D, "g"))
      /\ Unit(m, Learnings, Fact(D, "f") \o Fact(D, "g"))
      /\ Unit(m, Learnings, Fact(D, "g") \o Fact(D, "f"))
    <2>1. Unit(m, Learnings, Fact(D, "f")) /\ Unit(m, Learnings, Fact(D, "g"))
        BY <1>1, FactIs DEF Data
    <2> QED
        BY <1>1, <2>1, LearningKinds, UnitJoins
<1>4. CASE j = "turn"
    BY <1>1, <1>2, <1>4, TurnIs DEF ProgramOf
<1>5. CASE j = "inject"
    BY <1>1, <1>2, <1>5, InjectIs DEF ProgramOf
<1>6. CASE j \in Learns
    <2>1. Unit(m, OfJob(j), p) /\ p # <<>>
        BY <1>1, <1>2, <1>3, <1>6, LearnIs DEF Learns
    <2> HIDE DEF p
    <2>2. Safe(m, "session", p, 1) /\ Safe(m, "conversation", p, 1)
        BY <1>1, <1>6, <2>1, OthersAreFree DEF Learns, JobKinds
    <2> QED
        BY <1>6, <2>1, <2>2 DEF ProgramOf, Learns, p
<1>7. CASE j = "forget"
    <2>1. Unit(m, OfJob(j), D.graph_delete) /\ Unit(m, OfJob(j), D.fact_delete) /\ OfJob(j) \subseteq Stmt
        BY <1>1, <1>7, MethodsServe, UnitWidens DEF Good, OfJob
    <2>2. Unit(m, OfJob(j), D.entity \o D.graph_delete) /\ D.entity \o D.graph_delete # <<>>
        BY <1>1, <1>7, <2>1, MakingIsSome
    <2>3. Unit(m, OfJob(j), D.entity \o D.graph_delete \o D.fact_delete)
        BY <1>1, <2>1, <2>2, UnitJoins
    <2> DEFINE a == D.entity \o D.graph_delete
               b == D.fact_delete
    <2>4. a \in Seq(Stmt) /\ b \in Seq(Stmt) /\ a # <<>> /\ Unit(m, OfJob(j), a \o b)
        BY <1>1, <2>1, <2>2, <2>3, UnitIsFree
    <2> HIDE DEF a, b
    <2>5. a \o b \in Seq(Stmt) /\ Len(a \o b) = Len(a) + Len(b) /\ Len(a) \in Nat /\ Len(b) \in Nat /\ Len(a) # 0
        BY <2>4, JoinedAt, EmptySeq
    <2>6. a \o b # <<>>
        BY <2>5, EmptySeq
    <2>7. p = a \o b
        BY <1>2, <1>7 DEF Forget, a, b
    <2> HIDE DEF p
    <2>8. Safe(m, "session", p, 1) /\ Safe(m, "conversation", p, 1)
        BY <1>1, <1>7, <2>4, <2>7, OthersAreFree DEF JobKinds
    <2> QED
        BY <1>7, <2>4, <2>6, <2>7, <2>8 DEF ProgramOf, p
<1>8. CASE j = "recall"
    <2>1. Unit(m, OfJob(j), D.fact_read)
        BY <1>1, <1>8, MethodsServe, UnitWidens DEF Good
    <2>2. Unit(m, OfJob(j), p) /\ p # <<>>
        BY <1>1, <1>2, <1>8, <2>1, MakingIsSome DEF Recall
    <2> HIDE DEF p
    <2>3. Safe(m, "session", p, 1) /\ Safe(m, "conversation", p, 1)
        BY <1>1, <1>8, <2>2, OthersAreFree DEF JobKinds
    <2> QED
        BY <1>8, <2>2, <2>3 DEF ProgramOf, p
<1>9. CASE j \in {"new_session", "restore"}
    <2>1. Unit(m, OfJob(j), p) /\ p # <<>> /\ Len(p) = 1
        <3>1. CASE j = "new_session"
            BY <1>1, <1>2, <3>1, OnlyStatement DEF NewSession
        <3>2. CASE j = "restore"
            BY <1>1, <1>2, <3>2, OnlyStatement DEF Restore
        <3> QED
            BY <1>9, <3>1, <3>2
    <2> HIDE DEF p
    <2>2. Safe(m, "session", p, 1) /\ Safe(m, "conversation", p, 1)
        BY <1>1, <1>9, <2>1, OthersAreFree DEF JobKinds
    <2> QED
        BY <1>9, <2>1, <2>2 DEF ProgramOf, p
<1> QED
    BY <1>4, <1>5, <1>6, <1>7, <1>8, <1>9 DEF JobKinds, Learns

-----------------------------------------------------------------------------
(* The state.                                                              *)
Mongo == dialect = "mongodb"

New(n) == pend[n].new
Gone(n) == pend[n].gone
ViewOf(n) == (rows \ Gone(n)) \cup New(n)

\* A row of one of the tables, whose references are ids that were given out.
IsRow(r) ==
    /\ r = [table |-> r.table, id |-> r.id, cols |-> r.cols, num |-> r.num]
    /\ r.table \in Tables /\ r.id \in 1 .. last[r.table] /\ r.num \in Nat \ {0}
    /\ DOMAIN r.cols = Columns[r.table]
    /\ \A k \in Columns[r.table] \cap DOMAIN Names : r.cols[k] \in 0 .. last[Names[k]]

TypeInv ==
    /\ <<dialect, play>> \in Cases
    /\ schema = BuiltSchema(dialect)
    /\ last \in [Tables -> Nat]
    /\ pend = [n \in Connections |-> pend[n]]
    /\ aborted \in [Connections -> BOOLEAN]
    /\ job \in [Clients -> Nat]
    /\ todo = [c \in Clients |-> todo[c]]
    /\ ids \in [Clients -> [Tables -> Nat]] /\ cache \in [Clients -> [Tables -> Nat]]
    /\ \A c \in Clients, t \in Tables : ids[c][t] <= last[t] /\ cache[c][t] <= last[t]
    /\ got \in [Clients -> Nat]
    /\ outcome \in [Clients -> Seq({"ok", "raised"})]
    /\ uuid = [c \in Clients |-> uuid[c]] /\ noted = [c \in Clients |-> noted[c]]
    /\ out = [c \in Clients |-> out[c]] /\ before = [c \in Clients |-> before[c]]
    /\ tries = [c \in Clients |-> tries[c]]
    /\ faults \in [Clients -> Nat] /\ \A c \in Clients : faults[c] <= play[c].faults
    /\ \A c \in Clients : job[c] = Len(outcome[c]) + (IF Running(c) THEN 1 ELSE 0)

\* What is left to run is a part of the program of the job: a statement finds
\* before it what it goes by, and the id of a session or of a conversation is
\* known when it is needed.
Rest(c) ==
    /\ job[c] \in 1 .. Len(play[c].jobs)
    /\ todo[c] \in Seq(OfJob(Job(c)))
    /\ Tidy(Mongo, todo[c])
    /\ Job(c) = "turn" => TurnShape(todo[c])
    /\ Job(c) \in {"new_session", "restore"} => Len(todo[c]) = 1
    /\ \A t \in {"session", "conversation"} :
          \E G \in SUBSET (1 .. Len(todo[c]) + 1) :
              Closed(Mongo, t, todo[c], G) /\ (ids[c][t] # 0 \/ 1 \in G)

TodoInv == \A c \in Clients : Running(c) => Rest(c)

\* The rows, and what the clients have noted of them.
StoreInv ==
    /\ \A r \in rows : IsRow(r)
    /\ \A n \in Connections : \A r \in New(n) : IsRow(r)
    /\ Mongo => \A n \in Connections : pend[n] = NoWork
    /\ \A n \in Connections : aborted[n] => pend[n] = NoWork /\ n[2] = "main"
    /\ \A c \in Clients : \A r \in noted[c] : r.table \in Erasable
    /\ \A c \in Clients : Running(c) /\ Here(c).do \in Follows \cup {"return_recent"} =>
          got[c] <= last[Here(c).table]

BaseInv == TypeInv /\ TodoInv /\ StoreInv

LEMMA Assumed ==
    ASSUME <<dialect, play>> \in Cases
    PROVE  dialect \in AllDialects /\ play \in [Clients -> Play]
BY TurnsAssumption

LEMMA ConnectionIs ==
    ASSUME NEW c \in Clients
    PROVE  /\ Conn(c) \in Connections /\ Conn(c)[1] = c /\ Conn(c)[2] \in {"main", "writer"}
           /\ <<c, "main">> \in Connections
           /\ \A d \in Clients \ {c} : \A k \in {"main", "writer"} : <<d, k>> # Conn(c) /\ <<d, k>> \in Connections
           /\ ~IsLearning(c) => Conn(c) = <<c, "main">>
           /\ IsLearning(c) => Conn(c) = <<c, "writer">>
BY DEF Conn, Connections

LEMMA HereIs ==
    ASSUME NEW c \in Clients, TypeInv, TodoInv, Running(c)
    PROVE  /\ Len(todo[c]) \in Nat /\ Len(todo[c]) >= 1 /\ todo[c] \in Seq(Stmt)
           /\ Here(c) = todo[c][1] /\ Here(c) \in OfJob(Job(c)) /\ Here(c) \in Stmt
           /\ Here(c).skip \in Nat /\ Here(c).do \in Kinds /\ Proper(Here(c)) /\ Here(c).datum \in Data
           /\ Job(c) \in JobKinds
           /\ Here(c).do \in Branches => Here(c).skip + 1 <= Len(todo[c])
<1>1. todo[c] \in Seq(OfJob(Job(c))) /\ Tidy(Mongo, todo[c]) /\ job[c] \in 1 .. Len(play[c].jobs)
    BY DEF TodoInv, Rest
<1>2. OfJob(Job(c)) \subseteq Stmt
    BY DEF OfJob
<1>3. Len(todo[c]) \in Nat /\ Len(todo[c]) >= 1
    BY <1>1, EmptySeq DEF Running
<1>4. Here(c) = todo[c][1] /\ Here(c) \in OfJob(Job(c))
    BY <1>1, <1>3 DEF Here
<1>5. play[c].jobs \in Seq(JobKinds)
    BY Assumed DEF TypeInv, Play
<1>6. Job(c) \in JobKinds
    BY <1>1, <1>5 DEF Job
<1>7. Here(c).skip \in Nat /\ Here(c).do \in Kinds /\ Proper(Here(c)) /\ Here(c).datum \in Data
    BY <1>2, <1>4, StatementIs
<1>8. TidyAt(Mongo, todo[c], 1)
    BY <1>1, <1>3 DEF Tidy
<1>9. Here(c).do \in Branches => Here(c).skip + 1 <= Len(todo[c])
    BY <1>3, <1>4, <1>7, <1>8 DEF TidyAt
<1> QED
    BY <1>1, <1>2, <1>3, <1>4, <1>6, <1>7, <1>9

-----------------------------------------------------------------------------
(* The kinds of steps.                                                     *)
\* A client's job goes on past n statements, or ends.
Goes(c, n) ==
    /\ Running(c)
    /\ n = 1 \/ (Here(c).do \in Branches /\ n = Here(c).skip + 1)
    /\ \E g, N : Step(c, n, g, N)
    /\ UNCHANGED <<dialect, play, schema, aborted, cancelled, faults>>

Raises(c) ==
    /\ Running(c)
    /\ \E drops, lost \in BOOLEAN : Raise(c, drops, lost)
    /\ faults' = faults \/ (CanFail(c) /\ faults' = [faults EXCEPT ![c] = @ + 1])

LEMMA ActsAre ==
    ASSUME NEW c \in Clients, Act(c) \/ Fail(c)
    PROVE  Begin(c) \/ RestartTransaction(c) \/ Raises(c) \/ \E n : Goes(c, n)
<1>1. ASSUME FindRow(c) PROVE Goes(c, 1)
    BY <1>1 DEF FindRow, Ready, Untouched, Goes
<1>2. ASSUME LookUp(c) PROVE Goes(c, 1)
    BY <1>2 DEF LookUp, Ready, Untouched, Goes, Go
<1>3. ASSUME TakeNothing(c) PROVE Raises(c)
    BY <1>3 DEF TakeNothing, Ready, Raises
<1>4. ASSUME JudgeConversation(c) PROVE \E n : Goes(c, n)
    <2>1. Here(c).do \in Branches /\ Running(c)
        BY <1>4 DEF JudgeConversation, Ready, Branches
    <2>2. \E n : (n = 1 \/ n = Here(c).skip + 1) /\ \E g, N : Step(c, n, g, N)
        BY <1>4 DEF JudgeConversation, Go
    <2>3. UNCHANGED <<dialect, play, schema, aborted, cancelled, faults>>
        BY <1>4 DEF JudgeConversation, Untouched
    <2> QED
        BY <2>1, <2>2, <2>3 DEF Goes
<1>5. ASSUME JudgeRaises(c) PROVE Raises(c)
    BY <1>5 DEF JudgeRaises, Ready, Raises
<1>6. ASSUME ReadMessages(c) PROVE Goes(c, 1)
    <2>1. Ready(c, {"read_ordered", "read_unordered"}) /\ Go(c, 1) /\ Untouched
        BY <1>6 DEF ReadMessages
    <2> QED
        BY <2>1 DEF Ready, Untouched, Goes, Go
<1>7. ASSUME NoteIds(c) PROVE Goes(c, 1)
    <2>1. Ready(c, {"read_ids", "note_orphans", "note_used"}) /\ Untouched /\ \E N : Step(c, 1, got[c], N)
        BY <1>7 DEF NoteIds
    <2> QED
        BY <2>1 DEF Ready, Untouched, Goes
<1>8. ASSUME ReadNoted(c) PROVE Goes(c, 1)
    BY <1>8 DEF ReadNoted, Ready, Untouched, Goes, Go
<1>9. ASSUME InsertRow(c) PROVE Goes(c, 1)
    BY <1>9 DEF InsertRow, Ready, Untouched, Goes, Go
<1>10. ASSUME InsertRaises(c) PROVE Raises(c)
    BY <1>10 DEF InsertRaises, Ready, Raises
<1>11. ASSUME CountRow(c) PROVE Goes(c, 1)
    BY <1>11 DEF CountRow, Ready, Untouched, Goes, Go
<1>12. ASSUME WriteNothing(c) PROVE Goes(c, 1)
    BY <1>12 DEF WriteNothing, Ready, Untouched, Goes, Go
<1>13. ASSUME EraseRows(c) PROVE Goes(c, 1)
    BY <1>13 DEF EraseRows, Ready, Untouched, Goes, Go
<1>14. ASSUME CommitWork(c) PROVE Goes(c, 1)
    BY <1>14 DEF CommitWork, Ready, Untouched, Goes, Go
<1>15. ASSUME Decide(c) PROVE \E n : Goes(c, n)
    <2>1. Here(c).do \in Branches /\ Running(c)
        BY <1>15 DEF Decide, Ready, Branches
    <2>2. \E n : (n = 1 \/ n = Here(c).skip + 1) /\ \E g, N : Step(c, n, g, N)
        BY <1>15 DEF Decide, Go
    <2>3. UNCHANGED <<dialect, play, schema, aborted, cancelled, faults>>
        BY <1>15 DEF Decide, Untouched
    <2> QED
        BY <2>1, <2>2, <2>3 DEF Goes
<1>16. ASSUME ChangeSession(c) PROVE Goes(c, 1)
    BY <1>16 DEF ChangeSession, Ready, Goes, Go
<1>17. ASSUME AbortedRaises(c) PROVE Raises(c)
    BY <1>17 DEF AbortedRaises, Raises
<1>18. ASSUME DeadlockVictim(c) PROVE Raises(c)
    <2>1. Running(c) /\ Raise(c, dialect # "oracle", FALSE) /\ UNCHANGED faults
        BY <1>18 DEF DeadlockVictim
    <2>2. (dialect # "oracle") \in BOOLEAN
        OBVIOUS
    <2> QED
        BY <2>1, <2>2 DEF Raises
<1>19. ASSUME LockTimeout(c) PROVE Raises(c)
    <2>1. Running(c) /\ Raise(c, FALSE, FALSE) /\ UNCHANGED faults
        BY <1>19 DEF LockTimeout
    <2> QED
        BY <2>1 DEF Raises
<1>20. ASSUME StatementFails(c) PROVE Raises(c)
    BY <1>20 DEF StatementFails, CanFail, Raises
<1> QED
    BY <1>1, <1>2, <1>3, <1>4, <1>5, <1>6, <1>7, <1>8, <1>9, <1>10, <1>11, <1>12, <1>13, <1>14, <1>15,
       <1>16, <1>17, <1>18, <1>19, <1>20 DEF Act, Fail

-----------------------------------------------------------------------------
\* g is f, but for what it gives for c.
Apart(f, g, c) ==
    /\ DOMAIN g = DOMAIN f /\ g = [d \in DOMAIN g |-> g[d]]
    /\ \A d \in DOMAIN f \ {c} : g[d] = f[d]

LEMMA ApartIs ==
    ASSUME NEW f, f = [d \in DOMAIN f |-> f[d]], NEW c
    PROVE  Apart(f, f, c) /\ \A v : Apart(f, [f EXCEPT ![c] = v], c)
<1>1. Apart(f, f, c)
    BY DEF Apart
<1>2. ASSUME NEW v PROVE Apart(f, [f EXCEPT ![c] = v], c)
    <2> DEFINE g == [f EXCEPT ![c] = v]
    <2>1. g = [d \in DOMAIN f |-> IF d = c THEN v ELSE f[d]]
        OBVIOUS
    <2> HIDE DEF g
    <2> QED
        BY <2>1 DEF Apart, g
<1> QED
    BY <1>1, <1>2

LEMMA ApartBy ==
    ASSUME NEW f, NEW g, NEW c, f = [d \in DOMAIN f |-> f[d]], g = f \/ \E v : g = [f EXCEPT ![c] = v]
    PROVE  Apart(f, g, c)
BY ApartIs

FrameJob(c) ==
    /\ Apart(job, job', c) /\ Apart(todo, todo', c) /\ Apart(got, got', c) /\ Apart(noted, noted', c)
    /\ Apart(outcome, outcome', c) /\ Apart(before, before', c) /\ Apart(tries, tries', c)
FrameIds(c) == Apart(ids, ids', c) /\ Apart(cache, cache', c)
FrameRest(c) == Apart(uuid, uuid', c) /\ Apart(out, out', c) /\ Apart(faults, faults', c)
FrameData(c) == Apart(pend, pend', Conn(c)) /\ Apart(aborted, aborted', Conn(c))

\* What a step of c leaves alone.
Frame(c) ==
    /\ UNCHANGED <<dialect, play, schema>>
    /\ FrameJob(c) /\ FrameIds(c) /\ FrameRest(c) /\ FrameData(c)

\* The variables are functions.
Functional ==
    /\ job = [d \in DOMAIN job |-> job[d]] /\ todo = [d \in DOMAIN todo |-> todo[d]]
    /\ got = [d \in DOMAIN got |-> got[d]] /\ noted = [d \in DOMAIN noted |-> noted[d]]
    /\ outcome = [d \in DOMAIN outcome |-> outcome[d]] /\ before = [d \in DOMAIN before |-> before[d]]
    /\ tries = [d \in DOMAIN tries |-> tries[d]] /\ ids = [d \in DOMAIN ids |-> ids[d]]
    /\ cache = [d \in DOMAIN cache |-> cache[d]] /\ uuid = [d \in DOMAIN uuid |-> uuid[d]]
    /\ out = [d \in DOMAIN out |-> out[d]] /\ faults = [d \in DOMAIN faults |-> faults[d]]
    /\ pend = [d \in DOMAIN pend |-> pend[d]] /\ aborted = [d \in DOMAIN aborted |-> aborted[d]]

LEMMA StepFrames ==
    ASSUME NEW c, Functional, NEW n, NEW g, NEW N, Step(c, n, g, N)
    PROVE  FrameJob(c)
<1>1. Apart(job, job', c)
    <2>1. job' = job \/ \E v : job' = [job EXCEPT ![c] = v]
        BY DEF Step, EndJob
    <2> QED
        BY <2>1, ApartBy DEF Functional
<1>2. Apart(todo, todo', c)
    <2>1. todo' = todo \/ \E v : todo' = [todo EXCEPT ![c] = v]
        BY DEF Step, EndJob
    <2> QED
        BY <2>1, ApartBy DEF Functional
<1>3. Apart(got, got', c)
    <2>1. got' = got \/ \E v : got' = [got EXCEPT ![c] = v]
        BY DEF Step, EndJob
    <2> QED
        BY <2>1, ApartBy DEF Functional
<1>4. Apart(noted, noted', c)
    <2>1. noted' = noted \/ \E v : noted' = [noted EXCEPT ![c] = v]
        BY DEF Step, EndJob
    <2> QED
        BY <2>1, ApartBy DEF Functional
<1>5. Apart(outcome, outcome', c)
    <2>1. outcome' = outcome \/ \E v : outcome' = [outcome EXCEPT ![c] = v]
        BY DEF Step, EndJob
    <2> QED
        BY <2>1, ApartBy DEF Functional
<1>6. Apart(before, before', c)
    <2>1. before' = before \/ \E v : before' = [before EXCEPT ![c] = v]
        BY DEF Step, EndJob
    <2> QED
        BY <2>1, ApartBy DEF Functional
<1>7. Apart(tries, tries', c)
    <2>1. tries' = tries \/ \E v : tries' = [tries EXCEPT ![c] = v]
        BY DEF Step, EndJob
    <2> QED
        BY <2>1, ApartBy DEF Functional
<1> QED
    BY <1>1, <1>2, <1>3, <1>4, <1>5, <1>6, <1>7 DEF FrameJob

LEMMA ReturnFrames ==
    ASSUME NEW c, Functional, NEW t, NEW i, Return(c, t, i)
    PROVE  FrameIds(c)
<1>1. [ids EXCEPT ![c][t] = i] = [ids EXCEPT ![c] = [ids[c] EXCEPT ![t] = i]]
    OBVIOUS
<1>2. [cache EXCEPT ![c][t] = i] = [cache EXCEPT ![c] = [cache[c] EXCEPT ![t] = i]]
    OBVIOUS
<1>3. Apart(ids, ids', c)
    BY <1>1, ApartIs DEF Return, Functional
<1>4. Apart(cache, cache', c)
    BY <1>2, ApartIs DEF Return, Functional
<1> QED
    BY <1>3, <1>4 DEF FrameIds

LEMMA KeepFrames ==
    ASSUME NEW c, Functional
    PROVE  /\ UNCHANGED <<ids, cache>> => FrameIds(c)
           /\ pend' = pend \/ (\E v : pend' = [pend EXCEPT ![Conn(c)] = v]) => Apart(pend, pend', Conn(c))
           /\ aborted' = aborted \/ (\E v : aborted' = [aborted EXCEPT ![Conn(c)] = v]) => Apart(aborted, aborted', Conn(c))
           /\ uuid' = uuid \/ (\E v : uuid' = [uuid EXCEPT ![c] = v]) => Apart(uuid, uuid', c)
           /\ out' = out \/ (\E v : out' = [out EXCEPT ![c] = v]) => Apart(out, out', c)
           /\ faults' = faults \/ (\E v : faults' = [faults EXCEPT ![c] = v]) => Apart(faults, faults', c)
           /\ cache' = cache \/ (\E v : cache' = [cache EXCEPT ![c] = v]) => Apart(cache, cache', c)
           /\ ids' = ids \/ (\E v : ids' = [ids EXCEPT ![c] = v]) => Apart(ids, ids', c)
<1>1. ASSUME pend' = pend \/ (\E v : pend' = [pend EXCEPT ![Conn(c)] = v]) PROVE Apart(pend, pend', Conn(c))
    BY <1>1, ApartBy DEF Functional
<1>2. ASSUME aborted' = aborted \/ (\E v : aborted' = [aborted EXCEPT ![Conn(c)] = v]) PROVE Apart(aborted, aborted', Conn(c))
    BY <1>2, ApartBy DEF Functional
<1>3. ASSUME uuid' = uuid \/ (\E v : uuid' = [uuid EXCEPT ![c] = v]) PROVE Apart(uuid, uuid', c)
    BY <1>3, ApartBy DEF Functional
<1>4. ASSUME out' = out \/ (\E v : out' = [out EXCEPT ![c] = v]) PROVE Apart(out, out', c)
    BY <1>4, ApartBy DEF Functional
<1>5. ASSUME faults' = faults \/ (\E v : faults' = [faults EXCEPT ![c] = v]) PROVE Apart(faults, faults', c)
    BY <1>5, ApartBy DEF Functional
<1>6. ASSUME cache' = cache \/ (\E v : cache' = [cache EXCEPT ![c] = v]) PROVE Apart(cache, cache', c)
    BY <1>6, ApartBy DEF Functional
<1>7. ASSUME ids' = ids \/ (\E v : ids' = [ids EXCEPT ![c] = v]) PROVE Apart(ids, ids', c)
    BY <1>7, ApartBy DEF Functional
<1> QED
    BY <1>1, <1>2, <1>3, <1>4, <1>5, <1>6, <1>7 DEF FrameIds

LEMMA WriteFrames ==
    ASSUME NEW c, Functional, NEW add, NEW remove, Write(c, add, remove)
    PROVE  Apart(pend, pend', Conn(c))
<1>1. UNCHANGED pend \/ \E v : pend' = [pend EXCEPT ![Conn(c)] = v]
    BY DEF Write
<1> QED
    BY <1>1, KeepFrames

LEMMA RaiseFrames ==
    ASSUME NEW c, Functional, Raises(c)
    PROVE  Frame(c)
<1>1. PICK drops, lost \in BOOLEAN : Raise(c, drops, lost)
    BY DEF Raises
<1>2. EndJob(c, "raised")
    BY <1>1 DEF Raise
<1>3. FrameJob(c)
    <2>1. Apart(job, job', c)
        <3>1. job' = job \/ \E v : job' = [job EXCEPT ![c] = v]
            BY <1>2 DEF EndJob
        <3> QED
            BY <3>1, ApartBy DEF Functional
    <2>2. Apart(todo, todo', c)
        <3>1. todo' = todo \/ \E v : todo' = [todo EXCEPT ![c] = v]
            BY <1>2 DEF EndJob
        <3> QED
            BY <3>1, ApartBy DEF Functional
    <2>3. Apart(got, got', c)
        <3>1. got' = got \/ \E v : got' = [got EXCEPT ![c] = v]
            BY <1>2 DEF EndJob
        <3> QED
            BY <3>1, ApartBy DEF Functional
    <2>4. Apart(noted, noted', c)
        <3>1. noted' = noted \/ \E v : noted' = [noted EXCEPT ![c] = v]
            BY <1>2 DEF EndJob
        <3> QED
            BY <3>1, ApartBy DEF Functional
    <2>5. Apart(outcome, outcome', c)
        <3>1. outcome' = outcome \/ \E v : outcome' = [outcome EXCEPT ![c] = v]
            BY <1>2 DEF EndJob
        <3> QED
            BY <3>1, ApartBy DEF Functional
    <2>6. Apart(before, before', c)
        <3>1. before' = before \/ \E v : before' = [before EXCEPT ![c] = v]
            BY <1>2 DEF EndJob
        <3> QED
            BY <3>1, ApartBy DEF Functional
    <2>7. Apart(tries, tries', c)
        <3>1. tries' = tries \/ \E v : tries' = [tries EXCEPT ![c] = v]
            BY <1>2 DEF EndJob
        <3> QED
            BY <3>1, ApartBy DEF Functional
    <2> QED
        BY <2>1, <2>2, <2>3, <2>4, <2>5, <2>6, <2>7 DEF FrameJob
<1>4. UNCHANGED <<dialect, play, schema, uuid, cache, ids, out>>
    BY <1>1 DEF Raise
<1>5. UNCHANGED pend \/ \E v : pend' = [pend EXCEPT ![Conn(c)] = v]
    BY <1>1 DEF Raise
<1>6. \E v : aborted' = [aborted EXCEPT ![Conn(c)] = v]
    BY <1>1 DEF Raise
<1>7. UNCHANGED faults \/ \E v : faults' = [faults EXCEPT ![c] = v]
    BY DEF Raises
<1> QED
    BY <1>3, <1>4, <1>5, <1>6, <1>7, KeepFrames DEF Frame, FrameRest, FrameData

LEMMA BeginFrames ==
    ASSUME NEW c, Functional, Begin(c)
    PROVE  Frame(c)
<1>1. FrameJob(c)
    <2>1. Apart(job, job', c)
        <3>1. job' = job \/ \E v : job' = [job EXCEPT ![c] = v]
            BY DEF Begin
        <3> QED
            BY <3>1, ApartBy DEF Functional
    <2>2. Apart(todo, todo', c)
        <3>1. todo' = todo \/ \E v : todo' = [todo EXCEPT ![c] = v]
            BY DEF Begin
        <3> QED
            BY <3>1, ApartBy DEF Functional
    <2>3. Apart(got, got', c)
        <3>1. got' = got \/ \E v : got' = [got EXCEPT ![c] = v]
            BY DEF Begin
        <3> QED
            BY <3>1, ApartBy DEF Functional
    <2>4. Apart(noted, noted', c)
        <3>1. noted' = noted \/ \E v : noted' = [noted EXCEPT ![c] = v]
            BY DEF Begin
        <3> QED
            BY <3>1, ApartBy DEF Functional
    <2>5. Apart(outcome, outcome', c)
        <3>1. outcome' = outcome \/ \E v : outcome' = [outcome EXCEPT ![c] = v]
            BY DEF Begin
        <3> QED
            BY <3>1, ApartBy DEF Functional
    <2>6. Apart(before, before', c)
        <3>1. before' = before \/ \E v : before' = [before EXCEPT ![c] = v]
            BY DEF Begin
        <3> QED
            BY <3>1, ApartBy DEF Functional
    <2>7. Apart(tries, tries', c)
        <3>1. tries' = tries \/ \E v : tries' = [tries EXCEPT ![c] = v]
            BY DEF Begin
        <3> QED
            BY <3>1, ApartBy DEF Functional
    <2> QED
        BY <2>1, <2>2, <2>3, <2>4, <2>5, <2>6, <2>7 DEF FrameJob
<1>2. /\ \E v : ids' = [ids EXCEPT ![c] = v]
      /\ \E v : out' = [out EXCEPT ![c] = v]
      /\ UNCHANGED <<dialect, play, schema, pend, aborted, uuid, cache, faults>>
    BY DEF Begin
<1>3. FrameIds(c)
    BY <1>2, KeepFrames DEF FrameIds
<1> QED
    BY <1>1, <1>2, <1>3, KeepFrames DEF Frame, FrameRest, FrameData

LEMMA RestartFrames ==
    ASSUME NEW c, Functional, RestartTransaction(c)
    PROVE  Frame(c)
<1>1. FrameJob(c)
    <2>1. Apart(job, job', c)
        <3>1. job' = job \/ \E v : job' = [job EXCEPT ![c] = v]
            BY DEF RestartTransaction
        <3> QED
            BY <3>1, ApartBy DEF Functional
    <2>2. Apart(todo, todo', c)
        <3>1. todo' = todo \/ \E v : todo' = [todo EXCEPT ![c] = v]
            BY DEF RestartTransaction
        <3> QED
            BY <3>1, ApartBy DEF Functional
    <2>3. Apart(got, got', c)
        <3>1. got' = got \/ \E v : got' = [got EXCEPT ![c] = v]
            BY DEF RestartTransaction
        <3> QED
            BY <3>1, ApartBy DEF Functional
    <2>4. Apart(noted, noted', c)
        <3>1. noted' = noted \/ \E v : noted' = [noted EXCEPT ![c] = v]
            BY DEF RestartTransaction
        <3> QED
            BY <3>1, ApartBy DEF Functional
    <2>5. Apart(outcome, outcome', c)
        <3>1. outcome' = outcome \/ \E v : outcome' = [outcome EXCEPT ![c] = v]
            BY DEF RestartTransaction
        <3> QED
            BY <3>1, ApartBy DEF Functional
    <2>6. Apart(before, before', c)
        <3>1. before' = before \/ \E v : before' = [before EXCEPT ![c] = v]
            BY DEF RestartTransaction
        <3> QED
            BY <3>1, ApartBy DEF Functional
    <2>7. Apart(tries, tries', c)
        <3>1. tries' = tries \/ \E v : tries' = [tries EXCEPT ![c] = v]
            BY DEF RestartTransaction
        <3> QED
            BY <3>1, ApartBy DEF Functional
    <2> QED
        BY <2>1, <2>2, <2>3, <2>4, <2>5, <2>6, <2>7 DEF FrameJob
<1>2. /\ \E v : pend' = [pend EXCEPT ![Conn(c)] = v]
      /\ \E v : faults' = [faults EXCEPT ![c] = v]
      /\ UNCHANGED <<dialect, play, schema, aborted, uuid, ids, cache, out>>
    BY DEF RestartTransaction
<1> QED
    BY <1>1, <1>2, KeepFrames DEF Frame, FrameRest, FrameData

\* A statement that is done, for what it is known to do.
LEMMA DoneFrames ==
    ASSUME NEW c, Functional, NEW n, Goes(c, n), UNCHANGED uuid, FrameIds(c),
           Apart(pend, pend', Conn(c)), Apart(out, out', c)
    PROVE  Frame(c)
<1>1. FrameJob(c)
    BY StepFrames DEF Goes
<1> QED
    BY <1>1, KeepFrames DEF Goes, Frame, FrameRest, FrameData

LEMMA ActsFrame ==
    ASSUME NEW c, Functional, Act(c) \/ Fail(c)
    PROVE  Frame(c)
<1>1. ASSUME NEW n, Goes(c, n), UNCHANGED <<uuid, pend, out>>,
             UNCHANGED <<ids, cache>> \/ \E t, i : Return(c, t, i)
      PROVE  Frame(c)
    BY <1>1, KeepFrames, ReturnFrames, DoneFrames
<1>2. ASSUME NEW n, Goes(c, n), UNCHANGED <<uuid, out>>, \E add, remove : Write(c, add, remove),
             UNCHANGED <<ids, cache>> \/ \E t, i : Return(c, t, i)
      PROVE  Frame(c)
    BY <1>2, KeepFrames, ReturnFrames, WriteFrames, DoneFrames
<1>3. ASSUME NEW n, Goes(c, n), UNCHANGED <<uuid, pend, ids, cache>>, \E v : out' = [out EXCEPT ![c] = v]
      PROVE  Frame(c)
    BY <1>3, KeepFrames, DoneFrames
<1>4. ASSUME FindRow(c) PROVE Frame(c)
    <2>1. Goes(c, 1) /\ UNCHANGED <<uuid, pend, out, ids, cache>>
        BY <1>4 DEF FindRow, Ready, Untouched, Goes, NoWrite
    <2> QED
        BY <2>1, <1>1
<1>5. ASSUME LookUp(c) PROVE Frame(c)
    <2>1. Goes(c, 1) /\ UNCHANGED <<uuid, pend, out>> /\ \E t, i : Return(c, t, i)
        BY <1>5 DEF LookUp, Ready, Untouched, Goes, NoWrite, Go
    <2> QED
        BY <2>1, <1>1
<1>6. ASSUME JudgeConversation(c) PROVE Frame(c)
    <2>1. Here(c).do \in Branches /\ Running(c)
        BY <1>6 DEF JudgeConversation, Ready, Branches
    <2>2. \E n : (n = 1 \/ n = Here(c).skip + 1) /\ \E g, N : Step(c, n, g, N)
        BY <1>6 DEF JudgeConversation, Go
    <2>3. UNCHANGED <<ids, cache>> \/ \E t, i : Return(c, t, i)
        BY <1>6 DEF JudgeConversation, KeepIds
    <2>4. UNCHANGED <<dialect, play, schema, aborted, cancelled, faults, uuid, pend, out>>
        BY <1>6 DEF JudgeConversation, Untouched, NoWrite
    <2>5. \E n : Goes(c, n)
        BY <2>1, <2>2, <2>4 DEF Goes
    <2> QED
        BY <2>3, <2>4, <2>5, <1>1
<1>7. ASSUME ReadMessages(c) PROVE Frame(c)
    <2>1. Ready(c, {"read_ordered", "read_unordered"}) /\ Go(c, 1) /\ Untouched /\ KeepIds /\ NoWrite
        BY <1>7 DEF ReadMessages
    <2>2. \E v : out' = [out EXCEPT ![c] = v]
        BY <1>7 DEF ReadMessages
    <2>3. Goes(c, 1) /\ UNCHANGED <<uuid, pend, ids, cache>>
        BY <2>1 DEF Ready, Untouched, Goes, Go, KeepIds, NoWrite
    <2> QED
        BY <2>2, <2>3, <1>3
<1>8. ASSUME NoteIds(c) PROVE Frame(c)
    <2>1. Ready(c, {"read_ids", "note_orphans", "note_used"}) /\ Untouched /\ NoWrite
          /\ UNCHANGED <<ids, cache, out>> /\ \E N : Step(c, 1, got[c], N)
        BY <1>8 DEF NoteIds
    <2>2. Goes(c, 1) /\ UNCHANGED <<uuid, pend, ids, cache, out>>
        BY <2>1 DEF Ready, Untouched, Goes, NoWrite
    <2> QED
        BY <2>2, <1>1
<1>9. ASSUME ReadNoted(c) PROVE Frame(c)
    <2>1. Goes(c, 1) /\ UNCHANGED <<uuid, pend, ids, cache>>
        BY <1>9 DEF ReadNoted, Ready, Untouched, Goes, Go, KeepIds, NoWrite
    <2>2. \E v : out' = [out EXCEPT ![c] = v]
        BY <1>9 DEF ReadNoted
    <2> QED
        BY <2>1, <2>2, <1>3
<1>10. ASSUME InsertRow(c) PROVE Frame(c)
    <2>1. Goes(c, 1) /\ UNCHANGED <<uuid, out>> /\ \E add, remove : Write(c, add, remove)
        BY <1>10 DEF InsertRow, Ready, Untouched, Goes, Go
    <2>2. UNCHANGED <<ids, cache>> \/ \E t, i : Return(c, t, i)
        BY <1>10 DEF InsertRow, KeepIds
    <2> QED
        BY <2>1, <2>2, <1>2
<1>11. ASSUME CountRow(c) PROVE Frame(c)
    <2>1. Goes(c, 1) /\ UNCHANGED <<uuid, out, ids, cache>> /\ \E add, remove : Write(c, add, remove)
        BY <1>11 DEF CountRow, Ready, Untouched, Goes, Go
    <2> QED
        BY <2>1, <1>2
<1>12. ASSUME WriteNothing(c) PROVE Frame(c)
    <2>1. Goes(c, 1) /\ UNCHANGED <<uuid, out, pend>>
        BY <1>12 DEF WriteNothing, Ready, Untouched, Goes, Go, NoWrite
    <2>2. UNCHANGED <<ids, cache>> \/ \E t, i : Return(c, t, i)
        BY <1>12 DEF WriteNothing, KeepIds
    <2> QED
        BY <2>1, <2>2, <1>1
<1>13. ASSUME EraseRows(c) PROVE Frame(c)
    <2>1. Goes(c, 1) /\ UNCHANGED <<uuid, out, ids, cache>> /\ \E add, remove : Write(c, add, remove)
        BY <1>13 DEF EraseRows, Ready, Untouched, Goes, Go
    <2> QED
        BY <2>1, <1>2
<1>14. ASSUME CommitWork(c) PROVE Frame(c)
    <2>1. Goes(c, 1) /\ UNCHANGED <<uuid, out, ids, cache>>
        BY <1>14 DEF CommitWork, Ready, Untouched, Goes, Go
    <2>2. Apart(pend, pend', Conn(c))
        BY <1>14, KeepFrames DEF CommitWork
    <2> QED
        BY <2>1, <2>2, KeepFrames, DoneFrames
<1>15. ASSUME Decide(c) PROVE Frame(c)
    <2>1. Here(c).do \in Branches /\ Running(c)
        BY <1>15 DEF Decide, Ready, Branches
    <2>2. \E n : (n = 1 \/ n = Here(c).skip + 1) /\ \E g, N : Step(c, n, g, N)
        BY <1>15 DEF Decide, Go
    <2>3. UNCHANGED <<dialect, play, schema, aborted, cancelled, faults, uuid, pend, out, ids, cache>>
        BY <1>15 DEF Decide, Untouched, NoWrite
    <2>4. \E n : Goes(c, n)
        BY <2>1, <2>2, <2>3 DEF Goes
    <2> QED
        BY <2>3, <2>4, <1>1
<1>16. ASSUME ChangeSession(c) PROVE Frame(c)
    <2>1. Goes(c, 1) /\ UNCHANGED <<out, ids, pend>>
        BY <1>16 DEF ChangeSession, Ready, Goes, Go, NoWrite
    <2>2. UNCHANGED cache \/ \E v : cache' = [cache EXCEPT ![c] = v]
        BY <1>16 DEF ChangeSession
    <2>3. \E v : uuid' = [uuid EXCEPT ![c] = v]
        BY <1>16 DEF ChangeSession
    <2>4. Apart(cache, cache', c) /\ Apart(ids, ids', c)
        BY <2>1, <2>2, KeepFrames
    <2>5. FrameJob(c)
        BY <2>1, StepFrames DEF Goes
    <2> QED
        BY <2>1, <2>3, <2>4, <2>5, KeepFrames DEF Goes, Frame, FrameIds, FrameRest, FrameData
<1>17. ASSUME Begin(c) \/ RestartTransaction(c) \/ Raises(c) PROVE Frame(c)
    BY <1>17, RaiseFrames, BeginFrames, RestartFrames
<1>18. ASSUME TakeNothing(c) \/ JudgeRaises(c) \/ InsertRaises(c) \/ AbortedRaises(c) \/ DeadlockVictim(c)
                \/ LockTimeout(c) \/ StatementFails(c)
       PROVE  Raises(c)
    <2>1. (dialect # "oracle") \in BOOLEAN
        OBVIOUS
    <2> QED
        BY <1>18, <2>1 DEF TakeNothing, JudgeRaises, InsertRaises, AbortedRaises, DeadlockVictim, LockTimeout,
                           StatementFails, CanFail, Raises, Ready
<1> QED
    BY <1>4, <1>5, <1>6, <1>7, <1>8, <1>9, <1>10, <1>11, <1>12, <1>13, <1>14, <1>15, <1>16, <1>17, <1>18
       DEF Act, Fail

-----------------------------------------------------------------------------
(* The rest of a program after n statements.                               *)
After(s, n) == SubSeq(s, n + 1, Len(s))

LEMMA AfterIs ==
    ASSUME NEW S, NEW s \in Seq(S), NEW n \in 1 .. Len(s)
    PROVE  /\ After(s, n) \in Seq(S) /\ Len(s) \in Nat
           /\ Len(After(s, n)) = Len(s) - n
           /\ \A i \in 1 .. Len(s) - n : After(s, n)[i] = s[i + n]
           /\ After(s, n) = <<>> <=> n = Len(s)
<1>1. Len(s) \in Nat /\ n + 1 \in 1 .. Len(s) + 1
    OBVIOUS
<1>2. /\ After(s, n) \in Seq(S)
      /\ Len(After(s, n)) = IF n + 1 <= Len(s) THEN Len(s) - (n + 1) + 1 ELSE 0
      /\ \A i \in 1 .. Len(s) - (n + 1) + 1 : After(s, n)[i] = s[(n + 1) + i - 1]
    BY <1>1, SubSeqProperties DEF After
<1>3. Len(After(s, n)) = Len(s) - n
    BY <1>1, <1>2
<1>4. ASSUME NEW i \in 1 .. Len(s) - n PROVE After(s, n)[i] = s[i + n]
    <2>1. i \in 1 .. Len(s) - (n + 1) + 1 /\ (n + 1) + i - 1 = i + n
        BY <1>1
    <2> QED
        BY <1>2, <2>1
<1>5. After(s, n) = <<>> <=> Len(After(s, n)) = 0
    BY <1>2, EmptySeq
<1> QED
    BY <1>1, <1>2, <1>3, <1>4, <1>5

LEMMA AfterIsTidy ==
    ASSUME NEW m \in BOOLEAN, NEW S, S \subseteq Stmt, NEW s \in Seq(S), NEW n \in 1 .. Len(s), Tidy(m, s)
    PROVE  Tidy(m, After(s, n))
<1> DEFINE u == After(s, n)
<1>1. /\ Len(s) \in Nat /\ Len(u) = Len(s) - n /\ \A i \in 1 .. Len(u) : u[i] = s[i + n]
    BY AfterIs
<1> HIDE DEF u
<1>2. ASSUME NEW i \in 1 .. Len(u) PROVE TidyAt(m, u, i)
    <2> DEFINE k == i + n
    <2>1. k \in 1 .. Len(s) /\ u[i] = s[k] /\ i \in Nat /\ k \in Nat /\ s[k] \in Stmt
        BY <1>1
    <2>2. TidyAt(m, s, k) /\ s[k].skip \in Nat
        BY <2>1, StatementIs DEF Tidy
    <2>3. u[i].do \in Branches =>
             /\ i + u[i].skip <= Len(u)
             /\ i + u[i].skip < Len(u) => u[i + u[i].skip + 1].do \notin Bound
        <3> DEFINE z == s[k].skip
        <3>1. z \in Nat
            BY <2>2
        <3>2. s[k].do \in Branches => k + z <= Len(s) /\ (k + z < Len(s) => s[k + z + 1].do \notin Bound)
            BY <2>2 DEF TidyAt
        <3> HIDE DEF z
        <3>3. k + z <= Len(s) => i + z <= Len(u)
            BY <3>1, <1>1
        <3>4. i + z < Len(u) => k + z < Len(s) /\ u[i + z + 1] = s[k + z + 1]
            <4>1. i + z < Len(u) => i + z + 1 \in 1 .. Len(u) /\ (i + z + 1) + n = k + z + 1 /\ k + z < Len(s)
                BY <3>1, <1>1
            <4>2. i + z < Len(u) => u[i + z + 1] = s[(i + z + 1) + n]
                BY <4>1, <1>1
            <4> HIDE DEF k
            <4> QED
                BY <4>1, <4>2
        <3> QED
            BY <3>2, <3>3, <3>4, <2>1 DEF z
    <2>4. i > 1 => u[i - 1] = s[k - 1]
        <3>1. i > 1 => i - 1 \in 1 .. Len(u) /\ (i - 1) + n = k - 1
            BY <1>1
        <3> QED
            BY <3>1, <1>1
    <2>5. k < Len(s) => i < Len(u) /\ u[i + 1] = s[k + 1]
        <3>1. k < Len(s) => i + 1 \in 1 .. Len(u) /\ (i + 1) + n = k + 1
            BY <1>1
        <3> QED
            BY <3>1, <1>1
    <2>6. i > 1 /\ u[i].do \in Bound => k > 1 /\ u[i - 1] = s[k - 1]
        BY <2>4, <1>1
    <2> HIDE DEF k
    <2> QED
        BY <2>1, <2>2, <2>3, <2>5, <2>6, TidyMoves
<1> QED
    BY <1>2 DEF Tidy, u

LEMMA AfterIsTurn ==
    ASSUME NEW s \in Seq(Stmt), TurnShape(s), NEW n \in 1 .. Len(s) - 1,
           n = 1 \/ (s[1].do \in Branches /\ n = s[1].skip + 1)
    PROVE  TurnShape(After(s, n))
<1> DEFINE u == After(s, n)
           l == Len(s)
<1>1. l \in Nat /\ Len(u) = l - n /\ Len(u) >= 1 /\ \A i \in 1 .. l - n : u[i] = s[i + n]
    <2>1. n \in 1 .. Len(s) /\ Len(s) \in Nat
        OBVIOUS
    <2>2. Len(u) = l - n /\ \A i \in 1 .. l - n : u[i] = s[i + n]
        BY <2>1, AfterIs
    <2> HIDE DEF u
    <2> QED
        BY <2>1, <2>2
<1>2. s[1] \in Stmt /\ s[1].skip \in Nat
    BY <1>1, StatementIs
<1> HIDE DEF u
<1>3. /\ u[l - n] = s[l]
      /\ l - n >= 2 => u[l - n - 1] = s[l - 1]
      /\ l - n >= 3 => u[l - n - 2] = s[l - 2]
    <2>1. l - n \in 1 .. l - n /\ (l - n) + n = l
        BY <1>1
    <2>2. l - n >= 2 => l - n - 1 \in 1 .. l - n /\ (l - n - 1) + n = l - 1
        BY <1>1
    <2>3. l - n >= 3 => l - n - 2 \in 1 .. l - n /\ (l - n - 2) + n = l - 2
        BY <1>1
    <2> QED
        BY <1>1, <2>1, <2>2, <2>3
<1>4. /\ s[l].do = "commit"
      /\ l >= 2 => MessageAdd(s[l - 1]) /\ s[l - 1].datum = "answer"
      /\ l >= 3 => MessageAdd(s[l - 2]) /\ s[l - 2].datum = "question"
      /\ \A i \in 1 .. l - 3 : ~MessageAdd(s[i]) /\ (s[i].do \in Branches => i + s[i].skip <= l - 3)
    BY DEF TurnShape
<1>5. ASSUME NEW i \in 1 .. (l - n) - 3
      PROVE  ~MessageAdd(u[i]) /\ (u[i].do \in Branches => i + u[i].skip <= (l - n) - 3)
    <2>1. i + n \in 1 .. l - 3 /\ i \in 1 .. l - n /\ u[i] = s[i + n]
        BY <1>1
    <2>2. s[i + n] \in Stmt /\ s[i + n].skip \in Nat
        BY <2>1, <1>1, StatementIs
    <2>3. ~MessageAdd(s[i + n]) /\ (s[i + n].do \in Branches => (i + n) + s[i + n].skip <= l - 3)
        BY <1>4, <2>1
    <2> DEFINE z == s[i + n].skip
    <2>4. z \in Nat /\ ((i + n) + z <= l - 3 => i + z <= (l - n) - 3)
        BY <2>2, <1>1
    <2> QED
        BY <2>1, <2>3, <2>4
<1>6. TurnShape(u)
    <2>1. u[l - n].do = "commit"
        BY <1>3, <1>4
    <2>2. l - n >= 2 => MessageAdd(u[l - n - 1]) /\ u[l - n - 1].datum = "answer"
        BY <1>1, <1>3, <1>4
    <2>3. l - n >= 3 => MessageAdd(u[l - n - 2]) /\ u[l - n - 2].datum = "question"
        BY <1>1, <1>3, <1>4
    <2> QED
        BY <1>1, <1>5, <2>1, <2>2, <2>3 DEF TurnShape
<1> QED
    BY <1>6 DEF u

LEMMA AfterIsClosed ==
    ASSUME NEW m \in BOOLEAN, NEW t, NEW s \in Seq(Stmt), NEW n \in 1 .. Len(s),
           NEW G \in SUBSET (1 .. Len(s) + 1), Closed(m, t, s, G)
    PROVE  LET H == {k \in 1 .. Len(After(s, n)) + 1 : k + n \in G}
           IN  Closed(m, t, After(s, n), H) /\ (n + 1 \in G => 1 \in H)
<1> DEFINE u == After(s, n)
           H == {k \in 1 .. Len(u) + 1 : k + n \in G}
<1>1. /\ Len(s) \in Nat /\ Len(u) = Len(s) - n /\ \A i \in 1 .. Len(u) : u[i] = s[i + n]
    BY AfterIs
<1> HIDE DEF u
<1>2. n + 1 \in G => 1 \in H
    BY <1>1
<1>3. ASSUME NEW i \in 1 .. Len(u)
      PROVE  /\ i \in H =>
                /\ ~Uses(t, u[i])
                /\ Gives(m, t, u[i]) \/ i + 1 \in H
                /\ u[i].do \in Branches => Knows(t, u[i]) \/ i + u[i].skip + 1 \in H
             /\ Looks(t, u[i]) => i + 1 \in H
    <2> DEFINE k == i + n
    <2>1. k \in 1 .. Len(s) /\ u[i] = s[k] /\ s[k] \in Stmt
        BY <1>1
    <2>2. s[k].skip \in Nat
        BY <2>1, StatementIs
    <2>3. /\ k \in G =>
             /\ ~Uses(t, s[k])
             /\ Gives(m, t, s[k]) \/ k + 1 \in G
             /\ s[k].do \in Branches => Knows(t, s[k]) \/ k + s[k].skip + 1 \in G
          /\ Looks(t, s[k]) => k + 1 \in G
        BY <2>1 DEF Closed
    <2>4. k + 1 \in G => i + 1 \in H
        BY <1>1
    <2> DEFINE z == s[k].skip
    <2>5. z \in Nat /\ (k + z + 1 \in G => i + z + 1 \in H)
        <3>1. z \in Nat
            BY <2>2
        <3> HIDE DEF z
        <3>2. k + z + 1 = (i + z + 1) + n
            BY <3>1, <1>1
        <3>3. k + z + 1 \in G => k + z + 1 <= Len(s) + 1
            BY <3>1, <1>1
        <3>4. k + z + 1 \in G => i + z + 1 \in 1 .. Len(u) + 1
            BY <3>1, <3>3, <1>1
        <3> QED
            BY <3>1, <3>2, <3>4
    <2>6. i \in H => k \in G
        OBVIOUS
    <2> QED
        BY <2>1, <2>3, <2>4, <2>5, <2>6
<1>4. Closed(m, t, u, H)
    BY <1>3 DEF Closed
<1> QED
    BY <1>2, <1>4 DEF u

-----------------------------------------------------------------------------
(* What is left after a step.                                              *)
LEMMA GoesOn ==
    ASSUME NEW c \in Clients, TypeInv, TodoInv, NEW n, Goes(c, n)
    PROVE  /\ n \in 1 .. Len(todo[c])
           /\ todo' = [todo EXCEPT ![c] = After(todo[c], n)]
           /\ todo'[c] = After(todo[c], n)
           /\ job' = job /\ before' = before
           /\ IF n = Len(todo[c])
              THEN /\ outcome' = [outcome EXCEPT ![c] = Append(outcome[c], "ok")]
                   /\ todo'[c] = <<>> /\ noted' = [noted EXCEPT ![c] = {}] /\ got' = [got EXCEPT ![c] = 0]
              ELSE todo'[c] # <<>> /\ outcome' = outcome
<1>1. /\ Len(todo[c]) \in Nat /\ Len(todo[c]) >= 1 /\ todo[c] \in Seq(Stmt) /\ Here(c).skip \in Nat
      /\ Here(c).do \in Branches => Here(c).skip + 1 <= Len(todo[c])
    BY HereIs DEF Goes
<1>2. n \in 1 .. Len(todo[c])
    BY <1>1 DEF Goes
<1>3. PICK g, N : Step(c, n, g, N)
    BY DEF Goes
<1>4. todo = [d \in Clients |-> todo[d]]
    BY DEF TypeInv
<1>5. After(todo[c], n) = <<>> <=> n = Len(todo[c])
    BY <1>1, <1>2, AfterIs
<1>6. CASE n = Len(todo[c])
    BY <1>2, <1>3, <1>4, <1>5, <1>6 DEF Step, EndJob
<1>7. CASE n # Len(todo[c])
    <2>1. todo' = [todo EXCEPT ![c] = After(todo[c], n)] /\ UNCHANGED <<job, outcome, before>>
        BY <1>3, <1>7 DEF Step, After
    <2> QED
        BY <1>2, <1>4, <1>5, <1>7, <2>1
<1> QED
    BY <1>6, <1>7

-----------------------------------------------------------------------------
(* What a statement that is done leaves in the client.                     *)
Grows == last' \in [Tables -> Nat] /\ \A t \in Tables : last[t] <= last'[t]

\* It returns the id of a row of its table, or the ids stay.
IdsBy(c, n) ==
    \/ /\ UNCHANGED ids
       /\ cache' = cache \/ cache' = [cache EXCEPT ![c] = NoIds]
       /\ \A t \in {"session", "conversation"} : ~Gives(Mongo, t, Here(c))
       /\ n = 1 \/ (Here(c).do = "unless" /\ ids[c][Here(c).table] # 0) \/ Here(c).do = "when"
    \/ \E i \in 0 .. last'[Here(c).table] :
          /\ Return(c, Here(c).table, i) /\ Here(c).table \in Tables
          /\ i # 0 \/ Here(c).do = "look" \/ Here(c).table \in Learned
          /\ n = 1 \/ Here(c).do = "return_recent"

GotBy(c, n) ==
    \/ n = Len(todo[c])
    \/ IF Here(c).do = "find" THEN got'[c] \in 0 .. last[Here(c).table] ELSE got'[c] = got[c]

NotedBy(c) == \A r \in noted'[c] : r.table \in Erasable

By(c, n) == Goes(c, n) /\ IdsBy(c, n) /\ GotBy(c, n) /\ NotedBy(c) /\ Grows

LEMMA ViewIs ==
    ASSUME NEW c \in Clients, StoreInv
    PROVE  /\ \A r \in View(c) : IsRow(r)
           /\ View(c) = ViewOf(Conn(c))
BY ConnectionIs DEF View, ViewOf, New, Gone, StoreInv

LEMMA FoundAre ==
    ASSUME NEW c \in Clients, TypeInv, StoreInv, NEW i \in FoundIds(c), Here(c).table \in Tables
    PROVE  i \in Nat /\ i \in 0 .. last[Here(c).table] /\ (FoundIds(c) # {0} => i # 0)
           /\ (i # 0 => \E r \in Matches(c, Here(c).table) : r.id = i)
<1>1. last[Here(c).table] \in Nat
    BY DEF TypeInv
<1>2. \A r \in Matches(c, Here(c).table) : r.table = Here(c).table /\ r.id \in 1 .. last[r.table]
    BY ViewIs DEF Matches, IsRow
<1>3. \A r \in Matches(c, Here(c).table) : r.id \in 1 .. last[Here(c).table]
    BY <1>2
<1> QED
    BY <1>1, <1>3 DEF FoundIds

\* The statement keeps to the number of the id and to what was noted.
LEMMA StepLeaves ==
    ASSUME NEW c \in Clients, TypeInv, StoreInv, NEW n, NEW g, NEW N, Step(c, n, g, N),
           \A r \in N : r.table \in Erasable
    PROVE  NotedBy(c) /\ (n = Len(todo[c]) \/ got'[c] = g)
<1>1. DOMAIN noted = Clients /\ DOMAIN got = Clients
    <2>1. noted = [d \in Clients |-> noted[d]] /\ got \in [Clients -> Nat]
        BY DEF TypeInv
    <2> QED
        BY <2>1
<1> QED
    BY <1>1 DEF Step, EndJob, NotedBy

LEMMA GoLeaves ==
    ASSUME NEW c \in Clients, TypeInv, StoreInv, NEW n, Go(c, n)
    PROVE  NotedBy(c) /\ (n = Len(todo[c]) \/ got'[c] = got[c])
<1>1. \A r \in noted[c] : r.table \in Erasable
    BY DEF StoreInv
<1> QED
    BY <1>1, StepLeaves DEF Go

LEMMA LastStays ==
    ASSUME TypeInv, UNCHANGED last
    PROVE  Grows
<1>1. last \in [Tables -> Nat]
    BY DEF TypeInv
<1> QED
    BY <1>1 DEF Grows

LEMMA FindRowBy ==
    ASSUME NEW c \in Clients, TypeInv, TodoInv, StoreInv, FindRow(c)
    PROVE  By(c, 1)
<1>1. Running(c) /\ Here(c).do = "find"
    BY DEF FindRow, Ready
<1>2. Here(c).table \in Tables
    BY <1>1, HereIs DEF Proper, Ends
<1>3. PICK i \in FoundIds(c) : Step(c, 1, i, noted[c])
    BY DEF FindRow
<1>4. Goes(c, 1) /\ UNCHANGED <<ids, cache, last>>
    BY <1>1, <1>3 DEF FindRow, Goes, Untouched, NoWrite
<1>5. i \in 0 .. last[Here(c).table]
    BY <1>2, FoundAre
<1>6. NotedBy(c) /\ (1 = Len(todo[c]) \/ got'[c] = i)
    BY <1>3, StepLeaves DEF StoreInv
<1>7. IdsBy(c, 1)
    BY <1>1, <1>4 DEF IdsBy, Gives
<1>8. GotBy(c, 1)
    BY <1>1, <1>5, <1>6 DEF GotBy
<1> QED
    BY <1>4, <1>6, <1>7, <1>8, LastStays DEF By

LEMMA LookUpBy ==
    ASSUME NEW c \in Clients, TypeInv, TodoInv, StoreInv, LookUp(c)
    PROVE  By(c, 1)
<1>1. Running(c) /\ Here(c).do \in {"look", "take"} /\ (Here(c).do = "take" => FoundIds(c) # {0})
      /\ Go(c, 1) /\ UNCHANGED last
    BY DEF LookUp, Ready, NoWrite
<1>2. Here(c).table \in Tables
    BY <1>1, HereIs DEF Proper, Ends
<1>3. PICK i \in FoundIds(c) : Return(c, Here(c).table, i)
    BY DEF LookUp
<1>4. Goes(c, 1)
    BY <1>1 DEF LookUp, Goes, Untouched, Go
<1>5. i \in 0 .. last'[Here(c).table] /\ (i # 0 \/ Here(c).do = "look")
    BY <1>1, <1>2, FoundAre
<1>6. IdsBy(c, 1)
    BY <1>2, <1>3, <1>5 DEF IdsBy
<1>7. NotedBy(c) /\ GotBy(c, 1)
    BY <1>1, GoLeaves DEF GotBy
<1> QED
    BY <1>1, <1>4, <1>6, <1>7, LastStays DEF By

LEMMA JudgeConversationBy ==
    ASSUME NEW c \in Clients, TypeInv, TodoInv, StoreInv, JudgeConversation(c)
    PROVE  \E n : By(c, n)
<1>1. Running(c) /\ Here(c).do = "return_recent" /\ UNCHANGED last
    BY DEF JudgeConversation, Ready, NoWrite
<1>2. Here(c).table = "conversation" /\ "conversation" \in Tables
    BY <1>1, HereIs, TablesAre DEF Proper, Four
<1>3. got[c] \in Nat /\ got[c] <= last["conversation"]
    BY <1>1, <1>2 DEF StoreInv, TypeInv
<1>4. CASE got[c] # 0 /\ Return(c, "conversation", got[c]) /\ Go(c, Here(c).skip + 1)
    <2> DEFINE n == Here(c).skip + 1
    <2>1. Goes(c, n)
        BY <1>1, <1>4 DEF JudgeConversation, Goes, Untouched, Go, Branches
    <2>2. got[c] \in 0 .. last'["conversation"]
        BY <1>1, <1>2, <1>3 DEF TypeInv
    <2>3. IdsBy(c, n)
        BY <1>1, <1>2, <1>4, <2>2 DEF IdsBy
    <2>4. NotedBy(c) /\ GotBy(c, n)
        BY <1>1, <1>4, GoLeaves DEF GotBy
    <2> QED
        BY <1>1, <2>1, <2>3, <2>4, LastStays DEF By
<1>5. CASE KeepIds /\ Go(c, 1)
    <2>1. Goes(c, 1)
        BY <1>1, <1>5 DEF JudgeConversation, Goes, Untouched, Go
    <2>2. IdsBy(c, 1)
        BY <1>1, <1>5 DEF IdsBy, KeepIds, Gives
    <2>3. NotedBy(c) /\ GotBy(c, 1)
        BY <1>1, <1>5, GoLeaves DEF GotBy
    <2> QED
        BY <1>1, <2>1, <2>2, <2>3, LastStays DEF By
<1> QED
    BY <1>4, <1>5 DEF JudgeConversation

LEMMA ReadMessagesBy ==
    ASSUME NEW c \in Clients, TypeInv, TodoInv, StoreInv, ReadMessages(c)
    PROVE  By(c, 1)
<1>1. Ready(c, {"read_ordered", "read_unordered"}) /\ Go(c, 1) /\ KeepIds /\ NoWrite /\ Untouched
    BY DEF ReadMessages
<1>2. Running(c) /\ Here(c).do \in {"read_ordered", "read_unordered"}
    BY <1>1 DEF Ready
<1>3. Goes(c, 1)
    BY <1>1, <1>2 DEF Goes, Untouched, Go
<1>4. IdsBy(c, 1)
    BY <1>1, <1>2 DEF IdsBy, KeepIds, Gives
<1>5. NotedBy(c) /\ GotBy(c, 1)
    BY <1>1, <1>2, GoLeaves DEF GotBy
<1>6. UNCHANGED last
    BY <1>1 DEF NoWrite
<1> QED
    BY <1>3, <1>4, <1>5, <1>6, LastStays DEF By

LEMMA NoteIdsBy ==
    ASSUME NEW c \in Clients, TypeInv, TodoInv, StoreInv, NoteIds(c)
    PROVE  By(c, 1)
<1>1. Ready(c, {"read_ids", "note_orphans", "note_used"}) /\ UNCHANGED <<ids, cache>> /\ NoWrite /\ Untouched
    BY DEF NoteIds
<1>2. Running(c) /\ Here(c).do \in {"read_ids", "note_orphans", "note_used"}
    BY <1>1 DEF Ready
<1> DEFINE t == Here(c).table
           seen == CASE Here(c).do = "read_ids" ->
                           {r \in InTable(c, t) : r.cols["entity_id"] = ids[c].entity}
                     [] Here(c).do = "note_orphans" -> InTable(c, t) \ Used(c, t)
                     [] Here(c).do = "note_used" -> Used(c, t)
           N == {r \in noted[c] : r.table # t} \cup seen
<1>3. Step(c, 1, got[c], N)
    BY DEF NoteIds
<1>4. \A r \in seen : r.table = t
    BY <1>2 DEF InTable, Used
<1>5. t \in Erasable
    BY <1>2, HereIs DEF Proper, Notes
<1> HIDE DEF seen
<1>6. \A r \in N : r.table \in Erasable
    BY <1>4, <1>5 DEF StoreInv
<1> HIDE DEF N, t
<1>7. Goes(c, 1)
    BY <1>1, <1>2, <1>3 DEF Goes, Untouched
<1>8. IdsBy(c, 1)
    BY <1>1, <1>2 DEF IdsBy, Gives
<1>9. NotedBy(c) /\ GotBy(c, 1)
    BY <1>2, <1>3, <1>6, StepLeaves DEF GotBy
<1>10. UNCHANGED last
    BY <1>1 DEF NoWrite
<1> QED
    BY <1>7, <1>8, <1>9, <1>10, LastStays DEF By

LEMMA ReadNotedBy ==
    ASSUME NEW c \in Clients, TypeInv, TodoInv, StoreInv, ReadNoted(c)
    PROVE  By(c, 1)
<1>1. Ready(c, {"read_rows"}) /\ Go(c, 1) /\ KeepIds /\ NoWrite /\ Untouched
    BY DEF ReadNoted
<1>2. Running(c) /\ Here(c).do = "read_rows"
    BY <1>1 DEF Ready
<1>3. Goes(c, 1)
    BY <1>1, <1>2 DEF Goes, Untouched, Go
<1>4. IdsBy(c, 1)
    BY <1>1, <1>2 DEF IdsBy, KeepIds, Gives
<1>5. NotedBy(c) /\ GotBy(c, 1)
    BY <1>1, <1>2, GoLeaves DEF GotBy
<1>6. UNCHANGED last
    BY <1>1 DEF NoWrite
<1> QED
    BY <1>3, <1>4, <1>5, <1>6, LastStays DEF By

LEMMA InsertRowBy ==
    ASSUME NEW c \in Clients, TypeInv, TodoInv, StoreInv, InsertRow(c)
    PROVE  /\ By(c, 1)
           /\ Here(c).table \in Tables /\ last'[Here(c).table] = last[Here(c).table] + 1
           /\ \A t \in Tables \ {Here(c).table} : last'[t] = last[t]
<1> DEFINE t == Here(c).table
<1>1. /\ Running(c) /\ Here(c).do \in Adds /\ Go(c, 1) /\ Untouched
      /\ last' = [last EXCEPT ![t] = NewId(t)]
      /\ IF dialect = "mongodb" THEN Return(c, t, NewId(t)) ELSE KeepIds
    BY DEF InsertRow, Ready
<1>2. t \in Tables
    BY <1>1, HereIs DEF Proper, Ends, Adds
<1> HIDE DEF t
<1>3. /\ last \in [Tables -> Nat] /\ last' \in [Tables -> Nat] /\ last'[t] = last[t] + 1
      /\ \A u \in Tables \ {t} : last'[u] = last[u]
    BY <1>1, <1>2 DEF TypeInv, NewId
<1>4. Grows
    BY <1>2, <1>3 DEF Grows
<1>5. Goes(c, 1)
    BY <1>1 DEF Goes, Untouched, Go
<1>6. IdsBy(c, 1)
    <2>1. CASE dialect = "mongodb"
        <3>1. NewId(t) \in 0 .. last'[t] /\ NewId(t) # 0
            BY <1>2, <1>3 DEF NewId
        <3> QED
            BY <1>1, <1>2, <2>1, <3>1 DEF IdsBy, t
    <2>2. CASE dialect # "mongodb"
        BY <1>1, <2>2 DEF IdsBy, KeepIds, Gives, Mongo, Adds
    <2> QED
        BY <2>1, <2>2
<1>7. NotedBy(c) /\ GotBy(c, 1)
    BY <1>1, GoLeaves DEF GotBy, Adds
<1> QED
    BY <1>2, <1>3, <1>4, <1>5, <1>6, <1>7 DEF By, t

\* Which statements count rows.
LEMMA CountingIs ==
    ASSUME NEW c \in Clients, Counted(c) # {}
    PROVE  Here(c).do \in {"upsert", "count_found", "count_or_add", "update"}
BY DEF Counted

LEMMA CountRowBy ==
    ASSUME NEW c \in Clients, TypeInv, TodoInv, StoreInv, CountRow(c)
    PROVE  By(c, 1)
<1>1. Running(c) /\ Go(c, 1) /\ Untouched /\ UNCHANGED <<last, ids, cache>> /\ Counted(c) # {}
    BY DEF CountRow, Ready
<1>2. Here(c).do \in {"upsert", "count_found", "count_or_add", "update"}
    BY <1>1, CountingIs
<1>3. Goes(c, 1)
    BY <1>1 DEF Goes, Untouched, Go
<1>4. IdsBy(c, 1)
    BY <1>1, <1>2 DEF IdsBy, Gives
<1>5. NotedBy(c) /\ GotBy(c, 1)
    BY <1>1, <1>2, GoLeaves DEF GotBy
<1> QED
    BY <1>1, <1>3, <1>4, <1>5, LastStays DEF By

LEMMA WriteNothingBy ==
    ASSUME NEW c \in Clients, TypeInv, TodoInv, StoreInv, WriteNothing(c)
    PROVE  By(c, 1)
<1>1. /\ Running(c) /\ Here(c).do \in Adds \cup {"count_found", "update"} /\ Go(c, 1) /\ NoWrite /\ Untouched
      /\ IF dialect = "mongodb" /\ Here(c).do = "add_absent"
         THEN Return(c, Here(c).table, got[c]) ELSE KeepIds
    BY DEF WriteNothing, Ready
<1>2. UNCHANGED last
    BY <1>1 DEF NoWrite
<1>3. Goes(c, 1)
    BY <1>1 DEF Goes, Untouched, Go
<1>4. Here(c).table \in Tables
    BY <1>1, HereIs DEF Proper, Ends, Adds
<1>5. NotedBy(c) /\ GotBy(c, 1)
    BY <1>1, GoLeaves DEF GotBy, Adds
<1>6. CASE dialect = "mongodb" /\ Here(c).do = "add_absent"
    <2>1. got[c] \in 0 .. last'[Here(c).table]
        BY <1>1, <1>2, <1>4, <1>6 DEF StoreInv, TypeInv, Follows
    <2>2. got[c] # 0 \/ Here(c).table \in Learned
        <3>1. got[c] = 0 => Inserts(c)
            BY <1>6 DEF Inserts
        <3>2. got[c] = 0 => LeftOut(c)
            BY <1>6, <3>1 DEF WriteNothing, Ignores
        <3> QED
            BY <3>2 DEF LeftOut, Learned, Erasable
    <2>3. IdsBy(c, 1)
        BY <1>1, <1>4, <1>6, <2>1, <2>2 DEF IdsBy
    <2> QED
        BY <1>2, <1>3, <1>5, <2>3, LastStays DEF By
<1>7. CASE ~(dialect = "mongodb" /\ Here(c).do = "add_absent")
    <2>1. UNCHANGED <<ids, cache>>
        BY <1>1, <1>7 DEF KeepIds
    <2>2. ASSUME NEW t \in {"session", "conversation"}, Gives(Mongo, t, Here(c)) PROVE FALSE
        <3>1. Mongo /\ Here(c).do = "add" /\ Here(c).table = t
            BY <1>1, <1>7, <2>2 DEF Gives, Mongo, Adds
        <3>2. ~LeftOut(c) /\ Inserts(c) /\ ~Ignores
            BY <3>1 DEF LeftOut, Inserts, Ignores, Mongo
        <3> QED
            BY <3>2 DEF WriteNothing
    <2>3. IdsBy(c, 1)
        BY <2>1, <2>2 DEF IdsBy
    <2> QED
        BY <1>2, <1>3, <1>5, <2>3, LastStays DEF By
<1> QED
    BY <1>6, <1>7

LEMMA EraseRowsBy ==
    ASSUME NEW c \in Clients, TypeInv, TodoInv, StoreInv, EraseRows(c)
    PROVE  By(c, 1)
<1>1. Running(c) /\ Here(c).do \in Erases /\ Go(c, 1) /\ Untouched /\ UNCHANGED <<last, ids, cache>>
    BY DEF EraseRows, Ready
<1>2. Goes(c, 1)
    BY <1>1 DEF Goes, Untouched, Go
<1>3. IdsBy(c, 1)
    BY <1>1 DEF IdsBy, Gives, Erases
<1>4. NotedBy(c) /\ GotBy(c, 1)
    BY <1>1, GoLeaves DEF GotBy, Erases
<1> QED
    BY <1>1, <1>2, <1>3, <1>4, LastStays DEF By

LEMMA CommitWorkBy ==
    ASSUME NEW c \in Clients, TypeInv, TodoInv, StoreInv, CommitWork(c)
    PROVE  By(c, 1)
<1>1. Running(c) /\ Here(c).do = "commit" /\ Go(c, 1) /\ Untouched /\ UNCHANGED <<last, ids, cache>>
    BY DEF CommitWork, Ready
<1>2. Goes(c, 1)
    BY <1>1 DEF Goes, Untouched, Go
<1>3. IdsBy(c, 1)
    BY <1>1 DEF IdsBy, Gives
<1>4. NotedBy(c) /\ GotBy(c, 1)
    BY <1>1, GoLeaves DEF GotBy
<1> QED
    BY <1>1, <1>2, <1>3, <1>4, LastStays DEF By

LEMMA DecideBy ==
    ASSUME NEW c \in Clients, TypeInv, TodoInv, StoreInv, Decide(c)
    PROVE  \E n : By(c, n)
<1> DEFINE known == ids[c][Here(c).table] # 0
           n == IF (Here(c).do = "unless") = known THEN Here(c).skip + 1 ELSE 1
<1>1. Running(c) /\ Here(c).do \in {"unless", "when"} /\ Go(c, n) /\ Untouched /\ UNCHANGED <<ids, cache>> /\ NoWrite
    BY DEF Decide, Ready
<1>2. Goes(c, n)
    BY <1>1 DEF Goes, Untouched, Go, Branches
<1>3. n = 1 \/ (Here(c).do = "unless" /\ ids[c][Here(c).table] # 0) \/ Here(c).do = "when"
    BY <1>1
<1> HIDE DEF n
<1>4. IdsBy(c, n)
    BY <1>1, <1>3 DEF IdsBy, Gives
<1>5. NotedBy(c) /\ GotBy(c, n)
    BY <1>1, GoLeaves DEF GotBy
<1>6. UNCHANGED last
    BY <1>1 DEF NoWrite
<1> QED
    BY <1>2, <1>4, <1>5, <1>6, LastStays DEF By

LEMMA ChangeSessionBy ==
    ASSUME NEW c \in Clients, TypeInv, TodoInv, StoreInv, ChangeSession(c)
    PROVE  By(c, 1)
<1>1. /\ Running(c) /\ Here(c).do \in {"new_session", "set_session"} /\ Go(c, 1) /\ NoWrite
      /\ UNCHANGED <<dialect, play, schema, aborted, ids, cancelled, faults>>
      /\ cache' = cache \/ cache' = [cache EXCEPT ![c] = NoIds]
    BY DEF ChangeSession, Ready
<1>2. Goes(c, 1)
    BY <1>1 DEF Goes, Go
<1>3. IdsBy(c, 1)
    BY <1>1 DEF IdsBy, Gives
<1>4. NotedBy(c) /\ GotBy(c, 1)
    BY <1>1, GoLeaves DEF GotBy
<1>5. UNCHANGED last
    BY <1>1 DEF NoWrite
<1> QED
    BY <1>2, <1>3, <1>4, <1>5, LastStays DEF By

\* The statements that are done.
Doing(c) ==
    \/ FindRow(c) \/ LookUp(c) \/ JudgeConversation(c) \/ ReadMessages(c) \/ NoteIds(c) \/ ReadNoted(c)
    \/ InsertRow(c) \/ CountRow(c) \/ WriteNothing(c) \/ EraseRows(c) \/ CommitWork(c)
    \/ Decide(c) \/ ChangeSession(c)

LEMMA StepsAre ==
    ASSUME NEW c, Act(c) \/ Fail(c)
    PROVE  Begin(c) \/ RestartTransaction(c) \/ Raises(c) \/ Doing(c)
<1>1. (dialect # "oracle") \in BOOLEAN
    OBVIOUS
<1>2. ASSUME TakeNothing(c) \/ JudgeRaises(c) \/ InsertRaises(c) \/ AbortedRaises(c) \/ DeadlockVictim(c)
               \/ LockTimeout(c) \/ StatementFails(c)
      PROVE  Raises(c)
    BY <1>1, <1>2 DEF TakeNothing, JudgeRaises, InsertRaises, AbortedRaises, DeadlockVictim, LockTimeout,
                      StatementFails, CanFail, Raises, Ready
<1> QED
    BY <1>2 DEF Act, Fail, Doing

LEMMA DoingIs ==
    ASSUME NEW c \in Clients, TypeInv, TodoInv, StoreInv, Doing(c)
    PROVE  \E n : By(c, n)
BY FindRowBy, LookUpBy, JudgeConversationBy, ReadMessagesBy, NoteIdsBy, ReadNotedBy, InsertRowBy, CountRowBy,
   WriteNothingBy, EraseRowsBy, CommitWorkBy, DecideBy, ChangeSessionBy DEF Doing

\* The id that is returned, and where it is kept.
LEMMA ReturnIs ==
    ASSUME NEW c \in Clients, TypeInv, NEW t \in Tables, NEW i \in Nat, Return(c, t, i)
    PROVE  /\ ids' \in [Clients -> [Tables -> Nat]] /\ cache' \in [Clients -> [Tables -> Nat]]
           /\ ids'[c][t] = i /\ \A u \in Tables \ {t} : ids'[c][u] = ids[c][u]
           /\ cache'[c][t] \in {i, cache[c][t]} /\ \A u \in Tables \ {t} : cache'[c][u] = cache[c][u]
           /\ \A d \in Clients \ {c} : ids'[d] = ids[d] /\ cache'[d] = cache[d]
<1>1. ids \in [Clients -> [Tables -> Nat]] /\ cache \in [Clients -> [Tables -> Nat]]
    BY DEF TypeInv
<1>2. ids' = [ids EXCEPT ![c] = [ids[c] EXCEPT ![t] = i]]
    BY DEF Return
<1>3. cache' = cache \/ cache' = [cache EXCEPT ![c] = [cache[c] EXCEPT ![t] = i]]
    BY DEF Return
<1>4. CASE cache' = cache
    BY <1>1, <1>2, <1>4
<1>5. CASE cache' = [cache EXCEPT ![c] = [cache[c] EXCEPT ![t] = i]]
    BY <1>1, <1>2, <1>5
<1> QED
    BY <1>3, <1>4, <1>5

LEMMA FunctionalIs ==
    ASSUME TypeInv
    PROVE  /\ Functional
           /\ DOMAIN job = Clients /\ DOMAIN todo = Clients /\ DOMAIN got = Clients /\ DOMAIN noted = Clients
           /\ DOMAIN outcome = Clients /\ DOMAIN before = Clients /\ DOMAIN tries = Clients
           /\ DOMAIN ids = Clients /\ DOMAIN cache = Clients /\ DOMAIN uuid = Clients /\ DOMAIN out = Clients
           /\ DOMAIN faults = Clients /\ DOMAIN pend = Connections /\ DOMAIN aborted = Connections
<1>1. /\ job \in [Clients -> Nat] /\ ids \in [Clients -> [Tables -> Nat]] /\ cache \in [Clients -> [Tables -> Nat]]
      /\ got \in [Clients -> Nat] /\ outcome \in [Clients -> Seq({"ok", "raised"})] /\ faults \in [Clients -> Nat]
      /\ aborted \in [Connections -> BOOLEAN]
    BY DEF TypeInv
<1>2. /\ todo = [c \in Clients |-> todo[c]] /\ uuid = [c \in Clients |-> uuid[c]]
      /\ noted = [c \in Clients |-> noted[c]] /\ out = [c \in Clients |-> out[c]]
      /\ before = [c \in Clients |-> before[c]] /\ tries = [c \in Clients |-> tries[c]]
      /\ pend = [n \in Connections |-> pend[n]]
    BY DEF TypeInv
<1>3. /\ DOMAIN todo = Clients /\ DOMAIN uuid = Clients /\ DOMAIN noted = Clients /\ DOMAIN out = Clients
      /\ DOMAIN before = Clients /\ DOMAIN tries = Clients /\ DOMAIN pend = Connections
    BY <1>2
<1>4. /\ DOMAIN job = Clients /\ DOMAIN ids = Clients /\ DOMAIN cache = Clients /\ DOMAIN got = Clients
      /\ DOMAIN outcome = Clients /\ DOMAIN faults = Clients /\ DOMAIN aborted = Connections
    BY <1>1
<1> QED
    BY <1>1, <1>2, <1>3, <1>4 DEF Functional

\* Other clients, and their connections, stay as they are.
LEMMA OthersStay ==
    ASSUME TypeInv, NEW c \in Clients, Frame(c), NEW d \in Clients \ {c}
    PROVE  /\ job'[d] = job[d] /\ todo'[d] = todo[d] /\ got'[d] = got[d] /\ noted'[d] = noted[d]
           /\ outcome'[d] = outcome[d] /\ ids'[d] = ids[d] /\ cache'[d] = cache[d] /\ uuid'[d] = uuid[d]
           /\ faults'[d] = faults[d] /\ out'[d] = out[d] /\ before'[d] = before[d]
           /\ \A k \in {"main", "writer"} :
                 /\ <<d, k>> \in Connections /\ pend'[<<d, k>>] = pend[<<d, k>>]
                 /\ aborted'[<<d, k>>] = aborted[<<d, k>>]
           /\ Running(d)' = Running(d) /\ Here(d)' = Here(d) /\ Job(d)' = Job(d) /\ Conn(d)' = Conn(d)
           /\ IsLearning(d)' = IsLearning(d)
<1>1. play' = play
    BY DEF Frame
<1>2. /\ job'[d] = job[d] /\ todo'[d] = todo[d] /\ got'[d] = got[d] /\ noted'[d] = noted[d]
      /\ outcome'[d] = outcome[d] /\ before'[d] = before[d]
    BY FunctionalIs DEF Frame, FrameJob, Apart
<1>3. ids'[d] = ids[d] /\ cache'[d] = cache[d]
    BY FunctionalIs DEF Frame, FrameIds, Apart
<1>4. uuid'[d] = uuid[d] /\ out'[d] = out[d] /\ faults'[d] = faults[d]
    BY FunctionalIs DEF Frame, FrameRest, Apart
<1>5. \A k \in {"main", "writer"} :
         /\ <<d, k>> \in Connections /\ pend'[<<d, k>>] = pend[<<d, k>>]
         /\ aborted'[<<d, k>>] = aborted[<<d, k>>]
    <2>1. \A k \in {"main", "writer"} : <<d, k>> \in Connections \ {Conn(c)}
        BY ConnectionIs
    <2> QED
        BY <2>1, FunctionalIs DEF Frame, FrameData, Apart
<1>6. Running(d)' = Running(d) /\ Here(d)' = Here(d) /\ Job(d)' = Job(d)
    BY <1>1, <1>2 DEF Running, Here, Job
<1>7. IsLearning(d)' = IsLearning(d)
    BY <1>6 DEF IsLearning
<1>8. Conn(d)' = Conn(d)
    BY <1>7 DEF Conn
<1> QED
    BY <1>2, <1>3, <1>4, <1>5, <1>6, <1>7, <1>8

\* The variables stay functions.
LEMMA ShapesStay ==
    ASSUME TypeInv, NEW c \in Clients, Frame(c)
    PROVE  /\ pend' = [n \in Connections |-> pend'[n]] /\ todo' = [d \in Clients |-> todo'[d]]
           /\ uuid' = [d \in Clients |-> uuid'[d]] /\ noted' = [d \in Clients |-> noted'[d]]
           /\ out' = [d \in Clients |-> out'[d]] /\ before' = [d \in Clients |-> before'[d]]
           /\ tries' = [d \in Clients |-> tries'[d]]
           /\ job' = [d \in Clients |-> job'[d]] /\ got' = [d \in Clients |-> got'[d]]
           /\ outcome' = [d \in Clients |-> outcome'[d]] /\ faults' = [d \in Clients |-> faults'[d]]
           /\ aborted' = [n \in Connections |-> aborted'[n]]
           /\ ids' = [d \in Clients |-> ids'[d]] /\ cache' = [d \in Clients |-> cache'[d]]
           /\ \A n \in Connections \ {Conn(c)} : pend'[n] = pend[n] /\ aborted'[n] = aborted[n]
<1>1. /\ Apart(job, job', c) /\ Apart(todo, todo', c) /\ Apart(got, got', c) /\ Apart(noted, noted', c)
      /\ Apart(outcome, outcome', c) /\ Apart(before, before', c) /\ Apart(tries, tries', c)
      /\ Apart(uuid, uuid', c) /\ Apart(out, out', c) /\ Apart(faults, faults', c)
      /\ Apart(pend, pend', Conn(c)) /\ Apart(aborted, aborted', Conn(c))
      /\ Apart(ids, ids', c) /\ Apart(cache, cache', c)
    BY DEF Frame, FrameJob, FrameIds, FrameRest, FrameData
<1>2. ASSUME NEW f, NEW g, NEW e, Apart(f, g, e)
      PROVE  g = [d \in DOMAIN f |-> g[d]] /\ \A n \in DOMAIN f \ {e} : g[n] = f[n]
    BY <1>2 DEF Apart
<1> QED
    BY <1>1, <1>2, FunctionalIs

LEMMA DoneTypes ==
    ASSUME TypeInv, TodoInv, StoreInv, NEW c \in Clients, NEW n, By(c, n), Frame(c)
    PROVE  TypeInv'
<1>1. Goes(c, n) /\ IdsBy(c, n) /\ GotBy(c, n) /\ NotedBy(c) /\ Grows
    BY DEF By
<1>2. UNCHANGED <<dialect, play, schema, aborted, cancelled, faults>> /\ Running(c)
    BY <1>1 DEF Goes
<1>3. /\ n \in 1 .. Len(todo[c]) /\ job' = job
      /\ IF n = Len(todo[c])
         THEN outcome' = [outcome EXCEPT ![c] = Append(outcome[c], "ok")] /\ todo'[c] = <<>> /\ got'[c] = 0
         ELSE todo'[c] # <<>> /\ outcome' = outcome
    <2>1. got \in [Clients -> Nat]
        BY DEF TypeInv
    <2> QED
        BY <1>1, <2>1, GoesOn
<1>4. /\ ids' \in [Clients -> [Tables -> Nat]] /\ cache' \in [Clients -> [Tables -> Nat]]
      /\ \A d \in Clients, t \in Tables : ids'[d][t] <= last'[t] /\ cache'[d][t] <= last'[t]
    <2>0. /\ ids \in [Clients -> [Tables -> Nat]] /\ cache \in [Clients -> [Tables -> Nat]]
          /\ \A d \in Clients, t \in Tables : ids[d][t] <= last[t] /\ cache[d][t] <= last[t]
          /\ last \in [Tables -> Nat] /\ last' \in [Tables -> Nat] /\ \A t \in Tables : last[t] <= last'[t]
        BY <1>1 DEF TypeInv, Grows
    <2>1. CASE UNCHANGED ids /\ (cache' = cache \/ cache' = [cache EXCEPT ![c] = NoIds])
        <3>1. NoIds \in [Tables -> Nat] /\ \A t \in Tables : NoIds[t] = 0
            BY DEF NoIds
        <3> HIDE DEF NoIds
        <3>2. cache' \in [Clients -> [Tables -> Nat]]
            BY <2>0, <2>1, <3>1
        <3>3. \A d \in Clients, t \in Tables : cache'[d][t] = cache[d][t] \/ cache'[d][t] = 0
            BY <2>0, <2>1, <3>1
        <3>4. ASSUME NEW d \in Clients, NEW t \in Tables PROVE ids'[d][t] <= last'[t] /\ cache'[d][t] <= last'[t]
            <4>1. /\ ids[d][t] \in Nat /\ cache[d][t] \in Nat /\ last[t] \in Nat /\ last'[t] \in Nat
                  /\ ids[d][t] <= last[t] /\ cache[d][t] <= last[t] /\ last[t] <= last'[t]
                BY <2>0
            <4> QED
                BY <2>1, <3>3, <4>1
        <3> QED
            BY <2>0, <2>1, <3>2, <3>4
    <2>2. CASE \E i \in 0 .. last'[Here(c).table] : Return(c, Here(c).table, i) /\ Here(c).table \in Tables
        <3> DEFINE t == Here(c).table
        <3>1. PICK i \in 0 .. last'[t] : Return(c, t, i) /\ t \in Tables
            BY <2>2
        <3>2. i \in Nat /\ i <= last'[t] /\ t \in Tables /\ Return(c, t, i)
            BY <2>0, <3>1
        <3> HIDE DEF t
        <3>3. /\ ids' \in [Clients -> [Tables -> Nat]] /\ cache' \in [Clients -> [Tables -> Nat]]
              /\ ids'[c][t] = i /\ \A u \in Tables \ {t} : ids'[c][u] = ids[c][u]
              /\ cache'[c][t] \in {i, cache[c][t]} /\ \A u \in Tables \ {t} : cache'[c][u] = cache[c][u]
              /\ \A d \in Clients \ {c} : ids'[d] = ids[d] /\ cache'[d] = cache[d]
            BY <3>2, ReturnIs
        <3>4. ASSUME NEW d \in Clients, NEW u \in Tables
              PROVE  ids'[d][u] <= last'[u] /\ cache'[d][u] <= last'[u]
            <4>1. /\ ids[d][u] \in Nat /\ cache[d][u] \in Nat /\ last[u] \in Nat /\ last'[u] \in Nat
                  /\ ids[d][u] <= last[u] /\ cache[d][u] <= last[u] /\ last[u] <= last'[u]
                BY <2>0
            <4>2. CASE u = t
                <5>1. ids'[d][u] \in {ids[d][u], i} /\ cache'[d][u] \in {cache[d][u], i}
                    BY <3>3, <4>2
                <5>2. i <= last'[u]
                    BY <3>2, <4>2
                <5> QED
                    BY <3>2, <4>1, <5>1, <5>2
            <4>3. CASE u # t
                <5>1. ids'[d][u] = ids[d][u] /\ cache'[d][u] = cache[d][u]
                    BY <3>3, <4>3
                <5> QED
                    BY <4>1, <5>1
            <4> QED
                BY <4>2, <4>3
        <3> QED
            BY <3>3, <3>4
    <2> QED
        BY <1>1, <2>1, <2>2 DEF IdsBy
<1>5. got' \in [Clients -> Nat]
    <2>1. got \in [Clients -> Nat] /\ got' = [d \in Clients |-> got'[d]] /\ last \in [Tables -> Nat]
        BY ShapesStay DEF TypeInv
    <2>2. got'[c] \in Nat
        <3>1. Here(c).do = "find" => Here(c).table \in Tables
            BY <1>2, HereIs DEF Proper, Ends
        <3> QED
            BY <1>1, <1>3, <2>1, <3>1 DEF GotBy
    <2>3. ASSUME NEW d \in Clients PROVE got'[d] \in Nat
        <3>1. CASE d = c
            BY <2>2, <3>1
        <3>2. CASE d # c
            <4>1. got'[d] = got[d]
                BY <3>2, OthersStay
            <4>2. got[d] \in Nat
                BY <2>1
            <4> QED
                BY <4>1, <4>2
        <3> QED
            BY <3>1, <3>2
    <2> QED
        BY <2>1, <2>3
<1>6. outcome' \in [Clients -> Seq({"ok", "raised"})]
    <2>1. outcome \in [Clients -> Seq({"ok", "raised"})]
        BY DEF TypeInv
    <2>2. Append(outcome[c], "ok") \in Seq({"ok", "raised"})
        BY <2>1
    <2> QED
        BY <1>3, <2>1, <2>2
<1>7. ASSUME NEW d \in Clients PROVE job'[d] = Len(outcome'[d]) + (IF Running(d)' THEN 1 ELSE 0)
    <2>1. /\ outcome \in [Clients -> Seq({"ok", "raised"})] /\ job \in [Clients -> Nat]
          /\ \A e \in Clients : job[e] = Len(outcome[e]) + (IF Running(e) THEN 1 ELSE 0)
        BY DEF TypeInv
    <2>2. CASE d = c
        <3>1. job[c] = Len(outcome[c]) + 1 /\ Len(outcome[c]) \in Nat
            BY <1>2, <2>1
        <3>2. CASE n = Len(todo[c])
            <4>1. outcome'[c] = Append(outcome[c], "ok") /\ ~Running(c)'
                BY <1>3, <2>1, <3>2 DEF Running
            <4>2. Len(outcome'[c]) = Len(outcome[c]) + 1
                BY <2>1, <4>1
            <4> QED
                BY <1>3, <2>2, <3>1, <4>1, <4>2
        <3>3. CASE n # Len(todo[c])
            <4>1. outcome'[c] = outcome[c] /\ Running(c)'
                BY <1>3, <3>3 DEF Running
            <4> QED
                BY <1>3, <2>2, <3>1, <4>1
        <3> QED
            BY <3>2, <3>3
    <2>3. CASE d # c
        <3>1. job'[d] = job[d] /\ outcome'[d] = outcome[d] /\ Running(d)' = Running(d)
            BY <2>3, OthersStay
        <3> QED
            BY <2>1, <3>1
    <2> QED
        BY <2>2, <2>3
<1>8. /\ <<dialect, play>> \in Cases /\ schema = BuiltSchema(dialect) /\ aborted \in [Connections -> BOOLEAN]
      /\ job \in [Clients -> Nat] /\ faults \in [Clients -> Nat] /\ \A d \in Clients : faults[d] <= play[d].faults
    BY DEF TypeInv
<1>9. last' \in [Tables -> Nat]
    BY <1>1 DEF Grows
<1>10. /\ <<dialect, play>>' \in Cases /\ schema' = BuiltSchema(dialect)' /\ aborted' \in [Connections -> BOOLEAN]
       /\ job' \in [Clients -> Nat] /\ faults' \in [Clients -> Nat]
       /\ \A d \in Clients : faults'[d] <= play'[d].faults
    BY <1>2, <1>3, <1>8
<1> QED
    BY <1>4, <1>5, <1>6, <1>7, <1>9, <1>10, ShapesStay DEF TypeInv

\* The program of a job of the play.
LEMMA ProgramIs ==
    ASSUME TypeInv, NEW j \in JobKinds
    PROVE  /\ ProgramOf(Mongo, j, Program(j)) /\ Program(j) # <<>> /\ Mongo \in BOOLEAN
BY Assumed, ProgramsAre DEF TypeInv, Program, Mongo, ProgramOf

LEMMA BeginTypes ==
    ASSUME TypeInv, TodoInv, NEW c \in Clients, Begin(c), Frame(c)
    PROVE  /\ TypeInv' /\ job'[c] \in 1 .. Len(play[c].jobs) /\ play[c].jobs[job'[c]] \in JobKinds
           /\ todo'[c] = Program(play[c].jobs[job'[c]]) /\ Running(c)'
           /\ Job(c)' = play[c].jobs[job'[c]]
<1>1. play[c].jobs \in Seq(JobKinds)
    BY Assumed DEF TypeInv, Play
<1>2. /\ job \in [Clients -> Nat] /\ todo = [d \in Clients |-> todo[d]] /\ ids \in [Clients -> [Tables -> Nat]]
      /\ cache \in [Clients -> [Tables -> Nat]] /\ got \in [Clients -> Nat]
      /\ \A d \in Clients, t \in Tables : ids[d][t] <= last[t] /\ cache[d][t] <= last[t]
      /\ \A d \in Clients : job[d] = Len(outcome[d]) + (IF Running(d) THEN 1 ELSE 0)
      /\ last \in [Tables -> Nat] /\ outcome \in [Clients -> Seq({"ok", "raised"})]
    BY DEF TypeInv
<1>3. /\ job' = [job EXCEPT ![c] = job[c] + 1] /\ todo' = [todo EXCEPT ![c] = Program(play[c].jobs[job'[c]])]
      /\ ids' = [ids EXCEPT ![c] = cache[c]] /\ ~Running(c) /\ job[c] < Len(play[c].jobs)
      /\ UNCHANGED <<dialect, play, schema, rows, last, pend, aborted, uuid, cache, got, noted,
                   tries, outcome, cancelled, faults>>
    BY DEF Begin
<1>4. job'[c] = job[c] + 1 /\ job'[c] \in 1 .. Len(play[c].jobs) /\ job' \in [Clients -> Nat]
    BY <1>1, <1>2, <1>3
<1>5. play[c].jobs[job'[c]] \in JobKinds
    BY <1>1, <1>4
<1>6. todo'[c] = Program(play[c].jobs[job'[c]]) /\ todo'[c] # <<>>
    BY <1>2, <1>3, <1>5, ProgramIs
<1>7. ids' \in [Clients -> [Tables -> Nat]] /\ cache' \in [Clients -> [Tables -> Nat]]
    BY <1>2, <1>3
<1>8. ASSUME NEW d \in Clients, NEW t \in Tables PROVE ids'[d][t] <= last'[t] /\ cache'[d][t] <= last'[t]
    <2>1. ids'[d] = ids[d] \/ ids'[d] = cache[d]
        BY <1>2, <1>3
    <2> QED
        BY <1>2, <1>3, <2>1
<1>9. ASSUME NEW d \in Clients PROVE job'[d] = Len(outcome'[d]) + (IF Running(d)' THEN 1 ELSE 0)
    <2>1. CASE d = c
        BY <1>2, <1>3, <1>4, <1>6, <2>1 DEF Running
    <2>2. CASE d # c
        BY <1>2, <1>3, <2>2, OthersStay
    <2> QED
        BY <2>1, <2>2
<1>10. /\ <<dialect, play>>' \in Cases /\ schema' = BuiltSchema(dialect)' /\ aborted' \in [Connections -> BOOLEAN]
       /\ faults' \in [Clients -> Nat] /\ \A d \in Clients : faults'[d] <= play'[d].faults
       /\ last' \in [Tables -> Nat] /\ got' \in [Clients -> Nat] /\ outcome' \in [Clients -> Seq({"ok", "raised"})]
    BY <1>3 DEF TypeInv
<1>11. TypeInv'
    BY <1>4, <1>7, <1>8, <1>9, <1>10, ShapesStay DEF TypeInv
<1> QED
    BY <1>3, <1>4, <1>5, <1>6, <1>11 DEF Running, Job

LEMMA RestartTypes ==
    ASSUME TypeInv, TodoInv, NEW c \in Clients, RestartTransaction(c), Frame(c)
    PROVE  /\ TypeInv' /\ todo'[c] = Program("turn") /\ Running(c) /\ Running(c)'
           /\ Job(c) = "turn" /\ Job(c)' = "turn" /\ Conn(c) = <<c, "main">>
<1>1. /\ todo = [d \in Clients |-> todo[d]] /\ faults \in [Clients -> Nat] /\ play \in [Clients -> Play]
      /\ \A d \in Clients : faults[d] <= play[d].faults
      /\ \A d \in Clients : job[d] = Len(outcome[d]) + (IF Running(d) THEN 1 ELSE 0)
    BY Assumed DEF TypeInv
<1>2. /\ todo' = [todo EXCEPT ![c] = Program("turn")] /\ faults' = [faults EXCEPT ![c] = faults[c] + 1]
      /\ Running(c) /\ faults[c] < play[c].faults /\ Job(c) = "turn"
      /\ UNCHANGED <<dialect, play, schema, rows, last, aborted, job, uuid, cache, ids, got,
                   noted, out, before, outcome, cancelled>>
    BY DEF RestartTransaction, CanFail
<1>3. todo'[c] = Program("turn") /\ todo'[c] # <<>>
    BY <1>1, <1>2, ProgramIs DEF JobKinds
<1>4. faults' \in [Clients -> Nat] /\ \A d \in Clients : faults'[d] <= play'[d].faults
    <2>1. \A d \in Clients : play[d].faults \in Nat /\ faults[d] \in Nat
        BY <1>1 DEF Play
    <2>2. faults[c] + 1 <= play[c].faults
        BY <1>2, <2>1
    <2> QED
        BY <1>1, <1>2, <2>1, <2>2
<1>5. ASSUME NEW d \in Clients PROVE job'[d] = Len(outcome'[d]) + (IF Running(d)' THEN 1 ELSE 0)
    <2>1. Running(d)' = Running(d)
        <3>1. CASE d = c
            BY <1>2, <1>3, <3>1 DEF Running
        <3>2. CASE d # c
            BY <3>2, OthersStay
        <3> QED
            BY <3>1, <3>2
    <2>2. job'[d] = job[d] /\ outcome'[d] = outcome[d]
        BY <1>2
    <2> QED
        BY <1>1, <2>1, <2>2
<1>6. /\ <<dialect, play>>' \in Cases /\ schema' = BuiltSchema(dialect)' /\ aborted' \in [Connections -> BOOLEAN]
      /\ last' \in [Tables -> Nat] /\ got' \in [Clients -> Nat] /\ outcome' \in [Clients -> Seq({"ok", "raised"})]
      /\ job' \in [Clients -> Nat] /\ ids' \in [Clients -> [Tables -> Nat]] /\ cache' \in [Clients -> [Tables -> Nat]]
      /\ \A d \in Clients, t \in Tables : ids'[d][t] <= last'[t] /\ cache'[d][t] <= last'[t]
    BY <1>2 DEF TypeInv
<1>7. TypeInv'
    BY <1>4, <1>5, <1>6, ShapesStay DEF TypeInv
<1>8. Job(c)' = Job(c) /\ Running(c)'
    BY <1>2, <1>3 DEF Job, Running
<1>9. Conn(c) = <<c, "main">>
    BY <1>2 DEF Conn, IsLearning, Learns
<1> QED
    BY <1>2, <1>3, <1>7, <1>8, <1>9

\* What an exception leaves.
LEMMA RaiseLeaves ==
    ASSUME TypeInv, NEW c \in Clients, Raises(c)
    PROVE  /\ outcome' = [outcome EXCEPT ![c] = Append(outcome[c], "raised")] /\ todo' = [todo EXCEPT ![c] = <<>>]
           /\ todo'[c] = <<>> /\ noted'[c] = {} /\ got'[c] = 0 /\ job' = job /\ ~Running(c)' /\ Running(c)
           /\ pend' = pend \/ pend' = [pend EXCEPT ![Conn(c)] = NoWork]
           /\ aborted' \in [Connections -> BOOLEAN]
           /\ aborted'[Conn(c)] => pend'[Conn(c)] = NoWork \/ (pend' = pend /\ aborted[Conn(c)])
           /\ aborted'[Conn(c)] => Conn(c)[2] = "main"
           /\ cancelled' = IF Job(c) = "turn" THEN cancelled \cup {<<c, job[c]>>} ELSE cancelled
           /\ UNCHANGED <<dialect, play, schema, rows, last, uuid, cache, ids, out, before>>
           /\ faults' \in [Clients -> Nat] /\ \A d \in Clients : faults'[d] <= play'[d].faults /\ faults[d] <= faults'[d]
           /\ IsLearning(c) \/ dialect = "postgresql" => pend' = [pend EXCEPT ![Conn(c)] = NoWork]
<1>1. PICK drops \in BOOLEAN, lost \in BOOLEAN : Raise(c, drops, lost)
    BY DEF Raises
<1>2. /\ todo = [d \in Clients |-> todo[d]] /\ noted = [d \in Clients |-> noted[d]] /\ got \in [Clients -> Nat]
      /\ aborted \in [Connections -> BOOLEAN] /\ pend = [n \in Connections |-> pend[n]]
      /\ faults \in [Clients -> Nat] /\ \A d \in Clients : faults[d] <= play[d].faults
    BY DEF TypeInv
<1>3. EndJob(c, "raised") /\ UNCHANGED <<dialect, play, schema, rows, last, uuid, cache, ids, out>>
      /\ cancelled' = IF Job(c) = "turn" THEN cancelled \cup {<<c, job[c]>>} ELSE cancelled
    BY <1>1 DEF Raise
<1>4. /\ outcome' = [outcome EXCEPT ![c] = Append(outcome[c], "raised")] /\ todo' = [todo EXCEPT ![c] = <<>>]
      /\ todo'[c] = <<>> /\ noted'[c] = {} /\ got'[c] = 0 /\ job' = job /\ before' = before
    BY <1>2, <1>3 DEF EndJob
<1> DEFINE clears == drops \/ lost \/ IsLearning(c) \/ dialect = "postgresql"
           refuses == ~IsLearning(c) /\ dialect # "mongodb" /\ (lost \/ aborted[Conn(c)] \/ dialect = "postgresql")
<1>5. pend' = IF clears THEN [pend EXCEPT ![Conn(c)] = NoWork] ELSE pend
    BY <1>1 DEF Raise
<1>6. aborted' = [aborted EXCEPT ![Conn(c)] = refuses]
    BY <1>1 DEF Raise
<1>7. Conn(c) \in Connections /\ (~IsLearning(c) => Conn(c)[2] = "main")
    BY ConnectionIs
<1>8. aborted' \in [Connections -> BOOLEAN] /\ aborted'[Conn(c)] = refuses
    <2>1. refuses \in BOOLEAN
        BY <1>2, <1>7
    <2> HIDE DEF refuses
    <2> QED
        BY <1>2, <1>6, <1>7, <2>1
<1>9. refuses => clears \/ aborted[Conn(c)]
    OBVIOUS
<1>10. clears => pend'[Conn(c)] = NoWork
    BY <1>2, <1>5, <1>7
<1>11. ~clears => pend' = pend
    BY <1>5
<1>12. /\ faults' \in [Clients -> Nat]
       /\ \A d \in Clients : faults'[d] <= play'[d].faults /\ faults[d] <= faults'[d]
    <2>1. play' = play /\ \A d \in Clients : play[d].faults \in Nat /\ faults[d] \in Nat
        BY <1>2, <1>3, Assumed DEF Play, TypeInv
    <2>2. CASE faults' = faults
        BY <1>2, <2>1, <2>2
    <2>3. CASE CanFail(c) /\ faults' = [faults EXCEPT ![c] = faults[c] + 1]
        <3>1. faults[c] + 1 <= play[c].faults
            BY <2>1, <2>3 DEF CanFail
        <3> QED
            BY <1>2, <2>1, <2>3, <3>1
    <2> QED
        BY <2>2, <2>3 DEF Raises
<1>13. ~Running(c)' /\ Running(c)
    BY <1>4 DEF Running, Raises
<1>14. refuses => Conn(c)[2] = "main"
    BY <1>7
<1>15. IsLearning(c) \/ dialect = "postgresql" => clears
    OBVIOUS
<1> HIDE DEF refuses, clears
<1> QED
    BY <1>3, <1>4, <1>5, <1>7, <1>8, <1>9, <1>10, <1>11, <1>12, <1>13, <1>14, <1>15

LEMMA RaiseTypes ==
    ASSUME TypeInv, NEW c \in Clients, Raises(c), Frame(c)
    PROVE  TypeInv'
<1>1. /\ outcome \in [Clients -> Seq({"ok", "raised"})] /\ job \in [Clients -> Nat] /\ got \in [Clients -> Nat]
      /\ \A d \in Clients : job[d] = Len(outcome[d]) + (IF Running(d) THEN 1 ELSE 0)
    BY DEF TypeInv
<1>2. /\ outcome' = [outcome EXCEPT ![c] = Append(outcome[c], "raised")] /\ got'[c] = 0 /\ job' = job
      /\ ~Running(c)' /\ Running(c)
      /\ UNCHANGED <<dialect, play, schema, rows, last, uuid, cache, ids, out>>
      /\ faults' \in [Clients -> Nat] /\ \A d \in Clients : faults'[d] <= play'[d].faults
      /\ aborted' \in [Connections -> BOOLEAN]
    BY RaiseLeaves
<1>3. Append(outcome[c], "raised") \in Seq({"ok", "raised"}) /\ Len(Append(outcome[c], "raised")) = Len(outcome[c]) + 1
    BY <1>1
<1>4. outcome' \in [Clients -> Seq({"ok", "raised"})]
    BY <1>1, <1>2, <1>3
<1>5. ASSUME NEW d \in Clients PROVE job'[d] = Len(outcome'[d]) + (IF Running(d)' THEN 1 ELSE 0)
    <2>1. CASE d = c
        BY <1>1, <1>2, <1>3, <2>1
    <2>2. CASE d # c
        <3>1. outcome'[d] = outcome[d] /\ Running(d)' = Running(d)
            BY <2>2, OthersStay
        <3> QED
            BY <1>1, <1>2, <3>1
    <2> QED
        BY <2>1, <2>2
<1>6. got' \in [Clients -> Nat]
    <2>1. got' = [d \in Clients |-> got'[d]]
        BY ShapesStay
    <2>2. ASSUME NEW d \in Clients PROVE got'[d] \in Nat
        <3>1. CASE d = c
            BY <1>2, <3>1
        <3>2. CASE d # c
            <4>1. got'[d] = got[d]
                BY <3>2, OthersStay
            <4>2. got[d] \in Nat
                BY <1>1
            <4> QED
                BY <4>1, <4>2
        <3> QED
            BY <3>1, <3>2
    <2> QED
        BY <2>1, <2>2
<1>7. /\ <<dialect, play>>' \in Cases /\ schema' = BuiltSchema(dialect)' /\ last' \in [Tables -> Nat]
      /\ job' \in [Clients -> Nat] /\ ids' \in [Clients -> [Tables -> Nat]] /\ cache' \in [Clients -> [Tables -> Nat]]
      /\ \A d \in Clients, t \in Tables : ids'[d][t] <= last'[t] /\ cache'[d][t] <= last'[t]
    BY <1>2 DEF TypeInv
<1> QED
    BY <1>2, <1>4, <1>5, <1>6, <1>7, ShapesStay DEF TypeInv

LEMMA UnchangedTypes ==
    ASSUME TypeInv, UNCHANGED vars
    PROVE  TypeInv'
<1>1. UNCHANGED <<dialect, play, schema, rows, last, pend, aborted, job, todo, uuid, cache, ids,
                  got, noted, out, before, tries, outcome, cancelled, faults>>
    BY DEF vars
<1> QED
    BY <1>1 DEF TypeInv, Running

LEMMA InitTypes ==
    ASSUME Init
    PROVE  TypeInv /\ TodoInv /\ StoreInv
<1>1. <<dialect, play>> \in Cases
    <2>1. PICK x \in Cases : dialect = x[1] /\ play = x[2]
        BY DEF Init
    <2>2. x = <<x[1], x[2]>>
        BY TurnsAssumption
    <2> QED
        BY <2>1, <2>2
<1>2. play \in [Clients -> Play]
    BY <1>1, Assumed
<1>3. /\ schema = BuiltSchema(dialect) /\ rows = {} /\ last = NoIds
      /\ pend = [n \in Connections |-> NoWork] /\ aborted = [n \in Connections |-> FALSE]
      /\ job = [c \in Clients |-> 0] /\ todo = [c \in Clients |-> <<>>]
      /\ uuid = [c \in Clients |-> play[c].session]
      /\ cache = [c \in Clients |-> NoIds] /\ ids = [c \in Clients |-> NoIds]
      /\ got = [c \in Clients |-> 0] /\ noted = [c \in Clients |-> {}]
      /\ out = [c \in Clients |-> <<>>] /\ before = [c \in Clients |-> {}]
      /\ tries = [c \in Clients |-> 1] /\ outcome = [c \in Clients |-> <<>>]
      /\ faults = [c \in Clients |-> 0]
    BY DEF Init
<1>4. NoIds \in [Tables -> Nat] /\ \A t \in Tables : NoIds[t] = 0
    BY DEF NoIds
<1> HIDE DEF NoIds
<1>5. \A c \in Clients : ~Running(c)
    BY <1>3 DEF Running
<1>6. /\ last \in [Tables -> Nat] /\ aborted \in [Connections -> BOOLEAN] /\ job \in [Clients -> Nat]
      /\ ids \in [Clients -> [Tables -> Nat]] /\ cache \in [Clients -> [Tables -> Nat]]
      /\ got \in [Clients -> Nat] /\ faults \in [Clients -> Nat]
    BY <1>3, <1>4
<1>7. \A c \in Clients, t \in Tables : ids[c][t] <= last[t] /\ cache[c][t] <= last[t]
    BY <1>3, <1>4
<1>8. outcome \in [Clients -> Seq({"ok", "raised"})] /\ \A c \in Clients : Len(outcome[c]) = 0
    <2>1. <<>> \in Seq({"ok", "raised"}) /\ Len(<<>>) = 0
        OBVIOUS
    <2> QED
        BY <1>3, <2>1
<1>9. /\ todo = [c \in Clients |-> todo[c]] /\ uuid = [c \in Clients |-> uuid[c]]
      /\ noted = [c \in Clients |-> noted[c]] /\ out = [c \in Clients |-> out[c]]
      /\ before = [c \in Clients |-> before[c]] /\ tries = [c \in Clients |-> tries[c]]
      /\ pend = [n \in Connections |-> pend[n]]
    BY <1>3
<1>10. \A c \in Clients : faults[c] <= play[c].faults /\ job[c] = Len(outcome[c]) + (IF Running(c) THEN 1 ELSE 0)
    BY <1>2, <1>3, <1>5, <1>8 DEF Play
<1>11. TypeInv
    BY <1>1, <1>3, <1>6, <1>7, <1>8, <1>9, <1>10 DEF TypeInv
<1>12. TodoInv
    BY <1>5 DEF TodoInv
<1>13. StoreInv
    <2>1. \A n \in Connections : pend[n] = NoWork /\ New(n) = {} /\ aborted[n] = FALSE
        BY <1>3 DEF New, NoWork
    <2> QED
        BY <1>3, <1>5, <2>1 DEF StoreInv
<1> QED
    BY <1>11, <1>12, <1>13

LEMMA OtherRests ==
    ASSUME TypeInv, TodoInv, NEW c \in Clients, Frame(c), NEW d \in Clients \ {c}, Running(d)'
    PROVE  Rest(d)'
<1>1. /\ play' = play /\ Mongo' = Mongo
    BY DEF Frame, Mongo
<1>2. job'[d] = job[d] /\ todo'[d] = todo[d] /\ ids'[d] = ids[d] /\ Running(d) /\ Job(d)' = Job(d)
    BY OthersStay
<1>3. Rest(d)
    BY <1>2 DEF TodoInv
<1> QED
    BY <1>1, <1>2, <1>3 DEF Rest

\* A program from its start.
LEMMA ProgramRests ==
    ASSUME NEW m \in BOOLEAN, NEW j, NEW p, ProgramOf(m, j, p)
    PROVE  /\ p \in Seq(OfJob(j)) /\ Tidy(m, p) /\ (j = "turn" => TurnShape(p))
           /\ j \in {"new_session", "restore"} => Len(p) = 1
           /\ \A t \in {"session", "conversation"} :
                 \E G \in SUBSET (1 .. Len(p) + 1) : Closed(m, t, p, G) /\ 1 \in G
BY DEF ProgramOf, Unit, Safe

LEMMA BeginRests ==
    ASSUME TypeInv, TodoInv, NEW c \in Clients, Begin(c), Frame(c)
    PROVE  Rest(c)'
<1>1. /\ job'[c] \in 1 .. Len(play[c].jobs) /\ play[c].jobs[job'[c]] \in JobKinds
      /\ todo'[c] = Program(play[c].jobs[job'[c]]) /\ Job(c)' = play[c].jobs[job'[c]]
    BY BeginTypes
<1>2. ProgramOf(Mongo, Job(c)', todo'[c]) /\ Mongo \in BOOLEAN
    BY <1>1, ProgramIs
<1>3. play' = play /\ Mongo' = Mongo
    BY DEF Frame, Mongo
<1> QED
    BY <1>1, <1>2, <1>3, ProgramRests DEF Rest

LEMMA RestartRests ==
    ASSUME TypeInv, TodoInv, NEW c \in Clients, RestartTransaction(c), Frame(c)
    PROVE  Rest(c)'
<1>1. todo'[c] = Program("turn") /\ Job(c)' = "turn" /\ Running(c) /\ job' = job
    BY RestartTypes DEF RestartTransaction
<1>2. ProgramOf(Mongo, Job(c)', todo'[c]) /\ Mongo \in BOOLEAN
    BY <1>1, ProgramIs DEF JobKinds
<1>3. play' = play /\ Mongo' = Mongo
    BY DEF Frame, Mongo
<1>4. job[c] \in 1 .. Len(play[c].jobs)
    BY <1>1 DEF TodoInv, Rest
<1> DEFINE p == todo'[c]
<1>5. /\ p \in Seq(OfJob("turn")) /\ Tidy(Mongo, p) /\ TurnShape(p)
      /\ \A t \in {"session", "conversation"} :
            \E G \in SUBSET (1 .. Len(p) + 1) : Closed(Mongo, t, p, G) /\ 1 \in G
    <2>1. ProgramOf(Mongo, "turn", p)
        BY <1>1, <1>2
    <2> HIDE DEF p
    <2> QED
        BY <1>2, <2>1, ProgramRests
<1>6. job'[c] \in 1 .. Len(play'[c].jobs)
    BY <1>1, <1>3, <1>4
<1> QED
    BY <1>1, <1>3, <1>5, <1>6 DEF Rest

LEMMA DoneRests ==
    ASSUME TypeInv, TodoInv, StoreInv, NEW c \in Clients, NEW n, By(c, n), Frame(c), Running(c)'
    PROVE  Rest(c)'
<1>1. Goes(c, n) /\ IdsBy(c, n) /\ Running(c) /\ play' = play /\ Mongo' = Mongo /\ Mongo \in BOOLEAN
    BY DEF By, Goes, Frame, Mongo
<1>2. Rest(c)
    BY <1>1 DEF TodoInv
<1>3. n \in 1 .. Len(todo[c]) /\ todo'[c] = After(todo[c], n) /\ job' = job /\ n # Len(todo[c])
    BY <1>1, GoesOn DEF Running
<1>4. todo[c] \in Seq(OfJob(Job(c))) /\ OfJob(Job(c)) \subseteq Stmt /\ todo[c] \in Seq(Stmt) /\ Len(todo[c]) \in Nat
    BY <1>1, <1>2, HereIs DEF Rest, OfJob
<1>5. Here(c) = todo[c][1] /\ Here(c).skip \in Nat /\ (n = 1 \/ (Here(c).do \in Branches /\ n = Here(c).skip + 1))
    BY <1>1, HereIs DEF Goes
<1>6. Job(c)' = Job(c)
    BY <1>1, <1>3 DEF Job
<1>7. todo'[c] \in Seq(OfJob(Job(c)))
    BY <1>3, <1>4, AfterIs
<1>8. Tidy(Mongo, todo'[c])
    BY <1>1, <1>2, <1>3, <1>4, AfterIsTidy DEF Rest
<1>9. Job(c) = "turn" => TurnShape(todo'[c])
    <2>1. n \in 1 .. Len(todo[c]) - 1
        BY <1>3, <1>4
    <2> QED
        BY <1>2, <1>3, <1>4, <1>5, <2>1, AfterIsTurn DEF Rest
<1>10. Job(c) \notin {"new_session", "restore"} /\ job[c] \in 1 .. Len(play[c].jobs)
    <2>1. (Job(c) \in {"new_session", "restore"} => Len(todo[c]) = 1) /\ job[c] \in 1 .. Len(play[c].jobs)
        BY <1>2 DEF Rest
    <2> DEFINE l == Len(todo[c])
    <2>2. l # 1
        <3>1. n \in 1 .. l /\ n # l /\ l \in Nat
            BY <1>3, <1>4
        <3> HIDE DEF l
        <3> QED
            BY <3>1
    <2> QED
        BY <2>1, <2>2
<1>11. ASSUME NEW t \in {"session", "conversation"}
       PROVE  \E G \in SUBSET (1 .. Len(todo'[c]) + 1) : Closed(Mongo, t, todo'[c], G) /\ (ids'[c][t] # 0 \/ 1 \in G)
    <2>1. PICK G \in SUBSET (1 .. Len(todo[c]) + 1) : Closed(Mongo, t, todo[c], G) /\ (ids[c][t] # 0 \/ 1 \in G)
        BY <1>2 DEF Rest
    <2> DEFINE H == {k \in 1 .. Len(After(todo[c], n)) + 1 : k + n \in G}
    <2>2. Closed(Mongo, t, After(todo[c], n), H) /\ (n + 1 \in G => 1 \in H)
        BY <1>1, <1>3, <1>4, <2>1, AfterIsClosed
    <2>3. H \in SUBSET (1 .. Len(todo'[c]) + 1)
        BY <1>3
    <2> HIDE DEF H
    <2>4. 1 \in 1 .. Len(todo[c])
        BY <1>3, <1>4
    <2>5. /\ 1 \in G =>
             /\ Gives(Mongo, t, Here(c)) \/ 1 + 1 \in G
             /\ Here(c).do \in Branches => Knows(t, Here(c)) \/ 1 + Here(c).skip + 1 \in G
          /\ Looks(t, Here(c)) => 1 + 1 \in G
        BY <1>5, <2>1, <2>4 DEF Closed
    <2>6. n = 1 => n + 1 = 1 + 1
        OBVIOUS
    <2>7. n # 1 => n + 1 = 1 + Here(c).skip + 1 /\ Here(c).do \in Branches
        BY <1>5
    <2>8. ids'[c][t] # 0 \/ n + 1 \in G
        <3>1. CASE /\ UNCHANGED ids
                   /\ ~Gives(Mongo, t, Here(c))
                   /\ n = 1 \/ (Here(c).do = "unless" /\ ids[c][Here(c).table] # 0) \/ Here(c).do = "when"
            <4>1. CASE ids[c][t] # 0
                BY <3>1, <4>1
            <4>2. CASE ids[c][t] = 0 /\ n = 1
                BY <2>1, <2>5, <2>6, <3>1, <4>2
            <4>3. CASE ids[c][t] = 0 /\ n # 1
                <5>1. ~Knows(t, Here(c))
                    BY <3>1, <4>3 DEF Knows
                <5> QED
                    BY <2>1, <2>5, <2>7, <4>3, <5>1
            <4> QED
                BY <4>1, <4>2, <4>3
        <3>2. CASE \E i \in 0 .. last'[Here(c).table] :
                      /\ Return(c, Here(c).table, i) /\ Here(c).table \in Tables
                      /\ i # 0 \/ Here(c).do = "look" \/ Here(c).table \in Learned
                      /\ n = 1 \/ Here(c).do = "return_recent"
            <4>1. PICK i \in 0 .. last'[Here(c).table] :
                      /\ Return(c, Here(c).table, i) /\ Here(c).table \in Tables
                      /\ i # 0 \/ Here(c).do = "look" \/ Here(c).table \in Learned
                      /\ n = 1 \/ Here(c).do = "return_recent"
                BY <3>2
            <4>2. i \in Nat
                BY DEF By, Grows
            <4>3. ids'[c][Here(c).table] = i /\ \A u \in Tables \ {Here(c).table} : ids'[c][u] = ids[c][u]
                BY <4>1, <4>2, ReturnIs
            <4>4. CASE t = Here(c).table
                <5>1. t \notin Learned
                    BY DEF Learned, Erasable, Graph
                <5>2. CASE i # 0
                    BY <4>3, <4>4, <5>2
                <5>3. CASE i = 0
                    <6>1. Here(c).do = "look" /\ Looks(t, Here(c)) /\ n = 1
                        BY <4>1, <4>4, <5>1, <5>3 DEF Looks
                    <6> QED
                        BY <2>5, <6>1
                <5> QED
                    BY <5>2, <5>3
            <4>5. CASE t # Here(c).table
                <5>1. ids'[c][t] = ids[c][t]
                    BY <4>3, <4>5, TablesAre DEF Four
                <5>2. ~Gives(Mongo, t, Here(c)) /\ ~Knows(t, Here(c))
                    BY <4>5 DEF Gives, Knows
                <5> QED
                    BY <2>1, <2>5, <2>6, <2>7, <5>1, <5>2
            <4> QED
                BY <4>4, <4>5
        <3> QED
            BY <1>1, <3>1, <3>2 DEF IdsBy
    <2> QED
        BY <1>3, <2>2, <2>3, <2>8
<1>12. /\ job'[c] \in 1 .. Len(play'[c].jobs) /\ todo'[c] \in Seq(OfJob(Job(c)')) /\ Tidy(Mongo', todo'[c])
       /\ Job(c)' = "turn" => TurnShape(todo'[c])
       /\ Job(c)' \in {"new_session", "restore"} => Len(todo'[c]) = 1
       /\ \A t \in {"session", "conversation"} :
             \E G \in SUBSET (1 .. Len(todo'[c]) + 1) :
                Closed(Mongo', t, todo'[c], G) /\ (ids'[c][t] # 0 \/ 1 \in G)
    BY <1>1, <1>3, <1>6, <1>7, <1>8, <1>9, <1>10, <1>11
<1> QED
    BY <1>12, <1>6 DEF Rest

LEMMA NextRests ==
    ASSUME TypeInv, TodoInv, StoreInv, NEW c \in Clients, Act(c) \/ Fail(c)
    PROVE  Frame(c) /\ TypeInv' /\ TodoInv'
<1>1. Frame(c)
    BY FunctionalIs, ActsFrame
<1>2. CASE Begin(c)
    BY <1>1, <1>2, BeginTypes, BeginRests, OtherRests DEF TodoInv
<1>3. CASE RestartTransaction(c)
    BY <1>1, <1>3, RestartTypes, RestartRests, OtherRests DEF TodoInv
<1>4. CASE Raises(c)
    <2>1. TypeInv' /\ ~Running(c)'
        BY <1>1, <1>4, RaiseTypes, RaiseLeaves
    <2> QED
        BY <1>1, <2>1, OtherRests DEF TodoInv
<1>5. CASE Doing(c)
    <2>1. PICK n : By(c, n)
        BY <1>5, DoingIs
    <2>2. TypeInv' /\ (Running(c)' => Rest(c)')
        BY <1>1, <2>1, DoneTypes, DoneRests
    <2> QED
        BY <1>1, <2>2, OtherRests DEF TodoInv
<1> QED
    BY <1>1, <1>2, <1>3, <1>4, <1>5, StepsAre

-----------------------------------------------------------------------------
(* What the statements write.                                              *)
LEMMA NamesAre ==
    /\ DOMAIN Names = {"entity_id", "process_id", "session_id", "conversation_id", "fact_id",
                       "subject_id", "predicate_id", "object_id"}
    /\ Names["entity_id"] = "entity" /\ Names["process_id"] = "process" /\ Names["session_id"] = "session"
    /\ Names["conversation_id"] = "conversation" /\ Names["fact_id"] = "entity_fact"
    /\ Names["subject_id"] = "subject" /\ Names["predicate_id"] = "predicate" /\ Names["object_id"] = "object"
    /\ \A k \in DOMAIN Names : Names[k] \in Tables /\ Names[k] # "conversation_message"
<1>1. /\ DOMAIN Names = {"entity_id", "process_id", "session_id", "conversation_id", "fact_id",
                         "subject_id", "predicate_id", "object_id"}
      /\ Names["entity_id"] = "entity" /\ Names["process_id"] = "process" /\ Names["session_id"] = "session"
      /\ Names["conversation_id"] = "conversation" /\ Names["fact_id"] = "entity_fact"
      /\ Names["subject_id"] = "subject" /\ Names["predicate_id"] = "predicate" /\ Names["object_id"] = "object"
    BY DEF Names
<1>2. {"entity", "process", "session", "conversation", "entity_fact", "subject", "predicate", "object"} \subseteq Tables
    BY TablesAre DEF Four, Graph, Learned, Erasable
<1> QED
    BY <1>1, <1>2

LEMMA RowStays ==
    ASSUME TypeInv, Grows, NEW r, IsRow(r)
    PROVE  IsRow(r)'
<1>1. /\ last \in [Tables -> Nat] /\ last' \in [Tables -> Nat] /\ \A t \in Tables : last[t] <= last'[t]
    BY DEF TypeInv, Grows
<1>2. /\ r = [table |-> r.table, id |-> r.id, cols |-> r.cols, num |-> r.num]
      /\ r.table \in Tables /\ r.id \in 1 .. last[r.table] /\ r.num \in Nat \ {0}
      /\ DOMAIN r.cols = Columns[r.table]
      /\ \A k \in Columns[r.table] \cap DOMAIN Names : r.cols[k] \in 0 .. last[Names[k]]
    BY DEF IsRow
<1>3. r.id \in 1 .. last'[r.table]
    BY <1>1, <1>2
<1>4. \A k \in DOMAIN Names : Names[k] \in Tables
    BY NamesAre
<1>5. ASSUME NEW k \in Columns[r.table] \cap DOMAIN Names PROVE r.cols[k] \in 0 .. last'[Names[k]]
    <2>1. r.cols[k] \in 0 .. last[Names[k]] /\ Names[k] \in Tables
        BY <1>2, <1>4
    <2> QED
        BY <1>1, <2>1
<1> QED
    BY <1>2, <1>3, <1>5 DEF IsRow

\* The names and references of the statement's table.
LEMMA ValueIs ==
    ASSUME NEW c, NEW t, NEW k \in DOMAIN Names
    PROVE  Value(c, t, k) = ids[c][Names[k]] /\ Names[k] \in Tables
<1>1. k \notin {"external_id", "uuid", "uniq", "content"} /\ Names[k] \in Tables
    BY NamesAre
<1>2. k # "external_id" /\ k # "uuid" /\ k # "uniq" /\ k # "content"
    BY <1>1
<1>3. Value(c, t, k) = ids[c][Names[k]]
    BY <1>2 DEF Value
<1> QED
    BY <1>1, <1>3

\* The row that an insert adds.
LEMMA DraftIs ==
    ASSUME NEW c \in Clients, TypeInv, TodoInv, InsertRow(c)
    PROVE  /\ Here(c).table \in Tables /\ Running(c) /\ Here(c).do \in Adds /\ ~aborted[Conn(c)]
           /\ Draft(c).table = Here(c).table /\ Draft(c).id = last[Here(c).table] + 1
           /\ Draft(c).id = last'[Here(c).table] /\ Draft(c).num = 1
           /\ DOMAIN Draft(c).cols = Columns[Here(c).table]
           /\ \A k \in Columns[Here(c).table] : Draft(c).cols[k] = Value(c, Here(c).table, k)
           /\ Grows /\ \A r : r = Draft(c) => IsRow(r)'
           /\ last' = [last EXCEPT ![Here(c).table] = last[Here(c).table] + 1]
           /\ Write(c, {Draft(c)}, {})
<1> DEFINE t == Here(c).table
           r == Draft(c)
<1>1. Running(c) /\ Here(c).do \in Adds /\ (Here(c).do \in Local \/ ~aborted[Conn(c)]) /\ Write(c, {Draft(c)}, {})
      /\ last' = [last EXCEPT ![Here(c).table] = NewId(Here(c).table)]
    BY DEF InsertRow, Ready
<1>2. Here(c).do \notin Local /\ t \in Tables
    BY <1>1, HereIs DEF Proper, Adds, Local, Ends
<1>3. last \in [Tables -> Nat] /\ ids \in [Clients -> [Tables -> Nat]]
      /\ \A d \in Clients, u \in Tables : ids[d][u] <= last[u]
    BY DEF TypeInv
<1>4. r = [table |-> t, id |-> last[t] + 1, cols |-> Named(c, t), num |-> 1]
    BY DEF Draft, NewId
<1>5. Named(c, t) = [k \in Columns[t] |-> Value(c, t, k)]
    BY DEF Named
<1> HIDE DEF r, t
<1>6. r.table = t /\ r.id = last[t] + 1 /\ r.num = 1 /\ r.cols = Named(c, t)
      /\ r = [table |-> r.table, id |-> r.id, cols |-> r.cols, num |-> r.num]
    BY <1>4
<1>7. DOMAIN r.cols = Columns[t] /\ \A k \in Columns[t] : r.cols[k] = Value(c, t, k)
    BY <1>5, <1>6
<1>8. last' = [last EXCEPT ![t] = last[t] + 1]
    BY <1>1 DEF NewId, t
<1>9. last'[t] = last[t] + 1 /\ last' \in [Tables -> Nat] /\ \A u \in Tables : last[u] <= last'[u]
    BY <1>2, <1>3, <1>8
<1>10. ASSUME NEW k \in Columns[t] \cap DOMAIN Names PROVE r.cols[k] \in 0 .. last'[Names[k]]
    <2>1. r.cols[k] = ids[c][Names[k]] /\ Names[k] \in Tables
        BY <1>7, ValueIs
    <2>2. ids[c][Names[k]] \in Nat /\ ids[c][Names[k]] <= last[Names[k]] /\ last[Names[k]] \in Nat
        BY <1>3, <2>1
    <2>3. last[Names[k]] <= last'[Names[k]] /\ last'[Names[k]] \in Nat
        BY <1>9, <2>1
    <2> QED
        BY <2>1, <2>2, <2>3
<1>11. r.id \in 1 .. last'[r.table] /\ r.num \in Nat \ {0}
    BY <1>2, <1>3, <1>6, <1>9
<1>12. ASSUME NEW q, q = r PROVE IsRow(q)'
    <2>1. /\ q = [table |-> q.table, id |-> q.id, cols |-> q.cols, num |-> q.num]
          /\ q.table \in Tables /\ q.id \in 1 .. last'[q.table] /\ q.num \in Nat \ {0}
          /\ DOMAIN q.cols = Columns[q.table]
          /\ \A k \in Columns[q.table] \cap DOMAIN Names : q.cols[k] \in 0 .. last'[Names[k]]
        BY <1>2, <1>6, <1>7, <1>10, <1>11, <1>12
    <2> QED
        BY <2>1 DEF IsRow
<1> QED
    BY <1>1, <1>2, <1>6, <1>7, <1>8, <1>9, <1>12 DEF Grows, r, t

LEMMA ColumnsAre ==
    /\ Columns["entity"] = {"external_id"} /\ Columns["process"] = {"external_id"}
    /\ Columns["session"] = {"uuid", "entity_id", "process_id"}
    /\ Columns["conversation"] = {"session_id"}
    /\ Columns["conversation_message"] = {"content", "conversation_id"}
    /\ Columns["entity_fact"] = {"entity_id", "uniq"}
    /\ Columns["entity_fact_mention"] = {"entity_id", "fact_id", "conversation_id"}
    /\ Columns["process_attribute"] = {"process_id", "uniq"}
    /\ Columns["subject"] = {"uniq"} /\ Columns["predicate"] = {"uniq"} /\ Columns["object"] = {"uniq"}
    /\ Columns["knowledge_graph"] = {"entity_id", "subject_id", "predicate_id", "object_id"}
<1>1. /\ NaturalKey["session"] = {"uuid"} /\ NaturalKey["conversation_message"] = {"content"}
      /\ "session" \in DOMAIN NaturalKey /\ "conversation_message" \in DOMAIN NaturalKey
    BY DEF NaturalKey
<1>2. /\ Columns["session"] = {"uuid"} \cup {"entity_id", "process_id"}
      /\ Columns["conversation_message"] = {"content"} \cup {"conversation_id"}
    BY <1>1 DEF Columns
<1>3. \A t \in DOMAIN NaturalKey \ {"session", "conversation_message"} : Columns[t] = NaturalKey[t]
    BY DEF Columns
<1>4. /\ NaturalKey["entity"] = {"external_id"} /\ NaturalKey["process"] = {"external_id"}
      /\ NaturalKey["conversation"] = {"session_id"}
      /\ NaturalKey["entity_fact"] = {"entity_id", "uniq"}
      /\ NaturalKey["entity_fact_mention"] = {"entity_id", "fact_id", "conversation_id"}
      /\ NaturalKey["process_attribute"] = {"process_id", "uniq"}
      /\ NaturalKey["subject"] = {"uniq"} /\ NaturalKey["predicate"] = {"uniq"} /\ NaturalKey["object"] = {"uniq"}
      /\ NaturalKey["knowledge_graph"] = {"entity_id", "subject_id", "predicate_id", "object_id"}
      /\ {"entity", "process", "conversation", "entity_fact", "entity_fact_mention", "process_attribute",
          "subject", "predicate", "object", "knowledge_graph"} \subseteq DOMAIN NaturalKey \ {"session", "conversation_message"}
    BY DEF NaturalKey
<1>5. Columns["entity"] = {"external_id"} /\ Columns["process"] = {"external_id"} /\ Columns["conversation"] = {"session_id"}
    BY <1>3, <1>4
<1>6. Columns["entity_fact"] = {"entity_id", "uniq"} /\ Columns["entity_fact_mention"] = {"entity_id", "fact_id", "conversation_id"}
    BY <1>3, <1>4
<1>7. Columns["process_attribute"] = {"process_id", "uniq"} /\ Columns["subject"] = {"uniq"} /\ Columns["predicate"] = {"uniq"}
    BY <1>3, <1>4
<1>8. Columns["object"] = {"uniq"} /\ Columns["knowledge_graph"] = {"entity_id", "subject_id", "predicate_id", "object_id"}
    BY <1>3, <1>4
<1>9. /\ Columns["session"] = {"uuid", "entity_id", "process_id"}
      /\ Columns["conversation_message"] = {"content", "conversation_id"}
    BY <1>2
<1> QED
    BY <1>5, <1>6, <1>7, <1>8, <1>9

LEMMA SchemaIs ==
    ASSUME TypeInv, NEW t \in Tables
    PROVE  /\ schema[t].refs \subseteq Columns[t] \cap DOMAIN Names
           /\ \A k \in schema[t].keys : k \subseteq Columns[t] /\ k \in UniqueKeys(dialect, t)
BY DEF TypeInv, BuiltSchema

\* The tables that refer to one that is erased are erased.
LEMMA ReferrersAre ==
    ASSUME NEW t \in Tables, NEW k \in Columns[t] \cap DOMAIN Names, Names[k] \in Erasable
    PROVE  t \in Erasable
<1>1. Names[k] \in Graph \cup {"entity_fact", "entity_fact_mention", "knowledge_graph"}
    BY DEF Erasable
<1>2. k \in {"fact_id", "subject_id", "predicate_id", "object_id"}
    BY <1>1, NamesAre DEF Graph
<1>3. t \in Four \cup Learned \cup {"conversation_message"}
    BY TablesAre
<1>4. t \in {"entity", "process", "session", "conversation", "entity_fact", "entity_fact_mention", "process_attribute",
             "subject", "predicate", "object", "knowledge_graph", "conversation_message"}
    BY <1>3 DEF Four, Learned, Erasable, Graph
<1>5. t \in {"entity_fact_mention", "knowledge_graph"}
    BY <1>2, <1>4, ColumnsAre
<1> QED
    BY <1>5 DEF Erasable

\* An UPDATE replaces rows of its table by rows with the same columns.
LEMMA CountRowIs ==
    ASSUME NEW c \in Clients, TypeInv, TodoInv, StoreInv, CountRow(c)
    PROVE  /\ Running(c) /\ ~aborted[Conn(c)] /\ Here(c).table \in Counts \cup {"conversation"}
           /\ UNCHANGED <<last, ids, cache>>
           /\ Counted(c) \subseteq View(c) /\ \A r \in Counted(c) : r.table = Here(c).table
           /\ \E add : /\ Write(c, add, Counted(c))
                       /\ \A r \in add : /\ IsRow(r)
                                         /\ \E q \in Counted(c) : r.table = q.table /\ r.id = q.id /\ r.cols = q.cols
                       /\ \A q \in Counted(c) : \E r \in add : r.table = q.table /\ r.id = q.id /\ r.cols = q.cols
<1> DEFINE count(q) == IF Here(c).do = "update" THEN 2 ELSE q.num + 1
           add == {[q EXCEPT !.num = IF Here(c).do = "update" THEN 2 ELSE @ + 1] : q \in Counted(c)}
<1>1. /\ Running(c) /\ Here(c).do \in Adds \cup {"count_found", "update"} /\ (Here(c).do \in Local \/ ~aborted[Conn(c)])
      /\ Write(c, add, Counted(c)) /\ Counted(c) # {} /\ UNCHANGED <<last, ids, cache>>
    BY DEF CountRow, Ready
<1>2. Here(c).do \in {"upsert", "count_found", "count_or_add", "update"}
    BY <1>1 DEF Counted
<1>3. Here(c).table \in Counts \cup {"conversation"}
    BY <1>1, <1>2, HereIs DEF Proper
<1>4. ~aborted[Conn(c)]
    BY <1>1, <1>2 DEF Local
<1>5. Counted(c) \subseteq View(c) /\ \A q \in Counted(c) : q.table = Here(c).table
    <2>1. \A q \in Duplicates(c) : q \in View(c) /\ q.table = Here(c).table
        BY DEF Duplicates, SameKey, Draft
    <2> QED
        BY <2>1 DEF Counted, InTable
<1>6. ASSUME NEW q \in Counted(c)
      PROVE  LET r == [q EXCEPT !.num = IF Here(c).do = "update" THEN 2 ELSE @ + 1]
             IN  IsRow(r) /\ r.table = q.table /\ r.id = q.id /\ r.cols = q.cols
    <2>1. IsRow(q)
        BY <1>5, ViewIs
    <2> DEFINE r == [q EXCEPT !.num = IF Here(c).do = "update" THEN 2 ELSE @ + 1]
    <2>2. r = [table |-> q.table, id |-> q.id, cols |-> q.cols, num |-> count(q)]
        BY <2>1 DEF IsRow
    <2>3. count(q) \in Nat \ {0}
        BY <2>1 DEF IsRow
    <2> HIDE DEF r, count
    <2>4. r.table = q.table /\ r.id = q.id /\ r.cols = q.cols /\ r.num \in Nat \ {0}
          /\ r = [table |-> r.table, id |-> r.id, cols |-> r.cols, num |-> r.num]
        BY <2>2, <2>3
    <2>5. IsRow(r)
        BY <2>1, <2>4 DEF IsRow
    <2> QED
        BY <2>4, <2>5 DEF r
<1>7. \A r \in add : IsRow(r) /\ \E q \in Counted(c) : r.table = q.table /\ r.id = q.id /\ r.cols = q.cols
    BY <1>6
<1>8. \A q \in Counted(c) : \E r \in add : r.table = q.table /\ r.id = q.id /\ r.cols = q.cols
    BY <1>6
<1> HIDE DEF add
<1> QED
    BY <1>1, <1>3, <1>4, <1>5, <1>7, <1>8

\* A DELETE takes rows of what is learned, and with them those that refer to them.
LEMMA EraseRowsIs ==
    ASSUME NEW c \in Clients, TypeInv, TodoInv, StoreInv, EraseRows(c)
    PROVE  /\ Running(c) /\ ~aborted[Conn(c)] /\ Write(c, {}, Cascade(c)) /\ UNCHANGED <<last, ids, cache>>
           /\ Cascade(c) \subseteq View(c) /\ \A r \in Cascade(c) : r.table \in Erasable
           /\ Job(c) = "forget"
<1>1. /\ Running(c) /\ Here(c).do \in Erases /\ ~aborted[Conn(c)] /\ Write(c, {}, Cascade(c))
      /\ UNCHANGED <<last, ids, cache>>
    BY DEF EraseRows, Ready, Erases, Local
<1>2. Here(c).table \in Erasable
    BY <1>1, HereIs DEF Proper
<1>3. \A r \in Erased(c) : r \in View(c) /\ r.table \in Erasable
    <2>1. \A r \in InTable(c, Here(c).table) : r \in View(c) /\ r.table \in Erasable
        BY <1>2 DEF InTable
    <2>2. \A r \in noted[c] : r.table \in Erasable
        BY DEF StoreInv
    <2> QED
        BY <1>1, <2>1, <2>2 DEF Erased, Erases
<1>4. ASSUME NEW q \in View(c), NEW r \in Erased(c), RefersTo(q, r) PROVE q.table \in Erasable
    <2>1. q.table \in Tables
        BY ViewIs DEF IsRow
    <2>2. PICK k \in schema[q.table].refs : Names[k] = r.table
        BY <1>4 DEF RefersTo
    <2> QED
        BY <1>3, <2>1, <2>2, SchemaIs, ReferrersAre
<1>5. Cascade(c) \subseteq View(c) /\ \A r \in Cascade(c) : r.table \in Erasable
    BY <1>3, <1>4 DEF Cascade
<1>6. Job(c) = "forget"
    BY <1>1, HereIs DEF OfJob
<1> QED
    BY <1>1, <1>5, <1>6

\* The other statements write nothing.
Reading(c) ==
    \/ FindRow(c) \/ LookUp(c) \/ JudgeConversation(c) \/ ReadMessages(c) \/ NoteIds(c) \/ ReadNoted(c)
    \/ WriteNothing(c) \/ Decide(c) \/ ChangeSession(c)

LEMMA ReadingIs ==
    ASSUME NEW c, Reading(c)
    PROVE  UNCHANGED <<rows, last, pend>>
<1>1. CASE FindRow(c) \/ LookUp(c) \/ JudgeConversation(c)
    BY <1>1 DEF FindRow, LookUp, JudgeConversation, NoWrite
<1>2. CASE NoteIds(c)
    BY <1>2 DEF NoteIds, NoWrite
<1>3. CASE ReadMessages(c) \/ ReadNoted(c)
    BY <1>3 DEF ReadMessages, ReadNoted, NoWrite
<1>4. CASE WriteNothing(c) \/ Decide(c) \/ ChangeSession(c)
    BY <1>4 DEF WriteNothing, Decide, ChangeSession, NoWrite
<1> QED
    BY <1>1, <1>2, <1>3, <1>4 DEF Reading

LEMMA CommitIs ==
    ASSUME NEW c, CommitWork(c)
    PROVE  /\ rows' = View(c) /\ pend' = [pend EXCEPT ![Conn(c)] = NoWork] /\ UNCHANGED <<last, ids, cache>>
           /\ Running(c) /\ Here(c).do = "commit" /\ ~aborted[Conn(c)]
BY DEF CommitWork, Ready, Local

LEMMA DoingsAre ==
    ASSUME NEW c, Doing(c)
    PROVE  Reading(c) \/ InsertRow(c) \/ CountRow(c) \/ EraseRows(c) \/ CommitWork(c)
BY DEF Doing, Reading

\* What a write leaves in the databases.
LEMMA WriteIs ==
    ASSUME NEW c \in Clients, TypeInv, NEW add, NEW remove, Write(c, add, remove)
    PROVE  IF Mongo THEN rows' = (rows \ remove) \cup add /\ pend' = pend
           ELSE /\ rows' = rows
                /\ pend'[Conn(c)].new = (pend[Conn(c)].new \ remove) \cup add
                /\ pend'[Conn(c)].gone = pend[Conn(c)].gone \cup (remove \cap rows)
                /\ \A n \in Connections \ {Conn(c)} : pend'[n] = pend[n]
<1>1. CASE Mongo
    BY <1>1 DEF Mongo, Write
<1>2. CASE ~Mongo
    <2> DEFINE w == [new |-> (pend[Conn(c)].new \ remove) \cup add, gone |-> pend[Conn(c)].gone \cup (remove \cap rows)]
    <2>1. rows' = rows /\ pend' = [pend EXCEPT ![Conn(c)] = w]
        BY <1>2 DEF Mongo, Write
    <2>2. Conn(c) \in Connections /\ pend = [n \in Connections |-> pend[n]]
        BY ConnectionIs DEF TypeInv
    <2>3. pend'[Conn(c)] = w /\ \A n \in Connections \ {Conn(c)} : pend'[n] = pend[n]
        BY <2>1, <2>2
    <2> QED
        BY <1>2, <2>1, <2>3
<1> QED
    BY <1>1, <1>2

\* The rows after a step are rows.
RowsAre == (\A r \in rows : IsRow(r)) /\ \A n \in Connections : \A r \in New(n) : IsRow(r)

LEMMA WrittenAre ==
    ASSUME NEW c \in Clients, TypeInv, StoreInv, NEW add, NEW remove, Write(c, add, remove), Grows,
           \A r \in add : IsRow(r)'
    PROVE  RowsAre'
<1>1. \A r : IsRow(r) => IsRow(r)'
    BY RowStays
<1>2. Conn(c) \in Connections /\ (\A r \in rows : IsRow(r)) /\ \A n \in Connections : \A r \in New(n) : IsRow(r)
    BY ConnectionIs DEF StoreInv
<1>3. \A r \in rows' : r \in rows \/ r \in add
    BY WriteIs
<1>4. ASSUME NEW n \in Connections, NEW r \in pend'[n].new PROVE r \in pend[n].new \/ r \in add
    BY WriteIs
<1>5. \A n \in Connections : \A r \in New(n)' : r \in New(n) \/ r \in add
    BY <1>4 DEF New
<1> QED
    BY <1>1, <1>2, <1>3, <1>5 DEF RowsAre

LEMMA ClearedAre ==
    ASSUME NEW c \in Clients, TypeInv, pend' = pend \/ pend' = [pend EXCEPT ![Conn(c)] = NoWork]
    PROVE  /\ \A n \in Connections : pend'[n] = pend[n] \/ pend'[n] = NoWork
           /\ \A n \in Connections \ {Conn(c)} : pend'[n] = pend[n]
           /\ pend' # pend => pend'[Conn(c)] = NoWork
<1>1. Conn(c) \in Connections /\ pend = [n \in Connections |-> pend[n]]
    BY ConnectionIs DEF TypeInv
<1>2. CASE pend' = pend
    BY <1>2
<1>3. CASE pend' = [pend EXCEPT ![Conn(c)] = NoWork]
    BY <1>1, <1>3
<1> QED
    BY <1>2, <1>3

LEMMA KeptAre ==
    ASSUME NEW c \in Clients, TypeInv, StoreInv, UNCHANGED last, \A r \in rows' : r \in rows \cup View(c),
           pend' = pend \/ pend' = [pend EXCEPT ![Conn(c)] = NoWork]
    PROVE  RowsAre'
<1>1. \A r : IsRow(r) => IsRow(r)'
    BY RowStays, LastStays
<1>2. (\A r \in rows : IsRow(r)) /\ \A n \in Connections : \A r \in New(n) : IsRow(r)
    BY DEF StoreInv
<1>3. \A r \in rows' : IsRow(r)
    BY <1>2, ViewIs
<1>4. ASSUME NEW n \in Connections, NEW r \in New(n)' PROVE IsRow(r)
    <2>1. pend'[n] = pend[n] \/ pend'[n] = NoWork
        BY ClearedAre
    <2>2. r \in pend[n].new
        BY <1>4, <2>1 DEF New, NoWork
    <2> QED
        BY <1>2, <2>2 DEF New
<1> QED
    BY <1>1, <1>3, <1>4 DEF RowsAre

LEMMA StepRows ==
    ASSUME BaseInv, NEW c \in Clients, Act(c) \/ Fail(c)
    PROVE  RowsAre'
<1>1. TypeInv /\ TodoInv /\ StoreInv
    BY DEF BaseInv
<1>2. CASE Begin(c)
    BY <1>1, <1>2, KeptAre DEF Begin
<1>3. CASE RestartTransaction(c)
    BY <1>1, <1>3, KeptAre DEF RestartTransaction
<1>4. CASE Raises(c)
    BY <1>1, <1>4, RaiseLeaves, KeptAre
<1>5. CASE Reading(c)
    BY <1>1, <1>5, ReadingIs, KeptAre
<1>6. CASE CommitWork(c)
    BY <1>1, <1>6, CommitIs, KeptAre
<1>7. CASE EraseRows(c)
    BY <1>1, <1>7, EraseRowsIs, WrittenAre, LastStays
<1>8. CASE CountRow(c)
    <2>1. PICK add : Write(c, add, Counted(c)) /\ \A r \in add : IsRow(r)
        BY <1>1, <1>8, CountRowIs
    <2>2. Grows
        BY <1>1, <1>8, CountRowIs, LastStays
    <2>3. \A r \in add : IsRow(r)'
        BY <1>1, <2>1, <2>2, RowStays
    <2> QED
        BY <1>1, <2>1, <2>2, <2>3, WrittenAre
<1>9. CASE InsertRow(c)
    <2>1. Write(c, {Draft(c)}, {}) /\ Grows /\ \A r : r = Draft(c) => IsRow(r)'
        BY <1>1, <1>9, DraftIs
    <2> DEFINE add == {Draft(c)}
    <2>2. Write(c, add, {}) /\ \A r \in add : IsRow(r)'
        BY <2>1
    <2> HIDE DEF add
    <2> QED
        BY <1>1, <2>1, <2>2, WrittenAre
<1> QED
    BY <1>2, <1>3, <1>4, <1>5, <1>6, <1>7, <1>8, <1>9, StepsAre, DoingsAre

\* What the clients have not committed.
PendingAre ==
    /\ Mongo => \A n \in Connections : pend[n] = NoWork
    /\ \A n \in Connections : aborted[n] => pend[n] = NoWork /\ n[2] = "main"

LEMMA StepPending ==
    ASSUME BaseInv, NEW c \in Clients, Act(c) \/ Fail(c)
    PROVE  PendingAre'
<1>1. TypeInv /\ TodoInv /\ StoreInv
    BY DEF BaseInv
<1>2. Mongo' = Mongo /\ PendingAre /\ Conn(c) \in Connections
    BY <1>1, FunctionalIs, ActsFrame, ConnectionIs DEF Frame, Mongo, PendingAre, StoreInv
<1>3. ASSUME NEW add, NEW remove, Write(c, add, remove), ~aborted[Conn(c)], aborted' = aborted PROVE PendingAre'
    <2>1. Mongo => pend' = pend
        BY <1>1, <1>3, WriteIs
    <2>2. \A n \in Connections \ {Conn(c)} : pend'[n] = pend[n]
        BY <1>1, <1>3, WriteIs
    <2> QED
        BY <1>2, <1>3, <2>1, <2>2 DEF PendingAre
<1>4. ASSUME pend' = pend \/ pend' = [pend EXCEPT ![Conn(c)] = NoWork], aborted' = aborted PROVE PendingAre'
    <2>1. \A n \in Connections : pend'[n] = pend[n] \/ pend'[n] = NoWork
        BY <1>1, <1>4, ClearedAre
    <2> QED
        BY <1>2, <1>4, <2>1 DEF PendingAre
<1>5. CASE Begin(c)
    BY <1>4, <1>5 DEF Begin
<1>6. CASE RestartTransaction(c)
    BY <1>4, <1>6 DEF RestartTransaction
<1>7. CASE Raises(c)
    <2>1. /\ pend' = pend \/ pend' = [pend EXCEPT ![Conn(c)] = NoWork]
          /\ aborted'[Conn(c)] => pend'[Conn(c)] = NoWork \/ (pend' = pend /\ aborted[Conn(c)])
          /\ aborted'[Conn(c)] => Conn(c)[2] = "main"
        BY <1>1, <1>7, RaiseLeaves
    <2>2. \A n \in Connections : pend'[n] = pend[n] \/ pend'[n] = NoWork
        BY <1>1, <2>1, ClearedAre
    <2>3. \A n \in Connections \ {Conn(c)} : aborted'[n] = aborted[n]
        BY <1>1, FunctionalIs, ActsFrame, ShapesStay
    <2>4. aborted'[Conn(c)] => pend'[Conn(c)] = NoWork
        BY <1>2, <2>1 DEF PendingAre
    <2> QED
        BY <1>2, <2>1, <2>2, <2>3, <2>4 DEF PendingAre
<1>8. CASE Doing(c)
    <2>1. aborted' = aborted
        BY <1>1, <1>8, DoingIs DEF By, Goes
    <2>2. CASE Reading(c)
        BY <1>4, <2>1, <2>2, ReadingIs
    <2>3. CASE CommitWork(c)
        BY <1>4, <2>1, <2>3, CommitIs
    <2>4. CASE EraseRows(c)
        BY <1>1, <1>3, <2>1, <2>4, EraseRowsIs
    <2>5. CASE CountRow(c)
        BY <1>1, <1>3, <2>1, <2>5, CountRowIs
    <2>6. CASE InsertRow(c)
        BY <1>1, <1>3, <2>1, <2>6, DraftIs
    <2> QED
        BY <1>8, <2>2, <2>3, <2>4, <2>5, <2>6, DoingsAre
<1> QED
    BY <1>5, <1>6, <1>7, <1>8, StepsAre

\* What a client has noted, and the id it goes by.
NotedAre ==
    /\ \A c \in Clients : \A r \in noted[c] : r.table \in Erasable
    /\ \A c \in Clients : Running(c) /\ Here(c).do \in Follows \cup {"return_recent"} =>
          got[c] <= last[Here(c).table]

LEMMA OthersNoted ==
    ASSUME TypeInv, TodoInv, StoreInv, NEW c \in Clients, Frame(c), Grows,
           \A r \in noted'[c] : r.table \in Erasable,
           Running(c)' /\ Here(c)'.do \in Follows \cup {"return_recent"} => got'[c] <= last'[Here(c)'.table]
    PROVE  NotedAre'
<1>1. ASSUME NEW d \in Clients PROVE \A r \in noted'[d] : r.table \in Erasable
    <2>1. CASE d = c
        BY <2>1
    <2>2. CASE d # c
        <3>1. noted'[d] = noted[d]
            BY <2>2, OthersStay
        <3>2. \A r \in noted[d] : r.table \in Erasable
            BY DEF StoreInv
        <3> QED
            BY <3>1, <3>2
    <2> QED
        BY <2>1, <2>2
<1>2. ASSUME NEW d \in Clients, Running(d)', Here(d)'.do \in Follows \cup {"return_recent"}
      PROVE  got'[d] <= last'[Here(d)'.table]
    <2>1. CASE d = c
        BY <1>2, <2>1
    <2>2. CASE d # c
        <3>1. Running(d) /\ Here(d)' = Here(d) /\ got'[d] = got[d]
            BY <1>2, <2>2, OthersStay
        <3>2. got[d] <= last[Here(d).table]
            BY <1>2, <3>1 DEF StoreInv
        <3>3. Here(d).table \in Tables
            BY <1>2, <3>1, HereIs DEF Proper, Follows, Ends
        <3>4. got[d] \in Nat /\ last[Here(d).table] \in Nat /\ last'[Here(d).table] \in Nat
              /\ last[Here(d).table] <= last'[Here(d).table]
            BY <3>3 DEF TypeInv, Grows
        <3> QED
            BY <3>1, <3>2, <3>4
    <2> QED
        BY <2>1, <2>2
<1> QED
    BY <1>1, <1>2 DEF NotedAre

\* The next statement follows the one that was done, or is not bound to it.
LEMMA NextFollows ==
    ASSUME TypeInv, TodoInv, NEW c \in Clients, NEW n, Goes(c, n), Running(c)', Here(c)'.do \in Bound
    PROVE  /\ n = 1 /\ Here(c)' = todo[c][2] /\ Len(todo[c]) >= 2
           /\ TidyAt(Mongo, todo[c], 2) /\ Here(c) = todo[c][1]
<1>1. /\ Len(todo[c]) \in Nat /\ Len(todo[c]) >= 1 /\ todo[c] \in Seq(Stmt)
      /\ Here(c) = todo[c][1] /\ Here(c).skip \in Nat
    BY HereIs DEF Goes
<1>2. n \in 1 .. Len(todo[c]) /\ todo'[c] = After(todo[c], n) /\ n # Len(todo[c])
    BY GoesOn DEF Running
<1>3. Here(c)' = todo[c][1 + n]
    <2>1. /\ Len(After(todo[c], n)) = Len(todo[c]) - n
          /\ \A i \in 1 .. Len(todo[c]) - n : After(todo[c], n)[i] = todo[c][i + n]
          /\ After(todo[c], n) \in Seq(Stmt)
        BY <1>1, <1>2, AfterIs
    <2>2. 1 \in 1 .. Len(todo[c]) - n
        BY <1>1, <1>2
    <2>3. Here(c)' = After(todo[c], n)[1]
        BY <1>2, <2>1 DEF Here
    <2> QED
        BY <2>1, <2>2, <2>3
<1>4. Tidy(Mongo, todo[c])
    BY DEF TodoInv, Rest, Goes
<1>5. n = 1
    <2>1. ASSUME n # 1 PROVE FALSE
        <3>1. Here(c).do \in Branches /\ n = Here(c).skip + 1
            BY <2>1 DEF Goes
        <3>2. TidyAt(Mongo, todo[c], 1)
            BY <1>1, <1>4 DEF Tidy
        <3>3. 1 + Here(c).skip < Len(todo[c]) => todo[c][1 + Here(c).skip + 1].do \notin Bound
            BY <1>1, <3>1, <3>2 DEF TidyAt
        <3>4. 1 + Here(c).skip < Len(todo[c]) /\ 1 + Here(c).skip + 1 = 1 + n
            BY <1>1, <1>2, <3>1
        <3> QED
            BY <1>3, <3>3, <3>4
    <2> QED
        BY <2>1
<1>6. Len(todo[c]) >= 2 /\ TidyAt(Mongo, todo[c], 2)
    <2> DEFINE l == Len(todo[c])
    <2>1. l >= 2
        <3>1. l \in Nat /\ 1 \in 1 .. l /\ 1 # l
            BY <1>1, <1>2, <1>5
        <3> HIDE DEF l
        <3> QED
            BY <3>1
    <2> QED
        BY <1>1, <1>4, <2>1 DEF Tidy
<1> QED
    BY <1>1, <1>3, <1>5, <1>6

LEMMA DoneNotes ==
    ASSUME TypeInv, TodoInv, StoreInv, NEW c \in Clients, NEW n, By(c, n), Frame(c)
    PROVE  NotedAre'
<1>1. ASSUME Running(c)', Here(c)'.do \in Follows \cup {"return_recent"}
      PROVE  got'[c] <= last'[Here(c)'.table]
    <2>1. Here(c)'.do \in Bound /\ Goes(c, n)
        BY <1>1 DEF By, Bound
    <2>2. n = 1 /\ Here(c)' = todo[c][2] /\ Len(todo[c]) >= 2 /\ TidyAt(Mongo, todo[c], 2) /\ Here(c) = todo[c][1]
        BY <1>1, <2>1, NextFollows
    <2>3. n # Len(todo[c])
        BY <2>2
    <2>4. 2 - 1 = 1 /\ 2 > 1
        OBVIOUS
    <2>5. todo[c][1].table = todo[c][2].table /\ (todo[c][1].do = "find" \/ todo[c][1].do = "count_found")
        BY <1>1, <2>2, <2>4 DEF TidyAt
    <2>6. Here(c)'.table = Here(c).table /\ (Here(c).do = "find" \/ Here(c).do = "count_found")
        BY <2>2, <2>5
    <2>7. Running(c) /\ Here(c).table \in Tables
        BY <2>1, <2>6, HereIs DEF Proper, Ends, Goes
    <2>8. /\ last[Here(c).table] \in Nat /\ last'[Here(c).table] \in Nat /\ last[Here(c).table] <= last'[Here(c).table]
          /\ got[c] \in Nat
        BY <2>7 DEF By, Grows, TypeInv
    <2>9. got'[c] <= last[Here(c).table] /\ got'[c] \in Nat
        <3>1. CASE Here(c).do = "find"
            <4>1. got'[c] \in 0 .. last[Here(c).table]
                BY <2>3, <3>1 DEF By, GotBy
            <4> QED
                BY <2>8, <4>1
        <3>2. CASE Here(c).do = "count_found"
            <4>1. got'[c] = got[c]
                BY <2>3, <3>2 DEF By, GotBy
            <4>2. got[c] <= last[Here(c).table]
                BY <2>7, <3>2 DEF StoreInv, Follows
            <4> QED
                BY <2>8, <4>1, <4>2
        <3> QED
            BY <2>6, <3>1, <3>2
    <2> QED
        BY <2>6, <2>8, <2>9
<1>2. \A r \in noted'[c] : r.table \in Erasable
    BY DEF By, NotedBy
<1> QED
    BY <1>1, <1>2, OthersNoted DEF By

\* A program starts with a statement that is not bound to another.
LEMMA ProgramStarts ==
    ASSUME TypeInv, NEW j \in JobKinds
    PROVE  Head(Program(j)).do \notin Bound
<1>1. ProgramOf(Mongo, j, Program(j)) /\ Program(j) # <<>>
    BY ProgramIs
<1>2. Program(j) \in Seq(OfJob(j)) /\ Program(j)[1].do \notin Bound
    BY <1>1 DEF ProgramOf, Unit
<1> QED
    BY <1>1, <1>2

LEMMA StepNotes ==
    ASSUME BaseInv, NEW c \in Clients, Act(c) \/ Fail(c)
    PROVE  NotedAre'
<1>1. TypeInv /\ TodoInv /\ StoreInv /\ Frame(c)
    BY FunctionalIs, ActsFrame DEF BaseInv
<1>2. noted = [d \in Clients |-> noted[d]] /\ \A r \in noted[c] : r.table \in Erasable
    BY <1>1 DEF TypeInv, StoreInv
<1>3. CASE Begin(c)
    <2>1. Here(c)'.do \notin Bound
        BY <1>1, <1>3, BeginTypes, ProgramStarts DEF Here
    <2>2. noted' = noted /\ Grows
        BY <1>1, <1>3, LastStays DEF Begin
    <2> QED
        BY <1>1, <1>2, <2>1, <2>2, OthersNoted DEF Bound
<1>4. CASE RestartTransaction(c)
    <2>1. Here(c)'.do \notin Bound
        BY <1>1, <1>4, RestartTypes, ProgramStarts DEF Here, JobKinds
    <2>2. noted' = noted /\ Grows
        BY <1>1, <1>4, LastStays DEF RestartTransaction
    <2> QED
        BY <1>1, <1>2, <2>1, <2>2, OthersNoted DEF Bound
<1>5. CASE Raises(c)
    <2>1. ~Running(c)' /\ noted'[c] = {} /\ Grows
        BY <1>1, <1>5, RaiseLeaves, LastStays
    <2> QED
        BY <1>1, <2>1, OthersNoted
<1>6. CASE Doing(c)
    BY <1>1, <1>6, DoingIs, DoneNotes
<1> QED
    BY <1>3, <1>4, <1>5, <1>6, StepsAre

-----------------------------------------------------------------------------
LEMMA NextBase ==
    ASSUME BaseInv, [Next]_vars
    PROVE  BaseInv'
<1>1. CASE Next
    <2>1. PICK c \in Clients : Act(c) \/ Fail(c)
        BY <1>1 DEF Next
    <2>2. TypeInv' /\ TodoInv'
        BY <2>1, NextRests DEF BaseInv
    <2>3. RowsAre' /\ PendingAre' /\ NotedAre'
        BY <2>1, StepRows, StepPending, StepNotes
    <2>4. StoreInv'
        BY <2>3 DEF RowsAre, PendingAre, NotedAre, StoreInv
    <2> QED
        BY <2>2, <2>4 DEF BaseInv
<1>2. CASE UNCHANGED vars
    <2>1. TypeInv'
        BY <1>2, UnchangedTypes DEF BaseInv
    <2>2. UNCHANGED <<dialect, play, rows, last, pend, aborted, job, todo, ids, got, noted>>
        BY <1>2 DEF vars
    <2>3. \A r : IsRow(r)' = IsRow(r)
        BY <2>2 DEF IsRow
    <2>4. \A c : Running(c)' = Running(c) /\ Here(c)' = Here(c) /\ Job(c)' = Job(c)
        BY <2>2 DEF Running, Here, Job
    <2>5. Mongo' = Mongo /\ \A n : New(n)' = New(n)
        BY <2>2 DEF Mongo, New
    <2>6. StoreInv'
        BY <2>2, <2>3, <2>4, <2>5 DEF StoreInv, BaseInv
    <2>7. ASSUME NEW c \in Clients, Running(c)' PROVE Rest(c)'
        <3>1. Rest(c)
            BY <2>4, <2>7 DEF BaseInv, TodoInv
        <3> QED
            BY <2>2, <2>4, <2>5, <3>1 DEF Rest
    <2>8. TodoInv'
        BY <2>7 DEF TodoInv
    <2> QED
        BY <2>1, <2>6, <2>8 DEF BaseInv
<1> QED
    BY <1>1, <1>2

\* What is so in every state of a client's job, of the rows and of what the
\* connections have not committed.
THEOREM BaseHolds == Spec => []BaseInv
<1>1. Init => BaseInv
    BY InitTypes DEF BaseInv
<1>2. BaseInv /\ [Next]_vars => BaseInv'
    BY NextBase
<1> QED
    BY <1>1, <1>2, PTL DEF Spec

-----------------------------------------------------------------------------
(* The messages of the turns.                                              *)
Words == {"question", "answer"}

Said(S) == {r \in S : r.table = "conversation_message"}
Text(r) == r.cols["content"]

\* A message of turn i of c is in S.
Spoke(S, c, i, d) == \E r \in Said(S) : Text(r) = <<c, i, d>>

Stored == rows \cup UNION {New(n) : n \in Connections}

\* Every message is of a turn that began; it is one row, and is uncommitted on
\* the main connection of its client only, where nobody erases it.
SpokenInv ==
    /\ \A n \in Connections : Said(Gone(n)) = {}
    /\ \A r \in Said(Stored) : \E c \in Clients, d \in Words : \E i \in 1 .. job[c] :
          Text(r) = <<c, i, d>> /\ play[c].jobs[i] = "turn"
    /\ \A n \in Connections : \A r \in Said(New(n)) : Text(r)[1] = n[1] /\ n[2] = "main"
    /\ \A r, q \in Said(Stored) : Text(r) = Text(q) => r = q
    /\ \A x \in cancelled : \E c \in Clients : \E i \in 1 .. Len(outcome[c]) : x = <<c, i>>

\* What a turn has said is what it has run of its program; it is uncommitted.
Underway(c) ==
    /\ ~Mongo => \A d \in Words : ~Spoke(rows, c, job[c], d)
    /\ Spoke(Stored, c, job[c], "question") <=> Len(todo[c]) <= 2
    /\ Spoke(Stored, c, job[c], "answer") <=> Len(todo[c]) <= 1

Said2(c, i) == \A d \in Words : Spoke(rows, c, i, d)

MessageInv ==
    /\ SpokenInv
    /\ \A c \in Clients : Running(c) /\ Job(c) = "turn" => Underway(c)
    /\ \A c \in Clients : \A i \in 1 .. Len(outcome[c]) :
          play[c].jobs[i] = "turn" /\ <<c, i>> \notin cancelled => Said2(c, i)

-----------------------------------------------------------------------------
(* What a step does to the messages.                                       *)
Keeps(c) == Said(rows') = Said(rows) /\ \A n \in Connections : Said(pend'[n].new) = Said(pend[n].new)

Drops(c) ==
    /\ Said(rows') = Said(rows) /\ Said(pend'[Conn(c)].new) = {}
    /\ \A n \in Connections \ {Conn(c)} : Said(pend'[n].new) = Said(pend[n].new)

Commits(c) ==
    /\ Said(rows') = Said(rows) \cup Said(pend[Conn(c)].new) /\ Said(pend'[Conn(c)].new) = {}
    /\ \A n \in Connections \ {Conn(c)} : Said(pend'[n].new) = Said(pend[n].new)

Says(c, r) ==
    /\ \/ /\ Mongo /\ Said(rows') = Said(rows) \cup {r}
          /\ \A n \in Connections : Said(pend'[n].new) = Said(pend[n].new)
       \/ /\ ~Mongo /\ Said(rows') = Said(rows) /\ Said(pend'[Conn(c)].new) = Said(pend[Conn(c)].new) \cup {r}
          /\ \A n \in Connections \ {Conn(c)} : Said(pend'[n].new) = Said(pend[n].new)
    /\ r.table = "conversation_message" /\ Text(r) = <<c, job[c], Here(c).datum>>
    /\ Running(c) /\ MessageAdd(Here(c))

LEMMA SaidIs ==
    /\ \A S, T : Said(S \cup T) = Said(S) \cup Said(T) /\ Said(S \ T) = Said(S) \ Said(T)
    /\ Said({}) = {} /\ Said(NoWork.new) = {} /\ Said(NoWork.gone) = {}
    /\ \A S : (\A r \in S : r.table # "conversation_message") => Said(S) = {}
    /\ \A r : r.table = "conversation_message" => Said({r}) = {r}
BY DEF Said, NoWork

LEMMA SaidWith ==
    ASSUME NEW S, NEW add, NEW remove, Said(remove) = {}
    PROVE  /\ Said((S \ remove) \cup add) = Said(S) \cup Said(add)
           /\ Said(add) = {} => Said((S \ remove) \cup add) = Said(S)
BY DEF Said

LEMMA WriteKeeps ==
    ASSUME NEW c \in Clients, TypeInv, \A n \in Connections : Said(Gone(n)) = {},
           NEW add, NEW remove, Write(c, add, remove), Said(add) = {}, Said(remove) = {}
    PROVE  Keeps(c) /\ \A n \in Connections : Said(pend'[n].gone) = {}
<1>1. CASE Mongo
    <2>1. rows' = (rows \ remove) \cup add /\ pend' = pend
        BY <1>1, WriteIs
    <2>3. Said((rows \ remove) \cup add) = (Said(rows) \ Said(remove)) \cup Said(add)
        BY DEF Said
    <2>2. Said(rows') = Said(rows)
        BY <2>1, <2>3
    <2> QED
        BY <2>1, <2>2 DEF Keeps, Gone
<1>2. CASE ~Mongo
    <2>1. /\ rows' = rows
          /\ pend'[Conn(c)].new = (pend[Conn(c)].new \ remove) \cup add
          /\ pend'[Conn(c)].gone = pend[Conn(c)].gone \cup (remove \cap rows)
          /\ \A n \in Connections \ {Conn(c)} : pend'[n] = pend[n]
        BY <1>2, WriteIs
    <2>6. Said((pend[Conn(c)].new \ remove) \cup add)
            = (Said(pend[Conn(c)].new) \ Said(remove)) \cup Said(add)
        BY DEF Said
    <2>2. Said(pend'[Conn(c)].new) = Said(pend[Conn(c)].new)
        BY <2>1, <2>6
    <2>3. Said(remove \cap rows) = {}
        BY DEF Said
    <2>4. Conn(c) \in Connections
        BY ConnectionIs
    <2>5. Said(pend'[Conn(c)].gone) = {}
        BY <2>1, <2>3, <2>4, SaidIs DEF Gone
    <2> QED
        BY <2>1, <2>2, <2>5 DEF Keeps, Gone
<1> QED
    BY <1>1, <1>2

LEMMA DropKeeps ==
    ASSUME NEW c \in Clients, TypeInv, \A n \in Connections : Said(Gone(n)) = {}, rows' = rows,
           pend' = pend \/ pend' = [pend EXCEPT ![Conn(c)] = NoWork]
    PROVE  (Keeps(c) \/ Drops(c)) /\ \A n \in Connections : Said(pend'[n].gone) = {}
<1>1. CASE pend' = pend
    BY <1>1 DEF Keeps, Gone
<1>2. CASE pend' # pend
    <2>1. pend'[Conn(c)] = NoWork /\ \A n \in Connections \ {Conn(c)} : pend'[n] = pend[n]
        BY <1>2, ClearedAre
    <2> QED
        BY <2>1, SaidIs DEF Drops, Gone
<1> QED
    BY <1>1, <1>2

\* A statement that writes a message is the INSERT of one.
LEMMA MessageRuns ==
    ASSUME NEW c \in Clients, TypeInv, TodoInv, Doing(c), MessageAdd(Here(c))
    PROVE  InsertRow(c)
<1>1. Running(c)
    BY DEF Doing, FindRow, LookUp, JudgeConversation, ReadMessages, NoteIds, ReadNoted, InsertRow, CountRow,
           WriteNothing, EraseRows, CommitWork, Decide, ChangeSession, Ready
<1>2. Here(c).do = "add" /\ Here(c).table = "conversation_message"
    BY <1>1, HereIs DEF MessageAdd, Proper, Adds, Reads
<1>3. ~LeftOut(c) /\ Inserts(c) /\ Counted(c) = {}
    BY <1>2 DEF LeftOut, Inserts, Counted
<1>4. ~FindRow(c) /\ ~LookUp(c) /\ ~JudgeConversation(c)
    BY <1>2 DEF FindRow, LookUp, JudgeConversation, Ready
<1>5. ~NoteIds(c) /\ ~Decide(c) /\ ~EraseRows(c) /\ ~CommitWork(c) /\ ~ChangeSession(c)
    BY <1>2 DEF NoteIds, Decide, EraseRows, CommitWork, ChangeSession, Ready, Erases
<1>6. ~ReadMessages(c) /\ ~ReadNoted(c)
    BY <1>2 DEF ReadMessages, ReadNoted, Ready
<1>7. ~CountRow(c) /\ ~WriteNothing(c)
    BY <1>2, <1>3 DEF CountRow, WriteNothing
<1> QED
    BY <1>4, <1>5, <1>6, <1>7 DEF Doing

LEMMA CommitRuns ==
    ASSUME NEW c \in Clients, Doing(c), Here(c).do = "commit"
    PROVE  CommitWork(c)
<1>1. ~FindRow(c) /\ ~LookUp(c) /\ ~JudgeConversation(c)
    BY DEF FindRow, LookUp, JudgeConversation, Ready
<1>2. ~NoteIds(c) /\ ~Decide(c) /\ ~EraseRows(c) /\ ~InsertRow(c) /\ ~ChangeSession(c)
    BY DEF NoteIds, Decide, EraseRows, InsertRow, ChangeSession, Ready, Erases, Adds
<1>3. ~ReadMessages(c) /\ ~ReadNoted(c) /\ ~CountRow(c) /\ ~WriteNothing(c)
    BY DEF ReadMessages, ReadNoted, CountRow, WriteNothing, Ready, Adds
<1> QED
    BY <1>1, <1>2, <1>3 DEF Doing

LEMMA InsertSays ==
    ASSUME NEW c \in Clients, BaseInv, \A n \in Connections : Said(Gone(n)) = {}, InsertRow(c)
    PROVE  /\ \A n \in Connections : Said(pend'[n].gone) = {}
           /\ IF Here(c).table = "conversation_message" THEN \E r : Says(c, r) ELSE Keeps(c)
<1>1. /\ Running(c) /\ Here(c).do \in Adds /\ Draft(c).table = Here(c).table
      /\ DOMAIN Draft(c).cols = Columns[Here(c).table]
      /\ \A k \in Columns[Here(c).table] : Draft(c).cols[k] = Value(c, Here(c).table, k)
      /\ Write(c, {Draft(c)}, {})
    BY DraftIs DEF BaseInv
<1>2. Conn(c) \in Connections
    BY ConnectionIs
<1>3. CASE Here(c).table # "conversation_message"
    <2>1. Said({Draft(c)}) = {} /\ Said({}) = {}
        BY <1>1, <1>3 DEF Said
    <2> QED
        BY <1>1, <1>3, <2>1, WriteKeeps DEF BaseInv
<1>4. CASE Here(c).table = "conversation_message"
    <2>1. PICK r : r = Draft(c)
        OBVIOUS
    <2>2. r.table = "conversation_message" /\ Said({r}) = {r}
        BY <1>1, <1>4, <2>1, SaidIs
    <2>3. "content" \in Columns[Here(c).table]
        BY <1>4, ColumnsAre
    <2>4. Text(r) = <<c, job[c], Here(c).datum>>
        <3>1. Value(c, Here(c).table, "content") = <<c, job[c], Here(c).datum>>
            BY DEF Value
        <3> QED
            BY <1>1, <2>1, <2>3, <3>1 DEF Text
    <2>5. MessageAdd(Here(c))
        BY <1>1, <1>4 DEF MessageAdd
    <2>8. Write(c, {r}, {})
        BY <1>1, <2>1
    <2>6. CASE Mongo
        <3>1. rows' = (rows \ {}) \cup {r} /\ pend' = pend
            BY <2>6, <2>8, WriteIs DEF BaseInv
        <3>4. Said({}) = {}
            BY SaidIs
        <3>5. Said((rows \ {}) \cup {r}) = Said(rows) \cup Said({r})
            BY <3>4, SaidWith
        <3>2. Said(rows') = Said(rows) \cup {r}
            BY <2>2, <3>1, <3>5
        <3>3. Says(c, r)
            BY <1>1, <2>2, <2>4, <2>5, <2>6, <3>1, <3>2 DEF Says
        <3> QED
            BY <1>4, <3>1, <3>3 DEF Gone
    <2>7. CASE ~Mongo
        <3>0. /\ rows' = rows /\ pend'[Conn(c)].new = (pend[Conn(c)].new \ {}) \cup {r}
              /\ pend'[Conn(c)].gone = pend[Conn(c)].gone \cup ({} \cap rows)
              /\ \A n \in Connections \ {Conn(c)} : pend'[n] = pend[n]
            BY <2>7, <2>8, WriteIs DEF BaseInv
        <3>1. /\ rows' = rows /\ pend'[Conn(c)].gone = pend[Conn(c)].gone
              /\ \A n \in Connections \ {Conn(c)} : pend'[n] = pend[n]
            BY <3>0
        <3>4. Said((pend[Conn(c)].new \ {}) \cup {r}) = Said(pend[Conn(c)].new) \cup Said({r})
            BY DEF Said
        <3>2. Said(pend'[Conn(c)].new) = Said(pend[Conn(c)].new) \cup {r}
            BY <2>2, <3>0, <3>4
        <3>3. Says(c, r)
            BY <1>1, <2>2, <2>4, <2>5, <2>7, <3>1, <3>2 DEF Says
        <3> QED
            BY <1>2, <1>4, <3>1, <3>3 DEF Gone
    <2> QED
        BY <2>6, <2>7
<1> QED
    BY <1>3, <1>4

LEMMA StepSays ==
    ASSUME NEW c \in Clients, BaseInv, \A n \in Connections : Said(Gone(n)) = {}, Act(c) \/ Fail(c)
    PROVE  /\ \A n \in Connections : Said(pend'[n].gone) = {}
           /\ Begin(c) => Keeps(c)
           /\ RestartTransaction(c) => Drops(c)
           /\ Raises(c) => Keeps(c) \/ Drops(c)
           /\ Doing(c) => IF MessageAdd(Here(c)) THEN \E r : Says(c, r)
                          ELSE IF Here(c).do = "commit" THEN Commits(c) ELSE Keeps(c)
<1>1. TypeInv /\ TodoInv /\ StoreInv /\ Conn(c) \in Connections
    BY ConnectionIs DEF BaseInv
<1> DEFINE Kept == \A n \in Connections : Said(pend'[n].gone) = {}
<1>2. ASSUME Begin(c) PROVE Keeps(c) /\ Kept
    BY <1>2 DEF Begin, Keeps, Gone
<1>3. ASSUME RestartTransaction(c) PROVE Drops(c) /\ Kept
    <2>1. rows' = rows /\ pend' = [pend EXCEPT ![Conn(c)] = NoWork] /\ pend = [n \in Connections |-> pend[n]]
        BY <1>1, <1>3 DEF RestartTransaction, TypeInv
    <2>2. pend'[Conn(c)] = NoWork /\ \A n \in Connections \ {Conn(c)} : pend'[n] = pend[n]
        BY <1>1, <2>1
    <2> QED
        BY <2>1, <2>2, SaidIs DEF Drops, Gone
<1>4. ASSUME Raises(c) PROVE (Keeps(c) \/ Drops(c)) /\ Kept
    BY <1>1, <1>4, RaiseLeaves, DropKeeps
<1>5. ASSUME Reading(c) PROVE Keeps(c) /\ Kept
    BY <1>5, ReadingIs DEF Keeps, Gone
<1>6. ASSUME EraseRows(c) PROVE Keeps(c) /\ Kept
    <2>1. Write(c, {}, Cascade(c)) /\ \A r \in Cascade(c) : r.table \in Erasable
        BY <1>1, <1>6, EraseRowsIs
    <2>2. Said(Cascade(c)) = {} /\ Said({}) = {}
        BY <2>1 DEF Said, Erasable, Graph
    <2> QED
        BY <1>1, <2>1, <2>2, WriteKeeps
<1>7. ASSUME CountRow(c) PROVE Keeps(c) /\ Kept
    <2>1. PICK add : /\ Write(c, add, Counted(c))
                     /\ \A r \in add : \E q \in Counted(c) : r.table = q.table
        BY <1>1, <1>7, CountRowIs
    <2>2. Here(c).table # "conversation_message" /\ \A r \in Counted(c) : r.table = Here(c).table
        BY <1>1, <1>7, CountRowIs DEF Counts
    <2>3. Said(add) = {} /\ Said(Counted(c)) = {}
        BY <2>1, <2>2 DEF Said
    <2> QED
        BY <1>1, <2>1, <2>3, WriteKeeps
<1>8. ASSUME CommitWork(c) PROVE Commits(c) /\ Running(c) /\ Here(c).do = "commit" /\ Kept
    <2>1. rows' = View(c) /\ pend' = [pend EXCEPT ![Conn(c)] = NoWork] /\ Running(c) /\ Here(c).do = "commit"
        BY <1>8, CommitIs
    <2>2. pend'[Conn(c)] = NoWork /\ \A n \in Connections \ {Conn(c)} : pend'[n] = pend[n]
        BY <1>1, <2>1 DEF TypeInv
    <2>3. Said(rows') = Said(rows) \cup Said(pend[Conn(c)].new)
        BY <1>1, <2>1, SaidWith DEF View, Gone
    <2> QED
        BY <2>1, <2>2, <2>3, SaidIs DEF Commits, Gone
<1>9. ASSUME InsertRow(c)
      PROVE  Kept /\ IF MessageAdd(Here(c)) THEN \E r : Says(c, r) ELSE Keeps(c)
    <2>1. Here(c).do \in Adds
        BY <1>1, <1>9, DraftIs
    <2> QED
        BY <1>9, <2>1, InsertSays DEF MessageAdd
<1> HIDE DEF Kept
<1>10. ASSUME Doing(c)
       PROVE  Kept /\ IF MessageAdd(Here(c)) THEN \E r : Says(c, r)
                      ELSE IF Here(c).do = "commit" THEN Commits(c) ELSE Keeps(c)
    <2>1. CASE MessageAdd(Here(c))
        <3>1. InsertRow(c)
            BY <1>1, <1>10, <2>1, MessageRuns
        <3> QED
            BY <1>9, <2>1, <3>1
    <2>2. CASE ~MessageAdd(Here(c))
        <3>1. CASE Here(c).do = "commit"
            BY <1>8, <1>10, <2>2, <3>1, CommitRuns
        <3>2. CASE Here(c).do # "commit"
            <4>1. ~CommitWork(c)
                BY <3>2, CommitIs
            <4>2. Kept /\ Keeps(c)
                BY <1>5, <1>6, <1>7, <1>9, <1>10, <2>2, <4>1, DoingsAre
            <4> QED
                BY <2>2, <3>2, <4>2
        <3> QED
            BY <3>1, <3>2
    <2> QED
        BY <2>1, <2>2
<1>11. Kept
    BY <1>2, <1>3, <1>4, <1>10, StepsAre
<1> QED
    BY <1>2, <1>3, <1>4, <1>10, <1>11 DEF Kept

\* Where a turn is in its program.
LEMMA TurnAt ==
    ASSUME NEW c \in Clients, TypeInv, TodoInv, NEW n, Goes(c, n), Job(c) = "turn"
    PROVE  /\ Len(todo[c]) \in Nat /\ n \in 1 .. Len(todo[c])
           /\ MessageAdd(Here(c)) => n = 1 /\ (\/ Len(todo[c]) = 3 /\ Here(c).datum = "question"
                                               \/ Len(todo[c]) = 2 /\ Here(c).datum = "answer")
           /\ ~MessageAdd(Here(c)) => \/ Len(todo[c]) - n >= 3
                                      \/ Len(todo[c]) = 1 /\ n = 1 /\ Here(c).do = "commit"
<1> DEFINE s == todo[c]
           l == Len(todo[c])
<1>1. l \in Nat /\ l >= 1 /\ Here(c) = s[1] /\ Here(c).skip \in Nat /\ TurnShape(s)
    BY HereIs DEF Goes, TodoInv, Rest
<1>2. n \in 1 .. l /\ (n = 1 \/ (Here(c).do \in Branches /\ n = Here(c).skip + 1))
    BY GoesOn DEF Goes
<1>3. /\ s[l].do = "commit"
      /\ l >= 2 => MessageAdd(s[l - 1]) /\ s[l - 1].datum = "answer"
      /\ l >= 3 => MessageAdd(s[l - 2]) /\ s[l - 2].datum = "question"
      /\ \A i \in 1 .. l - 3 : ~MessageAdd(s[i]) /\ (s[i].do \in Branches => i + s[i].skip <= l - 3)
    BY <1>1 DEF TurnShape
<1> HIDE DEF s, l
<1>4. MessageAdd(Here(c)) => Here(c).do \notin Branches
    BY DEF MessageAdd, Adds, Branches
<1>5. CASE l = 1
    <2>1. n = 1 /\ Here(c).do = "commit"
        BY <1>1, <1>2, <1>3, <1>5
    <2>2. ~MessageAdd(Here(c))
        BY <2>1 DEF MessageAdd, Adds
    <2> QED
        BY <1>1, <1>2, <1>5, <2>1, <2>2 DEF l
<1>6. CASE l = 2
    <2>1. MessageAdd(Here(c)) /\ Here(c).datum = "answer" /\ l - 1 = 1
        BY <1>1, <1>3, <1>6
    <2> QED
        BY <1>1, <1>2, <1>4, <1>6, <2>1 DEF l
<1>7. CASE l = 3
    <2>1. MessageAdd(Here(c)) /\ Here(c).datum = "question" /\ l - 2 = 1
        BY <1>1, <1>3, <1>7
    <2> QED
        BY <1>1, <1>2, <1>4, <1>7, <2>1 DEF l
<1>8. CASE l >= 4
    <2>1. 1 \in 1 .. l - 3
        BY <1>1, <1>8
    <2>2. ~MessageAdd(Here(c)) /\ (Here(c).do \in Branches => 1 + Here(c).skip <= l - 3)
        BY <1>1, <1>3, <2>1
    <2>3. l - n >= 3
        BY <1>1, <1>2, <1>8, <2>2
    <2> QED
        BY <1>1, <1>2, <2>2, <2>3 DEF l
<1> QED
    BY <1>1, <1>5, <1>6, <1>7, <1>8

\* Which messages there are after a step, of whom.
LEMMA StoredAre ==
    ASSUME NEW c \in Clients, SpokenInv, Conn(c) \in Connections,
           NEW r \in Said(Stored)'
    PROVE  /\ Keeps(c) \/ Drops(c) \/ Commits(c) => r \in Said(Stored)
           /\ \A q : Says(c, q) => r = q \/ r \in Said(Stored)
<1>1. r.table = "conversation_message" /\ (r \in rows' \/ \E n \in Connections : r \in pend'[n].new)
    BY DEF Said, Stored, New
<1>2. r \in Said(rows') \/ \E n \in Connections : r \in Said(pend'[n].new)
    BY <1>1 DEF Said
<1>3. \A q : (q \in Said(rows) \/ \E n \in Connections : q \in Said(pend[n].new)) => q \in Said(Stored)
    BY DEF Said, Stored, New
<1>4. Keeps(c) \/ Drops(c) \/ Commits(c) => r \in Said(rows) \/ \E n \in Connections : r \in Said(pend[n].new)
    BY <1>2 DEF Keeps, Drops, Commits
<1>5. ASSUME NEW q, Says(c, q) PROVE r = q \/ r \in Said(rows) \/ \E n \in Connections : r \in Said(pend[n].new)
    BY <1>2, <1>5 DEF Says
<1> QED
    BY <1>3, <1>4, <1>5

LEMMA SpokenIs ==
    ASSUME NEW c \in Clients, NEW i, NEW d
    PROVE  /\ Spoke(Stored, c, i, d) <=> Spoke(rows, c, i, d) \/ \E n \in Connections : Spoke(pend[n].new, c, i, d)
           /\ Spoke(Stored, c, i, d)' <=> Spoke(rows', c, i, d) \/ \E n \in Connections : Spoke(pend'[n].new, c, i, d)
BY DEF Spoke, Said, Stored, New

\* A connection holds messages of its client only.
LEMMA SpeaksIs ==
    ASSUME SpokenInv, NEW n \in Connections, NEW c \in Clients, NEW i, NEW d, Spoke(pend[n].new, c, i, d)
    PROVE  n[1] = c /\ n[2] = "main" /\ n = <<c, "main">>
<1>1. PICK r \in Said(pend[n].new) : Text(r) = <<c, i, d>>
    BY DEF Spoke
<1>2. Text(r)[1] = n[1] /\ n[2] = "main"
    BY DEF SpokenInv, New
<1>3. n = <<n[1], n[2]>>
    BY DEF Connections
<1> QED
    BY <1>1, <1>2, <1>3

\* What another client has said stays where it is.
LEMMA OthersSpeak ==
    ASSUME NEW c \in Clients, SpokenInv, Conn(c) \in Connections, Conn(c)[1] = c,
           Keeps(c) \/ Drops(c) \/ Commits(c) \/ \E q : Says(c, q),
           NEW d \in Clients \ {c}, NEW i, NEW w
    PROVE  /\ Spoke(rows', d, i, w) <=> Spoke(rows, d, i, w)
           /\ Spoke(Stored, d, i, w)' <=> Spoke(Stored, d, i, w)
<1>1. ~Spoke(pend[Conn(c)].new, d, i, w)
    BY SpeaksIs
<1>2. \A S, T : (Said(S) = Said(T) => (Spoke(S, d, i, w) <=> Spoke(T, d, i, w)))
    BY DEF Spoke
<1>3. \A S : Said(S) = {} => ~Spoke(S, d, i, w)
    BY DEF Spoke
<1>4. \A S, q, T : Says(c, q) /\ Said(S) = Said(T) \cup {q} => (Spoke(S, d, i, w) <=> Spoke(T, d, i, w))
    BY DEF Spoke, Says
<1>5. CASE Keeps(c)
    <2>1. Spoke(rows', d, i, w) <=> Spoke(rows, d, i, w)
        BY <1>2, <1>5 DEF Keeps
    <2>2. \A n \in Connections : Spoke(pend'[n].new, d, i, w) <=> Spoke(pend[n].new, d, i, w)
        BY <1>2, <1>5 DEF Keeps
    <2> QED
        BY <2>1, <2>2, SpokenIs
<1>6. CASE Drops(c)
    <2>1. Spoke(rows', d, i, w) <=> Spoke(rows, d, i, w)
        BY <1>2, <1>6 DEF Drops
    <2>2. \A n \in Connections : Spoke(pend'[n].new, d, i, w) <=> Spoke(pend[n].new, d, i, w)
        BY <1>1, <1>2, <1>3, <1>6 DEF Drops
    <2> QED
        BY <2>1, <2>2, SpokenIs
<1>7. CASE Commits(c)
    <2>1. Spoke(rows', d, i, w) <=> Spoke(rows, d, i, w)
        BY <1>1, <1>7 DEF Commits, Spoke
    <2>2. \A n \in Connections : Spoke(pend'[n].new, d, i, w) <=> Spoke(pend[n].new, d, i, w)
        BY <1>1, <1>2, <1>3, <1>7 DEF Commits
    <2> QED
        BY <2>1, <2>2, SpokenIs
<1>8. CASE \E q : Says(c, q)
    <2>0. PICK q : Says(c, q)
        BY <1>8
    <2>1. Spoke(rows', d, i, w) <=> Spoke(rows, d, i, w)
        BY <1>2, <1>4, <2>0 DEF Says
    <2>2. \A n \in Connections : Spoke(pend'[n].new, d, i, w) <=> Spoke(pend[n].new, d, i, w)
        BY <1>2, <1>4, <2>0 DEF Says
    <2> QED
        BY <2>1, <2>2, SpokenIs
<1> QED
    BY <1>5, <1>6, <1>7, <1>8

\* The numbers of the jobs, and which turns were cut short.
LEMMA StepCounts ==
    ASSUME NEW c \in Clients, BaseInv, Act(c) \/ Fail(c)
    PROVE  /\ TypeInv' /\ Frame(c) /\ play' = play /\ Mongo' = Mongo
           /\ \A d \in Clients : job[d] \in Nat /\ job'[d] \in Nat /\ job[d] <= job'[d]
           /\ \A d \in Clients : Len(outcome[d]) \in Nat /\ Len(outcome'[d]) \in Nat /\ Len(outcome[d]) <= Len(outcome'[d])
           /\ Begin(c) \/ RestartTransaction(c) => outcome' = outcome
           /\ Raises(c) => Len(outcome'[c]) = job[c]
           /\ Raises(c) => cancelled' = IF Job(c) = "turn" THEN cancelled \cup {<<c, job[c]>>} ELSE cancelled
           /\ ~Raises(c) => cancelled' = cancelled
           /\ cancelled \subseteq cancelled'
<1>1. TypeInv /\ TodoInv /\ StoreInv /\ Frame(c) /\ TypeInv'
    BY NextRests DEF BaseInv
<1>2. play' = play /\ Mongo' = Mongo
    BY <1>1 DEF Frame, Mongo
<1>3. /\ job \in [Clients -> Nat] /\ outcome \in [Clients -> Seq({"ok", "raised"})]
      /\ job' \in [Clients -> Nat] /\ outcome' \in [Clients -> Seq({"ok", "raised"})]
      /\ \A d \in Clients : job[d] = Len(outcome[d]) + (IF Running(d) THEN 1 ELSE 0)
    BY <1>1 DEF TypeInv
<1>4. \A d \in Clients : Len(outcome[d]) \in Nat /\ Len(outcome'[d]) \in Nat
    BY <1>3
<1>5. CASE Begin(c)
    <2>1. job' = [job EXCEPT ![c] = job[c] + 1] /\ outcome' = outcome /\ cancelled' = cancelled
        BY <1>5 DEF Begin
    <2>2. ~Raises(c)
        BY <1>5 DEF Begin, Raises
    <2> QED
        BY <1>1, <1>2, <1>3, <1>4, <2>1, <2>2
<1>6. CASE RestartTransaction(c)
    <2>1. job' = job /\ outcome' = outcome /\ cancelled' = cancelled
        BY <1>6 DEF RestartTransaction
    <2>2. ~Raises(c)
        <3>1. ASSUME Raises(c) PROVE FALSE
            <4>1. outcome' = [outcome EXCEPT ![c] = Append(outcome[c], "raised")]
                BY <1>1, <3>1, RaiseLeaves
            <4>2. Len(outcome'[c]) = Len(outcome[c]) + 1
                BY <1>3, <4>1
            <4> QED
                BY <1>4, <2>1, <4>2
        <3> QED
            BY <3>1
    <2> QED
        BY <1>1, <1>2, <1>3, <1>4, <2>1, <2>2
<1>7. CASE Raises(c)
    <2>1. /\ outcome' = [outcome EXCEPT ![c] = Append(outcome[c], "raised")] /\ job' = job /\ Running(c)
          /\ cancelled' = IF Job(c) = "turn" THEN cancelled \cup {<<c, job[c]>>} ELSE cancelled
        BY <1>1, <1>7, RaiseLeaves
    <2>2. Len(outcome'[c]) = Len(outcome[c]) + 1 /\ \A d \in Clients \ {c} : outcome'[d] = outcome[d]
        BY <1>3, <2>1
    <2>3. job[c] = Len(outcome[c]) + 1
        BY <1>3, <2>1
    <2>4. Begin(c) \/ RestartTransaction(c) => outcome' = outcome
        BY DEF Begin, RestartTransaction
    <2>5. \A d \in Clients : Len(outcome[d]) <= Len(outcome'[d])
        BY <1>4, <2>2
    <2>6. \A d \in Clients : job[d] \in Nat /\ job'[d] \in Nat /\ job[d] <= job'[d]
        BY <1>3, <2>1
    <2>7. cancelled \subseteq cancelled' /\ Len(outcome'[c]) = job[c]
        BY <2>1, <2>2, <2>3
    <2> QED
        BY <1>1, <1>2, <1>4, <1>7, <2>1, <2>4, <2>5, <2>6, <2>7
<1>8. CASE Doing(c)
    <2>1. PICK n : By(c, n)
        BY <1>1, <1>8, DoingIs
    <2>2. Goes(c, n) /\ cancelled' = cancelled
        BY <2>1 DEF By, Goes
    <2>3. /\ job' = job
          /\ outcome' = outcome \/ outcome' = [outcome EXCEPT ![c] = Append(outcome[c], "ok")]
        BY <1>1, <2>2, GoesOn
    <2>4. Len(Append(outcome[c], "ok")) = Len(outcome[c]) + 1
        BY <1>3
    <2>5. ASSUME NEW d \in Clients PROVE Len(outcome[d]) <= Len(outcome'[d])
        <3>1. outcome'[d] = outcome[d] \/ (d = c /\ outcome'[d] = Append(outcome[c], "ok"))
            BY <1>3, <2>3
        <3> QED
            BY <1>4, <2>4, <3>1
    <2>6. ~Raises(c)
        <3>1. ASSUME Raises(c) PROVE FALSE
            <4>1. outcome' = [outcome EXCEPT ![c] = Append(outcome[c], "raised")]
                BY <1>1, <3>1, RaiseLeaves
            <4> DEFINE o == outcome[c]
                       l == Len(outcome[c])
            <4>2. o \in Seq({"ok", "raised"}) /\ l \in Nat /\ l = Len(o)
                BY <1>3
            <4>3. outcome'[c] = Append(o, "raised")
                BY <1>3, <4>1
            <4>4. outcome'[c] = o \/ outcome'[c] = Append(o, "ok")
                BY <1>3, <2>3
            <4> HIDE DEF o, l
            <4>5. Append(o, "raised")[l + 1] = "raised" /\ Len(Append(o, "raised")) = l + 1 /\ Append(o, "ok")[l + 1] = "ok"
                BY <4>2
            <4> QED
                BY <4>2, <4>3, <4>4, <4>5
        <3> QED
            BY <3>1
    <2>7. Begin(c) \/ RestartTransaction(c) => outcome' = outcome
        BY DEF Begin, RestartTransaction
    <2>8. \A d \in Clients : job[d] \in Nat /\ job'[d] \in Nat /\ job[d] <= job'[d]
        BY <1>3, <2>3
    <2> QED
        BY <1>1, <1>2, <1>4, <2>2, <2>5, <2>6, <2>7, <2>8
<1> QED
    BY <1>5, <1>6, <1>7, <1>8, StepsAre

\* What is said of a turn's place is not said before it.
LEMMA WordIsNew ==
    ASSUME NEW c \in Clients, BaseInv, MessageInv, Doing(c), MessageAdd(Here(c))
    PROVE  /\ Running(c) /\ Job(c) = "turn" /\ Here(c).datum \in Words /\ job[c] \in 1 .. Len(play[c].jobs)
           /\ ~Spoke(Stored, c, job[c], Here(c).datum) /\ Conn(c) = <<c, "main">>
           /\ play[c].jobs[job[c]] = "turn"
<1>1. TypeInv /\ TodoInv /\ StoreInv
    BY DEF BaseInv
<1>2. PICK n : By(c, n)
    BY <1>1, DoingIs
<1>3. Goes(c, n) /\ Running(c)
    BY <1>2 DEF By, Goes
<1>4. Job(c) = "turn"
    BY <1>1, <1>3, HereIs DEF OfJob
<1>5. \/ Len(todo[c]) = 3 /\ Here(c).datum = "question"
      \/ Len(todo[c]) = 2 /\ Here(c).datum = "answer"
    BY <1>1, <1>3, <1>4, TurnAt
<1>6. Underway(c)
    BY <1>3, <1>4 DEF MessageInv
<1>7. ~Spoke(Stored, c, job[c], Here(c).datum)
    BY <1>5, <1>6 DEF Underway
<1>8. Conn(c) = <<c, "main">>
    BY <1>4 DEF Conn, IsLearning, Learns
<1>9. job[c] \in 1 .. Len(play[c].jobs)
    BY <1>1, <1>3 DEF TodoInv, Rest
<1> QED
    BY <1>3, <1>4, <1>5, <1>7, <1>8, <1>9 DEF Words, Job

LEMMA SpokenStep ==
    ASSUME NEW c \in Clients, BaseInv, MessageInv, Act(c) \/ Fail(c)
    PROVE  SpokenInv'
<1>1. SpokenInv /\ \A n \in Connections : Said(Gone(n)) = {}
    BY DEF MessageInv, SpokenInv
<1>2. /\ TypeInv' /\ Frame(c) /\ play' = play
      /\ \A d \in Clients : job[d] \in Nat /\ job'[d] \in Nat /\ job[d] <= job'[d]
      /\ \A d \in Clients : Len(outcome[d]) \in Nat /\ Len(outcome'[d]) \in Nat /\ Len(outcome[d]) <= Len(outcome'[d])
    BY StepCounts
<1>3. Conn(c) \in Connections /\ Conn(c)[1] = c
    BY ConnectionIs
<1>4. \A n \in Connections : Said(pend'[n].gone) = {}
    BY <1>1, StepSays
<1>5. Keeps(c) \/ Drops(c) \/ Commits(c) \/ (Doing(c) /\ MessageAdd(Here(c)) /\ \E q : Says(c, q))
    BY <1>1, StepSays, StepsAre
<1>6. ASSUME NEW r \in Said(Stored)
      PROVE  \E d \in Clients, w \in Words : \E i \in 1 .. job'[d] : Text(r) = <<d, i, w>> /\ play'[d].jobs[i] = "turn"
    <2>1. PICK d \in Clients, w \in Words : \E i \in 1 .. job[d] : Text(r) = <<d, i, w>> /\ play[d].jobs[i] = "turn"
        BY <1>1 DEF SpokenInv
    <2>2. PICK i \in 1 .. job[d] : Text(r) = <<d, i, w>> /\ play[d].jobs[i] = "turn"
        BY <2>1
    <2>3. i \in 1 .. job'[d]
        BY <1>2
    <2> QED
        BY <1>2, <2>2, <2>3
<1>7. \A n \in Connections : \A r \in Said(pend[n].new) : Text(r)[1] = n[1] /\ n[2] = "main"
    BY <1>1 DEF SpokenInv, New
<1>8. \A r, q \in Said(Stored) : Text(r) = Text(q) => r = q
    BY <1>1 DEF SpokenInv
<1>9. \A x \in cancelled' : \E d \in Clients : \E i \in 1 .. Len(outcome'[d]) : x = <<d, i>>
    <2>1. ASSUME NEW x \in cancelled PROVE \E d \in Clients : \E i \in 1 .. Len(outcome'[d]) : x = <<d, i>>
        <3>1. PICK d \in Clients : \E i \in 1 .. Len(outcome[d]) : x = <<d, i>>
            BY <1>1 DEF SpokenInv
        <3>2. PICK i \in 1 .. Len(outcome[d]) : x = <<d, i>>
            BY <3>1
        <3>3. i \in 1 .. Len(outcome'[d])
            BY <1>2
        <3> QED
            BY <3>2, <3>3
    <2>2. CASE cancelled' = cancelled
        BY <2>1, <2>2
    <2>3. CASE cancelled' # cancelled
        <3>1. Raises(c) /\ Len(outcome'[c]) = job[c] /\ cancelled' = cancelled \cup {<<c, job[c]>>}
            BY <2>3, StepCounts
        <3>2. job[c] \in 1 .. Len(outcome'[c])
            <4>1. Running(c) /\ job[c] = Len(outcome[c]) + (IF Running(c) THEN 1 ELSE 0)
                BY <3>1 DEF Raises, BaseInv, TypeInv
            <4> QED
                BY <1>2, <3>1, <4>1
        <3> QED
            BY <2>1, <3>1, <3>2
    <2> QED
        BY <2>2, <2>3
<1>10. ASSUME Keeps(c) \/ Drops(c) \/ Commits(c) PROVE SpokenInv'
    <2>1. \A r \in Said(Stored)' : r \in Said(Stored)
        BY <1>1, <1>3, <1>10, StoredAre
    <2>2. ASSUME NEW n \in Connections, NEW r \in Said(New(n))' PROVE Text(r)[1] = n[1] /\ n[2] = "main"
        <3>1. r \in Said(pend'[n].new)
            BY <2>2 DEF Said, New
        <3>2. r \in Said(pend[n].new)
            BY <1>10, <3>1 DEF Keeps, Drops, Commits
        <3> QED
            BY <1>7, <3>2
    <2>3. \A n \in Connections : Said(Gone(n))' = {}
        BY <1>4 DEF Said, Gone
    <2>4. /\ \A r \in Said(Stored)' : \E d \in Clients, w \in Words : \E i \in 1 .. job'[d] :
                 Text(r) = <<d, i, w>> /\ play'[d].jobs[i] = "turn"
          /\ \A r, q \in Said(Stored)' : Text(r) = Text(q) => r = q
        BY <1>6, <1>8, <2>1
    <2> QED
        BY <1>9, <2>2, <2>3, <2>4 DEF SpokenInv, Text
<1>11. ASSUME NEW q, Says(c, q), Doing(c), MessageAdd(Here(c)) PROVE SpokenInv'
    <2>1. /\ Running(c) /\ Job(c) = "turn" /\ Here(c).datum \in Words /\ job[c] \in 1 .. Len(play[c].jobs)
          /\ ~Spoke(Stored, c, job[c], Here(c).datum) /\ Conn(c) = <<c, "main">> /\ play[c].jobs[job[c]] = "turn"
        BY <1>11, WordIsNew
    <2>2. Text(q) = <<c, job[c], Here(c).datum>>
        BY <1>11 DEF Says
    <2>3. \A r \in Said(Stored)' : r = q \/ r \in Said(Stored)
        BY <1>1, <1>3, <1>11, StoredAre
    <2>4. \A r \in Said(Stored) : Text(r) # Text(q)
        BY <2>1, <2>2 DEF Spoke
    <2>5. ASSUME NEW n \in Connections, NEW r \in Said(New(n))' PROVE Text(r)[1] = n[1] /\ n[2] = "main"
        <3>1. r \in Said(pend'[n].new)
            BY <2>5 DEF Said, New
        <3>2. r \in Said(pend[n].new) \/ (r = q /\ n = Conn(c))
            BY <1>11, <3>1 DEF Says
        <3> QED
            BY <1>7, <2>1, <2>2, <3>2
    <2>6. \A n \in Connections : Said(Gone(n))' = {}
        BY <1>4 DEF Said, Gone
    <2>7. job[c] \in 1 .. job'[c]
        BY <1>2, <2>1
    <2>8. \E d \in Clients, w \in Words : \E i \in 1 .. job'[d] : Text(q) = <<d, i, w>> /\ play'[d].jobs[i] = "turn"
        BY <1>2, <2>1, <2>2, <2>7
    <2>9. /\ \A r \in Said(Stored)' : \E d \in Clients, w \in Words : \E i \in 1 .. job'[d] :
                 Text(r) = <<d, i, w>> /\ play'[d].jobs[i] = "turn"
          /\ \A r, p \in Said(Stored)' : Text(r) = Text(p) => r = p
        BY <1>6, <1>8, <2>3, <2>4, <2>8
    <2> QED
        BY <1>9, <2>5, <2>6, <2>9 DEF SpokenInv, Text
<1> QED
    BY <1>5, <1>10, <1>11

\* What has not been said is not in the rows, and is not said by a step that
\* adds no message.
LEMMA UnsaidStays ==
    ASSUME NEW c \in Clients, SpokenInv, NEW d \in Clients, NEW i, NEW w, ~Spoke(Stored, d, i, w),
           Keeps(c) \/ Drops(c) \/ Commits(c)
    PROVE  ~Spoke(Stored, d, i, w)' /\ ~Spoke(rows', d, i, w)
<1>1. \A r \in Said(Stored)' : r \in Said(Stored)
    BY ConnectionIs, StoredAre
<1>2. \A r \in Said(Stored)' : Text(r) # <<d, i, w>>
    BY <1>1 DEF Spoke
<1>3. \A r \in Said(rows') : r \in Said(Stored)'
    BY DEF Said, Stored
<1> QED
    BY <1>2, <1>3 DEF Spoke, Text

LEMMA UnderwayOthers ==
    ASSUME NEW c \in Clients, BaseInv, MessageInv, Act(c) \/ Fail(c),
           NEW d \in Clients \ {c}, Running(d)', Job(d)' = "turn"
    PROVE  Underway(d)'
<1>1. TypeInv /\ Frame(c) /\ Mongo' = Mongo /\ Conn(c) \in Connections /\ Conn(c)[1] = c
    BY StepCounts, ConnectionIs DEF BaseInv
<1>2. job'[d] = job[d] /\ todo'[d] = todo[d] /\ Running(d)' = Running(d) /\ Job(d)' = Job(d)
    BY <1>1, OthersStay
<1>3. Underway(d)
    BY <1>2 DEF MessageInv
<1>4. Keeps(c) \/ Drops(c) \/ Commits(c) \/ \E q : Says(c, q)
    BY StepSays, StepsAre DEF MessageInv, SpokenInv
<1>5. PICK i : i = job[d]
    OBVIOUS
<1>6. ASSUME NEW w
      PROVE  /\ Spoke(rows', d, i, w) <=> Spoke(rows, d, i, w)
             /\ Spoke(Stored, d, i, w)' <=> Spoke(Stored, d, i, w)
    BY <1>1, <1>4, OthersSpeak DEF MessageInv
<1>7. \A w : Spoke(rows, d, i, w)' <=> Spoke(rows', d, i, w)
    BY DEF Spoke, Text
<1>8. /\ ~Mongo' => \A w \in Words : ~Spoke(rows, d, i, w)'
      /\ Spoke(Stored, d, i, "question")' <=> Len(todo'[d]) <= 2
      /\ Spoke(Stored, d, i, "answer")' <=> Len(todo'[d]) <= 1
    BY <1>1, <1>2, <1>3, <1>5, <1>6, <1>7 DEF Underway
<1>9. i = job'[d]
    BY <1>2, <1>5
<1> QED
    BY <1>8, <1>9 DEF Underway

\* Nothing of the turn is said, and its messages are still to run.
LEMMA SilentTurn ==
    ASSUME NEW c \in Clients, NEW i, i = job'[c], \A w : ~Spoke(Stored, c, i, w)',
           Len(todo'[c]) \in Nat, Len(todo'[c]) >= 3
    PROVE  Underway(c)'
<1>1. \A w : ~Spoke(rows, c, i, w)'
    BY DEF Spoke, Said, Stored, Text
<1>2. ~(Len(todo'[c]) <= 2) /\ ~(Len(todo'[c]) <= 1)
    OBVIOUS
<1>3. /\ \A w \in Words : ~Spoke(rows, c, i, w)'
      /\ ~Spoke(Stored, c, i, "question")' /\ ~Spoke(Stored, c, i, "answer")'
    BY <1>1
<1> QED
    BY <1>2, <1>3 DEF Underway

LEMMA ProgramIsLong ==
    ASSUME TypeInv
    PROVE  Len(Program("turn")) \in Nat /\ Len(Program("turn")) >= 3
<1>1. ProgramOf(Mongo, "turn", Program("turn"))
    BY ProgramIs DEF JobKinds
<1> QED
    BY <1>1 DEF ProgramOf, Unit

LEMMA UnderwayBegins ==
    ASSUME NEW c \in Clients, BaseInv, MessageInv, Begin(c), Job(c)' = "turn"
    PROVE  Underway(c)'
<1>1. TypeInv /\ TodoInv /\ Frame(c) /\ SpokenInv /\ Act(c)
    BY StepCounts DEF BaseInv, MessageInv, Act
<1>2. PICK i : i = job'[c]
    OBVIOUS
<1>3. i \notin 1 .. job[c]
    <2>1. job \in [Clients -> Nat] /\ job' = [job EXCEPT ![c] = job[c] + 1]
        BY <1>1 DEF Begin, TypeInv
    <2>2. job[c] \in Nat /\ i = job[c] + 1
        BY <1>2, <2>1
    <2> QED
        BY <2>2
<1>4. \A w : ~Spoke(Stored, c, i, w)
    <2>1. ASSUME NEW r \in Said(Stored), NEW w, Text(r) = <<c, i, w>> PROVE FALSE
        <3>1. PICK d \in Clients, v \in Words : \E k \in 1 .. job[d] : Text(r) = <<d, k, v>>
            BY <1>1 DEF SpokenInv
        <3>2. PICK k \in 1 .. job[d] : Text(r) = <<d, k, v>>
            BY <3>1
        <3>3. d = c /\ k = i
            BY <2>1, <3>2
        <3> QED
            BY <1>3, <3>3
    <2> QED
        BY <2>1 DEF Spoke
<1>5. Keeps(c)
    BY <1>1, StepSays DEF SpokenInv
<1>6. \A w : ~Spoke(Stored, c, i, w)'
    BY <1>1, <1>4, <1>5, UnsaidStays
<1>7. todo'[c] = Program("turn")
    BY <1>1, BeginTypes
<1> QED
    BY <1>1, <1>2, <1>6, <1>7, ProgramIsLong, SilentTurn

LEMMA UnderwayRestarts ==
    ASSUME NEW c \in Clients, BaseInv, MessageInv, RestartTransaction(c)
    PROVE  Underway(c)'
<1>1. TypeInv /\ TodoInv /\ Frame(c) /\ SpokenInv /\ Fail(c)
    BY StepCounts DEF BaseInv, MessageInv, Fail
<1>2. todo'[c] = Program("turn") /\ Running(c) /\ Job(c) = "turn" /\ Conn(c) = <<c, "main">>
    BY <1>1, RestartTypes
<1>3. PICK i : i = job'[c]
    OBVIOUS
<1>4. i = job[c] /\ ~Mongo
    BY <1>3 DEF RestartTransaction, Mongo
<1>5. \A w \in Words : ~Spoke(rows, c, i, w)
    BY <1>2, <1>4 DEF MessageInv, Underway
<1>6. Drops(c)
    BY <1>1, StepSays DEF SpokenInv
<1>7. \A r \in Said(Stored)' : r \in Said(Stored)
    BY <1>1, <1>6, ConnectionIs, StoredAre
<1>8. ASSUME NEW w, Spoke(Stored, c, i, w)' PROVE FALSE
    <2>1. PICK r \in Said(Stored)' : Text(r) = <<c, i, w>>
        BY <1>8 DEF Spoke, Text
    <2>2. PICK d \in Clients, v \in Words : \E k \in 1 .. job[d] : Text(r) = <<d, k, v>>
        BY <1>1, <1>7 DEF SpokenInv
    <2>3. w \in Words
        BY <2>1, <2>2
    <2>4. r \in Said(rows') \/ \E n \in Connections : r \in Said(pend'[n].new)
        BY DEF Said, Stored, New
    <2>5. ~(r \in Said(rows'))
        BY <1>5, <1>6, <2>1, <2>3 DEF Drops, Spoke
    <2>6. PICK n \in Connections : r \in Said(pend'[n].new)
        BY <2>4, <2>5
    <2>7. n # Conn(c) /\ r \in Said(pend[n].new)
        BY <1>6, <2>6 DEF Drops
    <2>8. Spoke(pend[n].new, c, i, w)
        BY <2>1, <2>7 DEF Spoke
    <2>9. n = <<c, "main">>
        BY <1>1, <2>8, SpeaksIs
    <2> QED
        BY <1>2, <2>7, <2>9
<1> QED
    BY <1>1, <1>2, <1>3, <1>8, ProgramIsLong, SilentTurn

LEMMA UnderwayGoes ==
    ASSUME NEW c \in Clients, BaseInv, MessageInv, Doing(c), Act(c), Running(c)', Job(c)' = "turn"
    PROVE  Underway(c)'
<1>1. TypeInv /\ TodoInv /\ StoreInv /\ Frame(c) /\ SpokenInv /\ Mongo' = Mongo
    BY StepCounts DEF BaseInv, MessageInv
<1>2. PICK n : By(c, n)
    BY <1>1, DoingIs
<1>3. Goes(c, n) /\ Running(c)
    BY <1>2 DEF By, Goes
<1>4. n \in 1 .. Len(todo[c]) /\ todo'[c] = After(todo[c], n) /\ job' = job /\ n # Len(todo[c])
    BY <1>1, <1>3, GoesOn DEF Running
<1>5. Job(c) = "turn"
    BY <1>1, <1>4 DEF Job, Frame
<1>6. Underway(c)
    BY <1>3, <1>5 DEF MessageInv
<1>7. Len(todo[c]) \in Nat /\ Len(todo'[c]) = Len(todo[c]) - n
    <2>1. todo[c] \in Seq(Stmt) /\ Len(todo[c]) \in Nat
        BY <1>1, <1>3, HereIs
    <2>2. Len(After(todo[c], n)) = Len(todo[c]) - n
        BY <1>4, <2>1, AfterIs
    <2> QED
        BY <1>4, <2>1, <2>2
<1>8. PICK i : i = job[c]
    OBVIOUS
<1>9. i = job'[c]
    BY <1>4, <1>8
<1>10. CASE ~MessageAdd(Here(c))
    <2>1. Len(todo[c]) - n >= 3
        BY <1>1, <1>3, <1>4, <1>5, <1>10, TurnAt
    <2>2. Len(todo[c]) >= 3 /\ ~(Len(todo[c]) <= 2) /\ ~(Len(todo[c]) <= 1)
        BY <1>4, <1>7, <2>1
    <2>3. ~Spoke(Stored, c, i, "question") /\ ~Spoke(Stored, c, i, "answer")
        BY <1>6, <1>8, <2>2 DEF Underway
    <2>4. \A w : Spoke(Stored, c, i, w) => w \in Words
        <3>1. ASSUME NEW r \in Said(Stored), NEW w, Text(r) = <<c, i, w>> PROVE w \in Words
            <4>1. PICK d \in Clients, v \in Words : \E k \in 1 .. job[d] : Text(r) = <<d, k, v>>
                BY <1>1 DEF SpokenInv
            <4> QED
                BY <3>1, <4>1
        <3> QED
            BY <3>1 DEF Spoke
    <2>5. \A w : ~Spoke(Stored, c, i, w)
        BY <2>3, <2>4 DEF Words
    <2>6. Keeps(c) \/ Commits(c)
        BY <1>1, <1>10, StepSays DEF SpokenInv
    <2>7. \A w : ~Spoke(Stored, c, i, w)'
        BY <1>1, <2>5, <2>6, UnsaidStays
    <2> QED
        BY <1>7, <1>9, <2>1, <2>7, SilentTurn
<1>11. CASE MessageAdd(Here(c))
    <2>1. PICK q : Says(c, q)
        BY <1>1, <1>11, StepSays DEF SpokenInv
    <2>2. Text(q) = <<c, i, Here(c).datum>> /\ q.table = "conversation_message"
        BY <1>8, <2>1 DEF Says
    <2>3. n = 1 /\ (\/ Len(todo[c]) = 3 /\ Here(c).datum = "question"
                    \/ Len(todo[c]) = 2 /\ Here(c).datum = "answer")
        BY <1>1, <1>3, <1>5, <1>11, TurnAt
    <2>4. Conn(c) \in Connections
        BY ConnectionIs
    <2>5. q \in Said(rows') \/ q \in Said(pend'[Conn(c)].new)
        BY <2>1 DEF Says
    <2>6. q \in Said(Stored)'
        BY <2>4, <2>5 DEF Said, Stored, New
    <2>7. \A r \in Said(Stored)' : r = q \/ r \in Said(Stored)
        BY <1>1, <2>1, <2>4, ConnectionIs, StoredAre
    <2>8. \A r \in Said(Stored) : r \in Said(Stored)'
        <3>1. ASSUME NEW r \in Said(Stored) PROVE r \in Said(Stored)'
            <4>1. r \in Said(rows) \/ \E m \in Connections : r \in Said(pend[m].new)
                BY DEF Said, Stored, New
            <4>2. r \in Said(rows') \/ \E m \in Connections : r \in Said(pend'[m].new)
                BY <2>1, <4>1 DEF Says
            <4> QED
                BY <4>2 DEF Said, Stored, New
        <3> QED
            BY <3>1
    <2>9. ASSUME NEW w PROVE Spoke(Stored, c, i, w)' <=> (w = Here(c).datum \/ Spoke(Stored, c, i, w))
        BY <2>2, <2>6, <2>7, <2>8 DEF Spoke, Text
    <2>10. /\ Spoke(Stored, c, i, "question") <=> Len(todo[c]) <= 2
           /\ Spoke(Stored, c, i, "answer") <=> Len(todo[c]) <= 1
        BY <1>6, <1>8 DEF Underway
    <2>11. /\ Spoke(Stored, c, i, "question")' <=> Len(todo'[c]) <= 2
           /\ Spoke(Stored, c, i, "answer")' <=> Len(todo'[c]) <= 1
        <3>1. CASE Len(todo[c]) = 3 /\ Here(c).datum = "question"
            <4>1. Len(todo'[c]) = 2 /\ ~Spoke(Stored, c, i, "answer")
                BY <1>7, <2>3, <2>10, <3>1
            <4>2. Spoke(Stored, c, i, "question")' /\ ~Spoke(Stored, c, i, "answer")'
                BY <2>9, <3>1, <4>1
            <4> QED
                BY <4>1, <4>2
        <3>2. CASE Len(todo[c]) = 2 /\ Here(c).datum = "answer"
            <4>1. Len(todo'[c]) = 1 /\ Spoke(Stored, c, i, "question")
                BY <1>7, <2>3, <2>10, <3>2
            <4>2. Spoke(Stored, c, i, "question")' /\ Spoke(Stored, c, i, "answer")'
                BY <2>9, <3>2, <4>1
            <4> QED
                BY <4>1, <4>2
        <3> QED
            BY <2>3, <3>1, <3>2
    <2>12. ASSUME ~Mongo, NEW w \in Words PROVE ~Spoke(rows, c, i, w)'
        <3>1. ~Spoke(rows, c, i, w)
            BY <1>6, <1>8, <2>12 DEF Underway
        <3>2. Said(rows') = Said(rows)
            BY <2>1, <2>12 DEF Says
        <3> QED
            BY <3>1, <3>2 DEF Spoke, Text
    <2> QED
        BY <1>1, <1>9, <2>11, <2>12 DEF Underway
<1> QED
    BY <1>10, <1>11

\* What is committed of a turn stays committed.
LEMMA SaidStays ==
    ASSUME NEW c \in Clients, Keeps(c) \/ Drops(c) \/ Commits(c) \/ \E q : Says(c, q),
           NEW d, NEW i, Said2(d, i)
    PROVE  \A w \in Words : Spoke(rows', d, i, w)
<1>1. Said(rows) \subseteq Said(rows')
    BY DEF Keeps, Drops, Commits, Says
<1> QED
    BY <1>1 DEF Said2, Spoke

\* A turn that comes to its end has committed both its messages.
LEMMA TurnEnds ==
    ASSUME NEW c \in Clients, BaseInv, MessageInv, Doing(c), Act(c), NEW n, Goes(c, n), n = Len(todo[c]),
           Job(c) = "turn", NEW i, i = job[c]
    PROVE  \A w \in Words : Spoke(rows', c, i, w)
<1>1. TypeInv /\ TodoInv /\ SpokenInv /\ Running(c)
    BY DEF BaseInv, MessageInv, Goes
<1>2. Len(todo[c]) = 1 /\ Here(c).do = "commit" /\ ~MessageAdd(Here(c))
    <2>1. /\ Len(todo[c]) \in Nat
          /\ MessageAdd(Here(c)) => n = 1 /\ (Len(todo[c]) = 3 \/ Len(todo[c]) = 2)
          /\ ~MessageAdd(Here(c)) => \/ Len(todo[c]) - n >= 3
                                     \/ Len(todo[c]) = 1 /\ n = 1 /\ Here(c).do = "commit"
        BY <1>1, TurnAt
    <2>2. ~MessageAdd(Here(c))
        <3>1. ASSUME MessageAdd(Here(c)) PROVE FALSE
            <4>1. n = 1 /\ (Len(todo[c]) = 3 \/ Len(todo[c]) = 2)
                BY <2>1, <3>1
            <4> QED
                BY <4>1
        <3> QED
            BY <3>1
    <2>3. \/ Len(todo[c]) - n >= 3
          \/ Len(todo[c]) = 1 /\ n = 1 /\ Here(c).do = "commit"
        BY <2>1, <2>2
    <2> QED
        BY <2>1, <2>2, <2>3
<1>3. Commits(c)
    BY <1>1, <1>2, StepSays DEF SpokenInv
<1>4. Underway(c)
    BY <1>1 DEF MessageInv
<1>5. Spoke(Stored, c, i, "question") /\ Spoke(Stored, c, i, "answer")
    BY <1>2, <1>4 DEF Underway
<1>6. Conn(c) = <<c, "main">>
    BY DEF Conn, IsLearning, Learns
<1>7. ASSUME NEW w, Spoke(Stored, c, i, w) PROVE Spoke(rows', c, i, w)
    <2>1. Spoke(rows, c, i, w) \/ \E m \in Connections : Spoke(pend[m].new, c, i, w)
        BY <1>7, SpokenIs
    <2>2. Spoke(rows, c, i, w) \/ Spoke(pend[Conn(c)].new, c, i, w)
        BY <1>1, <1>6, <2>1, SpeaksIs
    <2> QED
        BY <1>3, <2>2 DEF Commits, Spoke
<1> QED
    BY <1>5, <1>7 DEF Words

\* The turns that have ended are committed, after a step.
LEMMA SaidStep ==
    ASSUME NEW c \in Clients, BaseInv, MessageInv, Act(c) \/ Fail(c),
           NEW d \in Clients, NEW i \in 1 .. Len(outcome'[d]), play[d].jobs[i] = "turn", <<d, i>> \notin cancelled'
    PROVE  \A w \in Words : Spoke(rows', d, i, w)
<1>1. /\ TypeInv /\ TodoInv /\ Frame(c) /\ cancelled \subseteq cancelled'
      /\ Len(outcome[d]) \in Nat /\ Len(outcome'[d]) \in Nat
      /\ Begin(c) \/ RestartTransaction(c) => outcome' = outcome
      /\ Raises(c) => Len(outcome'[c]) = job[c]
      /\ Raises(c) => cancelled' = IF Job(c) = "turn" THEN cancelled \cup {<<c, job[c]>>} ELSE cancelled
    BY StepCounts DEF BaseInv
<1>2. Keeps(c) \/ Drops(c) \/ Commits(c) \/ \E q : Says(c, q)
    BY StepSays, StepsAre DEF MessageInv, SpokenInv
<1>3. CASE i \in 1 .. Len(outcome[d])
    <2>1. Said2(d, i)
        BY <1>1, <1>3 DEF MessageInv
    <2> QED
        BY <1>2, <2>1, SaidStays
<1>4. CASE i \notin 1 .. Len(outcome[d])
    <2>1. d = c /\ ~Begin(c) /\ ~RestartTransaction(c)
        BY <1>1, <1>4, OthersStay
    <2>2. job[c] = Len(outcome[c]) + (IF Running(c) THEN 1 ELSE 0)
        BY <1>1 DEF TypeInv
    <2>3. CASE Raises(c)
        <3>1. Running(c) /\ Len(outcome'[c]) = job[c]
            BY <1>1, <2>3 DEF Raises
        <3>2. i = job[c]
            BY <1>1, <1>4, <2>1, <2>2, <3>1
        <3>3. Job(c) = "turn"
            BY <2>1, <3>2 DEF Job
        <3>4. <<d, i>> \in cancelled'
            BY <1>1, <2>1, <2>3, <3>2, <3>3
        <3> QED
            BY <3>4
    <2>4. CASE Doing(c) /\ ~Raises(c)
        <3>1. PICK n : By(c, n)
            BY <1>1, <2>4, DoingIs DEF BaseInv
        <3>2. Goes(c, n) /\ Running(c)
            BY <3>1 DEF By, Goes
        <3>3. n = Len(todo[c]) /\ outcome' = [outcome EXCEPT ![c] = Append(outcome[c], "ok")]
            BY <1>1, <1>4, <2>1, <3>2, GoesOn
        <3>4. Len(outcome'[c]) = Len(outcome[c]) + 1
            BY <1>1, <3>3 DEF TypeInv
        <3>5. i = job[c]
            BY <1>1, <1>4, <2>1, <2>2, <3>2, <3>4
        <3>6. Job(c) = "turn"
            BY <2>1, <3>5 DEF Job
        <3>7. Act(c)
            BY <2>4 DEF Doing, Act
        <3> QED
            BY <2>1, <2>4, <3>2, <3>3, <3>5, <3>6, <3>7, TurnEnds
    <2> QED
        BY <2>1, <2>3, <2>4, StepsAre
<1> QED
    BY <1>3, <1>4

\* What a turn under way has said is what it has run, after any step.
LEMMA UnderwayStep ==
    ASSUME NEW c \in Clients, BaseInv, MessageInv, Act(c) \/ Fail(c),
           NEW d \in Clients, Running(d)', Job(d)' = "turn"
    PROVE  Underway(d)'
<1>1. TypeInv /\ TodoInv /\ StoreInv
    BY DEF BaseInv
<1>2. CASE d # c
    BY <1>2, UnderwayOthers
<1>3. CASE d = c
    <2>1. CASE Begin(c)
        BY <1>3, <2>1, UnderwayBegins
    <2>2. CASE RestartTransaction(c)
        BY <1>3, <2>2, UnderwayRestarts
    <2>3. CASE Raises(c)
        <3>1. todo'[c] = <<>>
            BY <1>1, <2>3 DEF Raises, Raise, EndJob, TypeInv
        <3> QED
            BY <1>3, <3>1 DEF Running
    <2>4. CASE Doing(c)
        <3>1. Act(c)
            BY <2>4 DEF Doing, Act
        <3> QED
            BY <1>3, <2>4, <3>1, UnderwayGoes
    <2> QED
        BY <2>1, <2>2, <2>3, <2>4, StepsAre
<1> QED
    BY <1>2, <1>3

LEMMA MessageStep ==
    ASSUME BaseInv, MessageInv, [Next]_vars
    PROVE  MessageInv'
<1>1. CASE UNCHANGED vars
    <2>1. UNCHANGED <<rows, pend, job, todo, play, dialect, outcome, cancelled>>
        BY <1>1 DEF vars
    <2>2. Stored' = Stored /\ SpokenInv'
        BY <2>1 DEF MessageInv, SpokenInv, Stored, New, Gone, Said, Text
    <2>3. \A c \in Clients : (Running(c)' <=> Running(c)) /\ Job(c)' = Job(c)
        BY <2>1 DEF Running, Job
    <2>4. \A c \in Clients : Underway(c)' <=> Underway(c)
        BY <2>1, <2>2 DEF Underway, Mongo, Spoke, Said, Text
    <2>5. \A c \in Clients : \A i : Said2(c, i)' <=> Said2(c, i)
        BY <2>1 DEF Said2, Spoke, Said, Text
    <2> QED
        BY <2>1, <2>2, <2>3, <2>4, <2>5 DEF MessageInv
<1>2. ASSUME NEW c \in Clients, Act(c) \/ Fail(c) PROVE MessageInv'
    <2>1. play' = play
        BY <1>2, StepCounts
    <2>2. \A d \in Clients : Running(d)' /\ Job(d)' = "turn" => Underway(d)'
        BY <1>2, UnderwayStep
    <2>3. ASSUME NEW d \in Clients, NEW i \in 1 .. Len(outcome'[d]), play'[d].jobs[i] = "turn", <<d, i>> \notin cancelled'
          PROVE  Said2(d, i)'
        <3>1. \A w \in Words : Spoke(rows', d, i, w)
            BY <1>2, <2>1, <2>3, SaidStep
        <3> QED
            BY <3>1 DEF Said2, Spoke, Text
    <2>4. SpokenInv'
        BY <1>2, SpokenStep
    <2> QED
        BY <2>2, <2>3, <2>4 DEF MessageInv
<1> QED
    BY <1>1, <1>2 DEF Next

LEMMA MessageInit ==
    ASSUME Init
    PROVE  MessageInv
<1>1. rows = {} /\ cancelled = {} /\ \A n \in Connections : pend[n] = NoWork
    BY DEF Init
<1>2. \A c \in Clients : outcome[c] = <<>> /\ todo[c] = <<>>
    BY DEF Init
<1>3. \A n \in Connections : New(n) = {} /\ Gone(n) = {}
    BY <1>1 DEF NoWork, New, Gone
<1>4. Stored = {}
    BY <1>1, <1>3 DEF Stored
<1>5. SpokenInv
    BY <1>1, <1>3, <1>4 DEF SpokenInv, Said
<1>6. \A c \in Clients : ~Running(c) /\ 1 .. Len(outcome[c]) = {}
    <2>1. Len(<<>>) = 0 /\ 1 .. 0 = {}
        OBVIOUS
    <2> QED
        BY <1>2, <2>1 DEF Running
<1> QED
    BY <1>5, <1>6 DEF MessageInv

\* Every message is of a turn that began and is one row; what a turn under way
\* has written is what it has run of its program, uncommitted on its client's
\* main connection; and every turn that returned is committed.
THEOREM MessagesHold == Spec => []MessageInv
<1>1. Init => MessageInv
    BY MessageInit
<1>2. BaseInv /\ MessageInv /\ [Next]_vars => MessageInv'
    BY MessageStep
<1> QED
    BY <1>1, <1>2, BaseHolds, PTL DEF Spec

\* The messages of a turn are its question and its answer, each one row.
LEMMA MessagesAre ==
    ASSUME SpokenInv, NEW c \in Clients, NEW i
    PROVE  /\ \A r : r \in TurnMessages(c, i) <=> r \in Said(rows) /\ \E w \in Words : Text(r) = <<c, i, w>>
           /\ TurnMessages(c, i) # {} => i \in 1 .. job[c]
           /\ \A r, q \in TurnMessages(c, i) : Text(r) = Text(q) => r = q
<1>1. ASSUME NEW d, NEW k, NEW w PROVE SubSeq(<<d, k, w>>, 1, 2) = <<d, k>>
    <2> DEFINE s == <<d, k, w>>
    <2>1. s \in Seq({d, k, w}) /\ Len(s) = 3 /\ s[1] = d /\ s[2] = k
        OBVIOUS
    <2> HIDE DEF s
    <2>2. /\ SubSeq(s, 1, 2) \in Seq({d, k, w}) /\ Len(SubSeq(s, 1, 2)) = 2
          /\ SubSeq(s, 1, 2)[1] = s[1] /\ SubSeq(s, 1, 2)[2] = s[2]
        BY <2>1, SubSeqProperties
    <2> DEFINE u == SubSeq(s, 1, 2)
               v == <<d, k>>
    <2>3. u \in Seq({d, k, w}) /\ Len(u) = 2 /\ u[1] = d /\ u[2] = k
        BY <2>1, <2>2
    <2>4. v \in Seq({d, k, w}) /\ Len(v) = 2 /\ v[1] = d /\ v[2] = k
        OBVIOUS
    <2> HIDE DEF u, v
    <2>5. \A j \in 1 .. Len(u) : u[j] = v[j]
        BY <2>3, <2>4
    <2>6. u = v
        BY <2>3, <2>4, <2>5, SeqEqual
    <2> QED
        BY <2>6 DEF s, u, v
<1>2. \A r \in Said(rows) : r \in Said(Stored)
    BY DEF Said, Stored
<1>3. ASSUME NEW r \in Said(rows)
      PROVE  \E d \in Clients, w \in Words : \E k \in 1 .. job[d] : Text(r) = <<d, k, w>>
    BY <1>2 DEF SpokenInv
<1>4. ASSUME NEW r
      PROVE  r \in TurnMessages(c, i) <=> r \in Said(rows) /\ \E w \in Words : Text(r) = <<c, i, w>>
    <2>1. ASSUME r \in Said(rows), NEW w \in Words, Text(r) = <<c, i, w>> PROVE r \in TurnMessages(c, i)
        BY <1>1, <2>1 DEF TurnMessages, Said, Text
    <2>2. ASSUME r \in TurnMessages(c, i)
          PROVE  r \in Said(rows) /\ \E w \in Words : Text(r) = <<c, i, w>>
        <3>1. r \in Said(rows) /\ SubSeq(Text(r), 1, 2) = <<c, i>>
            BY <2>2 DEF TurnMessages, Said, Text
        <3>2. PICK d \in Clients, w \in Words : \E k \in 1 .. job[d] : Text(r) = <<d, k, w>>
            BY <1>3, <3>1
        <3>3. PICK k \in 1 .. job[d] : Text(r) = <<d, k, w>>
            BY <3>2
        <3>4. <<d, k>> = <<c, i>>
            BY <1>1, <3>1, <3>3
        <3> QED
            BY <3>1, <3>3, <3>4
    <2> QED
        BY <2>1, <2>2
<1>5. ASSUME NEW r \in TurnMessages(c, i) PROVE i \in 1 .. job[c]
    <2>1. PICK w \in Words : r \in Said(rows) /\ Text(r) = <<c, i, w>>
        BY <1>4
    <2>2. PICK d \in Clients, v \in Words : \E k \in 1 .. job[d] : Text(r) = <<d, k, v>>
        BY <1>3, <2>1
    <2> QED
        BY <2>1, <2>2
<1>6. \A r, q \in TurnMessages(c, i) : Text(r) = Text(q) => r = q
    BY <1>2, <1>4 DEF SpokenInv
<1> QED
    BY <1>4, <1>5, <1>6

LEMMA MessagesCount ==
    ASSUME SpokenInv, NEW c \in Clients, NEW i
    PROVE  /\ Said2(c, i) => Cardinality(TurnMessages(c, i)) = 2
           /\ TurnMessages(c, i) = {} => Cardinality(TurnMessages(c, i)) = 0
           /\ Cardinality(TurnMessages(c, i)) \in {0, 1, 2}
<1> DEFINE T == TurnMessages(c, i)
<1>1. /\ \A r : r \in T <=> r \in Said(rows) /\ \E w \in Words : Text(r) = <<c, i, w>>
      /\ \A r, q \in T : Text(r) = Text(q) => r = q
    BY MessagesAre
<1> HIDE DEF T
<1>2. Cardinality({}) = 0 /\ IsFiniteSet({})
    BY FS_EmptySet
<1>3. \A q : IsFiniteSet({q}) /\ Cardinality({q}) = 1
    BY FS_Singleton
<1>4. ASSUME NEW q, NEW a, q # a PROVE Cardinality({q, a}) = 2
    <2>1. Cardinality({q} \cup {a}) = Cardinality({q}) + 1
        <3>1. IsFiniteSet({q}) /\ a \notin {q}
            BY <1>3, <1>4
        <3>2. Cardinality({q} \cup {a}) = IF a \in {q} THEN Cardinality({q}) ELSE Cardinality({q}) + 1
            BY <3>1, FS_AddElement
        <3> QED
            BY <3>1, <3>2
    <2>2. {q} \cup {a} = {q, a}
        OBVIOUS
    <2>3. Cardinality({q}) = 1
        BY <1>3
    <2> QED
        BY <2>1, <2>2, <2>3
<1>5. \A r \in T : Text(r) = <<c, i, "question">> \/ Text(r) = <<c, i, "answer">>
    BY <1>1 DEF Words
<1>6. CASE \E q, a \in T : Text(q) = <<c, i, "question">> /\ Text(a) = <<c, i, "answer">>
    <2>1. PICK q, a \in T : Text(q) = <<c, i, "question">> /\ Text(a) = <<c, i, "answer">>
        BY <1>6
    <2>2. q # a
        BY <2>1
    <2>3. T = {q, a}
        BY <1>1, <1>5, <2>1
    <2> QED
        BY <1>4, <2>2, <2>3 DEF T
<1>7. CASE ~\E q, a \in T : Text(q) = <<c, i, "question">> /\ Text(a) = <<c, i, "answer">>
    <2>1. ~Said2(c, i)
        <3>1. ASSUME Said2(c, i) PROVE FALSE
            <4>1. Spoke(rows, c, i, "question") /\ Spoke(rows, c, i, "answer")
                BY <3>1 DEF Said2, Words
            <4>2. (\E q \in T : Text(q) = <<c, i, "question">>) /\ \E a \in T : Text(a) = <<c, i, "answer">>
                BY <1>1, <4>1 DEF Spoke, Words
            <4> QED
                BY <1>7, <4>2
        <3> QED
            BY <3>1
    <2>2. \A r, q \in T : Text(r) = Text(q)
        BY <1>5, <1>7
    <2>3. T = {} \/ \E q : T = {q}
        BY <1>1, <2>2
    <2> QED
        BY <1>2, <1>3, <2>1, <2>3 DEF T
<1> QED
    BY <1>6, <1>7

LEMMA StoredTurns ==
    ASSUME BaseInv, MessageInv
    PROVE  TurnsAreStored
<1>1. TypeInv /\ SpokenInv
    BY DEF BaseInv, MessageInv
<1> SUFFICES ASSUME NEW c \in Clients, NEW i \in DOMAIN play[c].jobs,
                    play[c].jobs[i] = "turn", <<c, i>> \notin cancelled
             PROVE  LET stored == Cardinality(TurnMessages(c, i))
                    IN  IF i \in DOMAIN outcome[c] THEN stored = 2
                        ELSE stored \in {0, 2} \/ (dialect = "mongodb" /\ stored = 1)
    BY DEF TurnsAreStored
<1>2. play[c].jobs \in Seq(JobKinds)
    BY <1>1, Assumed DEF TypeInv, Play
<1>3. i \in Nat /\ i >= 1
    BY <1>2
<1>4. outcome[c] \in Seq({"ok", "raised"}) /\ job[c] = Len(outcome[c]) + (IF Running(c) THEN 1 ELSE 0)
    BY <1>1 DEF TypeInv
<1>5. DOMAIN outcome[c] = 1 .. Len(outcome[c]) /\ Len(outcome[c]) \in Nat
    BY <1>4
<1>6. CASE i \in DOMAIN outcome[c]
    <2>1. Said2(c, i)
        BY <1>5, <1>6 DEF MessageInv
    <2> QED
        BY <1>1, <1>6, <2>1, MessagesCount
<1>7. CASE i \notin DOMAIN outcome[c]
    <2>1. CASE TurnMessages(c, i) = {}
        BY <1>1, <1>7, <2>1, MessagesCount
    <2>2. CASE TurnMessages(c, i) # {}
        <3>1. i \in 1 .. job[c]
            BY <1>1, <2>2, MessagesAre
        <3>2. Running(c) /\ i = job[c]
            <4>1. i > Len(outcome[c])
                BY <1>3, <1>5, <1>7
            <4>2. job[c] \in Nat /\ i <= job[c]
                BY <1>1, <1>3, <3>1 DEF TypeInv
            <4>3. CASE Running(c)
                <5>1. job[c] = Len(outcome[c]) + 1
                    BY <1>4, <4>3
                <5> QED
                    BY <1>3, <1>5, <4>1, <4>2, <4>3, <5>1
            <4>4. CASE ~Running(c)
                <5>1. job[c] = Len(outcome[c]) + 0
                    BY <1>4, <4>4
                <5> QED
                    BY <1>3, <1>5, <4>1, <4>2, <5>1
            <4> QED
                BY <4>3, <4>4
        <3>3. Underway(c)
            BY <3>2 DEF MessageInv, Job
        <3>4. Mongo
            <4>1. PICK r \in Said(rows), w \in Words : Text(r) = <<c, i, w>>
                BY <1>1, <2>2, MessagesAre
            <4> QED
                BY <3>2, <3>3, <4>1 DEF Underway, Spoke
        <3> QED
            BY <1>1, <1>7, <3>4, MessagesCount DEF Mongo
    <2> QED
        BY <2>1, <2>2
<1> QED
    BY <1>6, <1>7

\* A turn that returned is in the database, once, whatever connection was lost
\* and however often the Writer tried; one that is under way and of which no
\* statement raised is there whole or not at all, except in MongoDB.
THEOREM ReturnedTurnsAreStored == Spec => []TurnsAreStored
<1>1. BaseInv /\ MessageInv => TurnsAreStored
    BY StoredTurns
<1> QED
    BY <1>1, BaseHolds, MessagesHold, PTL

-----------------------------------------------------------------------------
(* The rows the cached ids are of: nobody takes them away, but a connection *)
(* that is lost or rolled back takes along what it has not committed.       *)

\* Of what a connection has taken away, only what is learned is gone.
GoneInv == \A n \in Connections : \A r \in Gone(n) : r.table \in Erasable \/ Has(New(n), r.table, r.id)

\* SQLite has one writer at a time.
SingleInv ==
    dialect = "sqlite" => \A n, m \in Connections : n # m => Touched(n) = {} \/ Touched(m) = {}

\* What a step of c leaves of the rows that nobody erases.
Leaves(c) ==
    /\ \A t, i : t \notin Erasable /\ Has(rows, t, i) => Has(rows', t, i)
    /\ \A n \in Connections \ {Conn(c)} : pend'[n] = pend[n]
    /\ \A n \in Connections : \A r \in pend'[n].gone : r.table \in Erasable \/ Has(pend'[n].new, r.table, r.id)

Stays(c) ==
    /\ Leaves(c)
    /\ \A t, i : t \notin Erasable /\ Has(rows \cup pend[Conn(c)].new, t, i)
                     => Has(rows' \cup pend'[Conn(c)].new, t, i)

LEMMA HasJoins ==
    ASSUME NEW S, NEW T, NEW t, NEW i
    PROVE  Has(S \cup T, t, i) <=> Has(S, t, i) \/ Has(T, t, i)
BY DEF Has

LEMMA HasIs ==
    /\ \A S, T, t, i : Has(S \cup T, t, i) <=> Has(S, t, i) \/ Has(T, t, i)
    /\ \A S, T, t, i : S \subseteq T /\ Has(S, t, i) => Has(T, t, i)
    /\ \A t \in Four : t \notin Erasable /\ t \notin Counts /\ t \in Tables
<1>1. \A t \in Four : t \notin Erasable /\ t \notin Counts
    BY DEF Four, Erasable, Graph, Counts
<1>2. Four \subseteq Tables
    BY TablesAre
<1>3. \A S, T, t, i : Has(S \cup T, t, i) <=> Has(S, t, i) \/ Has(T, t, i)
    BY DEF Has
<1>4. \A S, T, t, i : S \subseteq T /\ Has(S, t, i) => Has(T, t, i)
    BY DEF Has
<1> QED
    BY <1>1, <1>2, <1>3, <1>4

LEMMA WriteStays ==
    ASSUME NEW c \in Clients, TypeInv, GoneInv, NEW add, NEW remove, Write(c, add, remove),
           \A q \in remove : q.table \in Erasable \/ \E r \in add : r.table = q.table /\ r.id = q.id
    PROVE  Stays(c)
<1>1. ASSUME NEW S, NEW t, NEW i, t \notin Erasable, Has(S, t, i) PROVE Has((S \ remove) \cup add, t, i)
    BY <1>1 DEF Has
<1>2. Conn(c) \in Connections
    BY ConnectionIs
<1>3. CASE Mongo
    <2>1. rows' = (rows \ remove) \cup add /\ pend' = pend
        BY <1>3, WriteIs
    <2>2. \A t, i : t \notin Erasable /\ Has(rows, t, i) => Has(rows', t, i)
        BY <1>1, <2>1
    <2>3. ASSUME NEW t, NEW i, t \notin Erasable, Has(rows \cup pend[Conn(c)].new, t, i)
          PROVE  Has(rows' \cup pend'[Conn(c)].new, t, i)
        <3>1. Has(rows, t, i) \/ Has(pend[Conn(c)].new, t, i)
            BY <2>3, HasJoins
        <3>2. Has(rows', t, i) \/ Has(pend'[Conn(c)].new, t, i)
            BY <2>1, <2>2, <2>3, <3>1
        <3> QED
            BY <3>2, HasJoins
    <2> QED
        BY <2>1, <2>2, <2>3 DEF Stays, Leaves, GoneInv, Gone, New
<1>4. CASE ~Mongo
    <2>1. /\ rows' = rows
          /\ pend'[Conn(c)].new = (pend[Conn(c)].new \ remove) \cup add
          /\ pend'[Conn(c)].gone = pend[Conn(c)].gone \cup (remove \cap rows)
          /\ \A n \in Connections \ {Conn(c)} : pend'[n] = pend[n]
        BY <1>4, WriteIs
    <2>2. \A t, i : t \notin Erasable /\ Has(pend[Conn(c)].new, t, i) => Has(pend'[Conn(c)].new, t, i)
        BY <1>1, <2>1
    <2>3. ASSUME NEW t, NEW i, t \notin Erasable, Has(rows \cup pend[Conn(c)].new, t, i)
          PROVE  Has(rows' \cup pend'[Conn(c)].new, t, i)
        <3>1. Has(rows, t, i) \/ Has(pend[Conn(c)].new, t, i)
            BY <2>3, HasJoins
        <3>2. Has(rows', t, i) \/ Has(pend'[Conn(c)].new, t, i)
            BY <2>1, <2>2, <2>3, <3>1
        <3> QED
            BY <3>2, HasJoins
    <2>4. ASSUME NEW r \in pend'[Conn(c)].gone, r.table \notin Erasable
          PROVE  Has(pend'[Conn(c)].new, r.table, r.id)
        <3>1. CASE r \in remove
            <4>1. \E q \in add : q.table = r.table /\ q.id = r.id
                BY <2>4, <3>1
            <4> QED
                BY <2>1, <4>1 DEF Has
        <3>2. CASE r \notin remove
            <4>1. Has(pend[Conn(c)].new, r.table, r.id)
                BY <1>2, <2>1, <2>4, <3>2 DEF GoneInv, Gone, New
            <4> QED
                BY <2>2, <2>4, <4>1
        <3> QED
            BY <3>1, <3>2
    <2>5. \A n \in Connections : \A r \in pend'[n].gone : r.table \in Erasable \/ Has(pend'[n].new, r.table, r.id)
        BY <2>1, <2>4 DEF GoneInv, Gone, New
    <2> QED
        BY <2>1, <2>3, <2>5 DEF Stays, Leaves
<1> QED
    BY <1>3, <1>4

\* A rollback, or nothing.
LEMMA ClearLeaves ==
    ASSUME NEW c \in Clients, TypeInv, GoneInv, rows' = rows, pend' = pend \/ pend' = [pend EXCEPT ![Conn(c)] = NoWork]
    PROVE  Leaves(c)
<1>1. /\ \A n \in Connections : pend'[n] = pend[n] \/ pend'[n] = NoWork
      /\ \A n \in Connections \ {Conn(c)} : pend'[n] = pend[n]
    BY ClearedAre
<1>2. NoWork.gone = {}
    BY DEF NoWork
<1>3. ASSUME NEW n \in Connections, NEW r \in pend'[n].gone
      PROVE  r.table \in Erasable \/ Has(pend'[n].new, r.table, r.id)
    <2>1. pend'[n] = pend[n]
        BY <1>1, <1>2
    <2> QED
        BY <1>3, <2>1 DEF GoneInv, Gone, New
<1> QED
    BY <1>1, <1>3 DEF Leaves

LEMMA CommitStays ==
    ASSUME NEW c \in Clients, TypeInv, GoneInv, CommitWork(c)
    PROVE  Stays(c)
<1>1. rows' = (rows \ pend[Conn(c)].gone) \cup pend[Conn(c)].new /\ pend' = [pend EXCEPT ![Conn(c)] = NoWork]
    BY CommitIs DEF View
<1>2. Conn(c) \in Connections /\ pend = [n \in Connections |-> pend[n]]
    BY ConnectionIs DEF TypeInv
<1>3. pend'[Conn(c)] = NoWork /\ \A n \in Connections \ {Conn(c)} : pend'[n] = pend[n]
    BY <1>1, <1>2
<1>4. \A r \in pend[Conn(c)].gone : r.table \in Erasable \/ Has(pend[Conn(c)].new, r.table, r.id)
    BY <1>2 DEF GoneInv, Gone, New
<1>5. ASSUME NEW t, NEW i, t \notin Erasable, Has(rows \cup pend[Conn(c)].new, t, i) PROVE Has(rows', t, i)
    <2>1. PICK r \in rows \cup pend[Conn(c)].new : r.table = t /\ r.id = i
        BY <1>5 DEF Has
    <2>2. CASE r \in pend[Conn(c)].gone
        <3>1. Has(pend[Conn(c)].new, t, i)
            BY <1>4, <1>5, <2>1, <2>2
        <3> QED
            BY <1>1, <3>1, HasIs
    <2>3. CASE r \notin pend[Conn(c)].gone
        BY <1>1, <2>1, <2>3 DEF Has
    <2> QED
        BY <2>2, <2>3
<1>6. \A t, i : t \notin Erasable /\ Has(rows, t, i) => Has(rows', t, i)
    BY <1>5, HasIs
<1>7. \A t, i : t \notin Erasable /\ Has(rows \cup pend[Conn(c)].new, t, i) => Has(rows' \cup pend'[Conn(c)].new, t, i)
    BY <1>5, HasIs
<1>8. NoWork.gone = {}
    BY DEF NoWork
<1>9. \A n \in Connections : \A r \in pend'[n].gone : r.table \in Erasable \/ Has(pend'[n].new, r.table, r.id)
    BY <1>3, <1>8 DEF GoneInv, Gone, New
<1> QED
    BY <1>3, <1>6, <1>7, <1>9 DEF Stays, Leaves

LEMMA StepStays ==
    ASSUME NEW c \in Clients, BaseInv, GoneInv, Act(c) \/ Fail(c)
    PROVE  Leaves(c) /\ (Begin(c) \/ Doing(c) => Stays(c))
<1>1. TypeInv /\ TodoInv /\ StoreInv
    BY DEF BaseInv
<1>2. ASSUME rows' = rows, pend' = pend PROVE Stays(c)
    BY <1>1, <1>2, ClearLeaves DEF Stays
<1>3. ASSUME Doing(c) PROVE Stays(c)
    <2>1. CASE Reading(c)
        BY <1>2, <2>1, ReadingIs
    <2>2. CASE CommitWork(c)
        BY <1>1, <2>2, CommitStays
    <2>3. CASE EraseRows(c)
        <3>1. Write(c, {}, Cascade(c)) /\ \A r \in Cascade(c) : r.table \in Erasable
            BY <1>1, <2>3, EraseRowsIs
        <3> QED
            BY <1>1, <3>1, WriteStays
    <2>4. CASE CountRow(c)
        <3>1. PICK add : /\ Write(c, add, Counted(c))
                         /\ \A q \in Counted(c) : \E r \in add : r.table = q.table /\ r.id = q.id /\ r.cols = q.cols
            BY <1>1, <2>4, CountRowIs
        <3> QED
            BY <1>1, <3>1, WriteStays
    <2>5. CASE InsertRow(c)
        <3>1. PICK add : add = {Draft(c)}
            OBVIOUS
        <3>2. Write(c, add, {})
            BY <1>1, <2>5, <3>1, DraftIs
        <3> QED
            BY <1>1, <3>2, WriteStays
    <2> QED
        BY <1>3, <2>1, <2>2, <2>3, <2>4, <2>5, DoingsAre
<1>4. Begin(c) => Stays(c)
    BY <1>2 DEF Begin
<1>5. Raises(c) => Leaves(c)
    BY <1>1, RaiseLeaves, ClearLeaves
<1>6. RestartTransaction(c) => Leaves(c)
    BY <1>1, ClearLeaves DEF RestartTransaction
<1> QED
    BY <1>3, <1>4, <1>5, <1>6, StepsAre DEF Stays

-----------------------------------------------------------------------------
\* Who writes in SQLite does so alone.
LEMMA WritesAlone ==
    ASSUME NEW c \in Clients, dialect = "sqlite",
           InsertRow(c) \/ CountRow(c) \/ (EraseRows(c) /\ Cascade(c) # {})
    PROVE  \A n \in Connections \ {Conn(c)} : Touched(n) = {}
<1>1. \A S, e : Holders(c, S, e) = {} /\ S # {} => \A n \in Connections \ {Conn(c)} : Touched(n) = {}
    BY DEF Holders
<1>2. WaitsFor(c) = {}
    BY DEF InsertRow, CountRow, EraseRows, Ready
<1>3. CASE InsertRow(c)
    <2>1. Here(c).do \in Adds /\ Here(c).do \notin Local /\ Here(c).do \notin Erases /\ ~LeftOut(c) /\ Inserts(c)
        BY <1>3 DEF InsertRow, Ready, Adds, Local, Erases
    <2>2. WaitsFor(c) = Holders(c, Counted(c) \cup {Draft(c)}, FALSE)
        BY <2>1 DEF WaitsFor
    <2> QED
        BY <1>1, <1>2, <2>2
<1>4. CASE CountRow(c)
    <2>1. /\ Here(c).do \in Adds \cup {"count_found", "update"} /\ ~LeftOut(c) /\ Counted(c) # {}
          /\ Here(c).do \notin Local /\ Here(c).do \notin Erases
        BY <1>4 DEF CountRow, Ready, Adds, Local, Erases
    <2>2. \E S : Counted(c) \subseteq S /\ WaitsFor(c) = Holders(c, S, FALSE)
        BY <2>1 DEF WaitsFor
    <2> QED
        BY <1>1, <1>2, <2>1, <2>2
<1>5. CASE EraseRows(c) /\ Cascade(c) # {}
    <2>1. Here(c).do \in Erases /\ Here(c).do \notin Local
        BY <1>5 DEF EraseRows, Ready, Local, Erases
    <2>2. WaitsFor(c) = (CASE Here(c).do \in Local -> {} [] Here(c).do \in Erases -> Holders(c, Cascade(c), TRUE)
                           [] LeftOut(c) -> {}
                           [] Here(c).do \in Adds ->
                                 Holders(c, Counted(c) \cup (IF Inserts(c) THEN {Draft(c)} ELSE {}), FALSE)
                           [] OTHER -> Holders(c, Counted(c), FALSE))
        BY DEF WaitsFor
    <2>3. Here(c).do \notin Adds
        BY <2>1 DEF Adds, Erases
    <2>4. ~LeftOut(c)
        BY <2>3 DEF LeftOut
    <2> QED
        BY <1>1, <1>2, <1>5, <2>1, <2>2, <2>3, <2>4
<1> QED
    BY <1>3, <1>4, <1>5

LEMMA SingleStep ==
    ASSUME NEW c \in Clients, BaseInv, GoneInv, SingleInv, Act(c) \/ Fail(c)
    PROVE  SingleInv'
<1>1. TypeInv /\ TodoInv /\ StoreInv /\ Frame(c) /\ dialect' = dialect /\ Conn(c) \in Connections
    BY StepCounts, ConnectionIs DEF BaseInv, Frame
<1>2. \A n \in Connections \ {Conn(c)} : pend'[n] = pend[n]
    BY StepStays DEF Leaves
<1> SUFFICES ASSUME dialect = "sqlite", NEW n \in Connections, NEW m \in Connections, n # m
             PROVE  Touched(n)' = {} \/ Touched(m)' = {}
    BY <1>1 DEF SingleInv
<1>3. Touched(n) = {} \/ Touched(m) = {}
    BY DEF SingleInv
<1>4. \A k \in Connections \ {Conn(c)} : Touched(k)' = Touched(k)
    BY <1>2 DEF Touched
<1>5. CASE InsertRow(c) \/ CountRow(c) \/ (EraseRows(c) /\ Cascade(c) # {})
    BY <1>4, <1>5, WritesAlone
<1>6. CASE EraseRows(c) /\ Cascade(c) = {}
    <2>1. PICK e : e = {} /\ Write(c, e, e)
        BY <1>6 DEF EraseRows
    <2>2. ~Mongo
        BY DEF Mongo
    <2>3. pend'[Conn(c)].new = (pend[Conn(c)].new \ e) \cup e /\ pend'[Conn(c)].gone = pend[Conn(c)].gone \cup (e \cap rows)
        BY <1>1, <2>1, <2>2, WriteIs
    <2>4. \A k \in {n, m} : pend'[k].new \cup pend'[k].gone = Touched(k)
        BY <1>2, <2>1, <2>3 DEF Touched
    <2> QED
        BY <1>3, <2>4 DEF Touched
<1>7. ASSUME pend' = pend \/ pend' = [pend EXCEPT ![Conn(c)] = NoWork] PROVE Touched(n)' = {} \/ Touched(m)' = {}
    <2>1. \A k \in Connections : pend'[k] = pend[k] \/ pend'[k] = NoWork
        BY <1>1, <1>7, ClearedAre
    <2>2. \A k \in {n, m} : Touched(k)' = Touched(k) \/ Touched(k)' = {}
        BY <2>1 DEF Touched, NoWork
    <2> QED
        BY <1>3, <2>2
<1>8. Begin(c) \/ RestartTransaction(c) \/ Raises(c) \/ Reading(c) \/ CommitWork(c)
         => pend' = pend \/ pend' = [pend EXCEPT ![Conn(c)] = NoWork]
    BY <1>1, RaiseLeaves, ReadingIs, CommitIs DEF Begin, RestartTransaction
<1> QED
    BY <1>5, <1>6, <1>7, <1>8, StepsAre, DoingsAre

-----------------------------------------------------------------------------
(* What a client has cached.  Where a driver commits as soon as it has     *)
(* created one of the four rows that are cached, only that commit finds    *)
(* such a row uncommitted; SQLite and Oracle commit at the end of the job. *)
Main(c) == <<c, "main">>

Late == dialect \in {"sqlite", "oracle"}

Firm(c) == ~aborted[Main(c)] /\ (Ignores => faults[c] = 0)

\* The rows that c can count on.
Base(c) == rows \cup (IF Late THEN New(Main(c)) ELSE {})

FreshInv(c) ==
    ~Late => \A r \in New(Main(c)) : r.table \in Four => Running(c) /\ ~IsLearning(c) /\ Here(c).do = "commit"

HeldInv(c) == \A t \in Four : cache[c][t] # 0 => Has(Base(c), t, cache[c][t])

Keeping(c) == Running(c) /\ Job(c) \in {"turn", "inject"}

GotInv(c) ==
    Keeping(c) /\ Here(c).do \in {"return_recent", "add_absent"} /\ Here(c).table \in Four /\ got[c] # 0
        => Has(Base(c), Here(c).table, got[c])

\* A client of MongoDB has no transaction that could be aborted.
NeverAborted == Mongo => \A n \in Connections : ~aborted[n]

CacheInv == GoneInv /\ SingleInv /\ NeverAborted /\ \A c \in Clients : Firm(c) => FreshInv(c) /\ HeldInv(c) /\ GotInv(c)

LEMMA MainIs ==
    ASSUME NEW c \in Clients
    PROVE  /\ Main(c) \in Connections
           /\ ~IsLearning(c) => Conn(c) = Main(c)
           /\ IsLearning(c) => Conn(c) # Main(c)
           /\ Keeping(c) => ~IsLearning(c) /\ Running(c)
BY ConnectionIs DEF Main, Keeping, IsLearning, Learns, Conn

LEMMA OtherHolds ==
    ASSUME NEW c \in Clients, BaseInv, GoneInv, Act(c) \/ Fail(c), NEW d \in Clients \ {c},
           Firm(d)', Firm(d) => FreshInv(d) /\ HeldInv(d) /\ GotInv(d)
    PROVE  FreshInv(d)' /\ HeldInv(d)' /\ GotInv(d)'
<1>1. TypeInv /\ Frame(c) /\ dialect' = dialect
    BY StepCounts DEF BaseInv, Frame
<1>2. /\ got'[d] = got[d] /\ cache'[d] = cache[d] /\ faults'[d] = faults[d]
      /\ pend'[Main(d)] = pend[Main(d)] /\ aborted'[Main(d)] = aborted[Main(d)]
      /\ Running(d)' = Running(d) /\ Here(d)' = Here(d) /\ Job(d)' = Job(d) /\ IsLearning(d)' = IsLearning(d)
    BY <1>1, OthersStay DEF Main
<1>3. Late' = Late /\ Ignores' = Ignores /\ Keeping(d)' = Keeping(d) /\ Here(d).do' = Here(d).do
      /\ Here(d).table' = Here(d).table
    BY <1>1, <1>2 DEF Late, Ignores, Keeping
<1>4. Firm(d)
    BY <1>2, <1>3 DEF Firm
<1>5. \A t, i : t \notin Erasable /\ Has(rows, t, i) => Has(rows', t, i)
    BY StepStays DEF Leaves
<1>6. ASSUME NEW t \in Four, NEW i, Has(Base(d), t, i) PROVE Has(Base(d)', t, i)
    <2>1. Has(rows, t, i) \/ (Late /\ Has(pend[Main(d)].new, t, i))
        BY <1>6, HasJoins DEF Base, New, Has
    <2>2. Has(rows', t, i) \/ (Late /\ Has(pend'[Main(d)].new, t, i))
        BY <1>2, <1>5, <2>1, HasIs
    <2> QED
        BY <1>3, <2>2 DEF Base, New, Has
<1>7. FreshInv(d)'
    BY <1>2, <1>3, <1>4 DEF FreshInv, New
<1>8. HeldInv(d)'
    BY <1>2, <1>4, <1>6 DEF HeldInv
<1>9. GotInv(d)'
    BY <1>2, <1>3, <1>4, <1>6 DEF GotInv
<1> QED
    BY <1>7, <1>8, <1>9

-----------------------------------------------------------------------------
(* Statements that raise.                                                  *)
RaisesAt(c) ==
    \/ TakeNothing(c) \/ JudgeRaises(c) \/ InsertRaises(c) \/ AbortedRaises(c)
    \/ DeadlockVictim(c) \/ LockTimeout(c) \/ StatementFails(c)

LEMMA RaisesAre ==
    ASSUME NEW c, Act(c) \/ Fail(c)
    PROVE  Begin(c) \/ RestartTransaction(c) \/ RaisesAt(c) \/ Doing(c)
BY DEF Act, Fail, RaisesAt, Doing

LEMMA RaisesAtIs ==
    ASSUME NEW c, RaisesAt(c)
    PROVE  Raises(c)
<1>2. ASSUME TakeNothing(c) \/ JudgeRaises(c) \/ InsertRaises(c) \/ AbortedRaises(c) \/ DeadlockVictim(c)
               \/ LockTimeout(c)
      PROVE  Raises(c)
    BY <1>2 DEF TakeNothing, JudgeRaises, InsertRaises, AbortedRaises, DeadlockVictim, LockTimeout, Ready, Raises
<1>3. ASSUME StatementFails(c) PROVE Raises(c)
    BY <1>3 DEF StatementFails, CanFail, Raises
<1> QED
    BY <1>2, <1>3 DEF RaisesAt

\* What SQLite or Oracle has not committed stays when a statement raises.
LEMMA LateRaises ==
    ASSUME NEW c \in Clients, TypeInv, SingleInv, Late, RaisesAt(c), Firm(c)'
    PROVE  rows' = rows /\ pend'[Main(c)] = pend[Main(c)]
<1>1. /\ rows' = rows /\ Running(c) /\ dialect' = dialect
      /\ pend' = pend \/ pend' = [pend EXCEPT ![Conn(c)] = NoWork]
    BY RaisesAtIs, RaiseLeaves
<1>2. CASE IsLearning(c)
    BY <1>1, <1>2, ClearedAre, MainIs
<1>3. CASE ~IsLearning(c)
    <2> SUFFICES pend' = pend
        BY <1>1
    <2>1. Conn(c) = Main(c) /\ Main(c) \in Connections /\ aborted \in [Connections -> BOOLEAN]
        BY <1>3, MainIs DEF TypeInv
    <2>2. dialect # "postgresql" /\ dialect # "mongodb"
        BY DEF Late
    <2>3. ASSUME NEW lost \in BOOLEAN, Raise(c, FALSE, lost) PROVE pend' = pend
        <3>1. aborted' = [aborted EXCEPT ![Main(c)] =
                             ~IsLearning(c) /\ dialect # "mongodb" /\ (lost \/ aborted[Main(c)] \/ dialect = "postgresql")]
            BY <2>1, <2>3 DEF Raise
        <3>2. ~lost
            BY <1>3, <2>1, <2>2, <3>1, Zenon DEF Firm
        <3> QED
            BY <1>3, <2>2, <2>3, <3>2 DEF Raise
    <2>4. CASE DeadlockVictim(c)
        <3>1. Raise(c, dialect # "oracle", FALSE)
            BY <2>4 DEF DeadlockVictim
        <3>2. CASE dialect = "oracle"
            <4>1. Raise(c, FALSE, FALSE)
                BY <3>1, <3>2, Zenon
            <4> QED
                BY <2>3, <4>1
        <3>3. CASE dialect = "sqlite"
            <4>1. PICK d \in Clients \ {c} : Conn(d) \in WaitsFor(c) /\ Conn(c) \in WaitsFor(d)
                BY <2>4 DEF DeadlockVictim
            <4>2. \A e \in Clients : \A n \in WaitsFor(e) : n \in Connections /\ Touched(n) # {}
                BY DEF WaitsFor, Holders
            <4>3. Conn(d) # Conn(c) /\ Conn(d) \in Connections
                BY ConnectionIs
            <4> QED
                BY <2>1, <3>3, <4>1, <4>2, <4>3 DEF SingleInv
        <3> QED
            BY <3>2, <3>3 DEF Late
    <2>5. CASE StatementFails(c)
        BY <2>3, <2>5 DEF StatementFails
    <2>6. CASE TakeNothing(c) \/ JudgeRaises(c) \/ InsertRaises(c) \/ AbortedRaises(c) \/ LockTimeout(c)
        <3>1. Raise(c, FALSE, FALSE)
            BY <2>6 DEF TakeNothing, JudgeRaises, InsertRaises, AbortedRaises, LockTimeout
        <3> QED
            BY <2>3, <3>1
    <2> QED
        BY <2>4, <2>5, <2>6 DEF RaisesAt
<1> QED
    BY <1>2, <1>3

\* MySQL's commit waits for nobody and fails only when the play says so.
LEMMA CommitGoesOn ==
    ASSUME NEW c \in Clients, TypeInv, Running(c), Here(c).do = "commit", ~aborted[Conn(c)], RaisesAt(c),
           UNCHANGED faults
    PROVE  FALSE
<1>1. WaitsFor(c) = {}
    <2>1. Counted(c) = {}
        BY DEF Counted
    <2>2. Here(c).do \notin Local /\ Here(c).do \notin Erases /\ Here(c).do \notin Adds
        BY DEF Local, Erases, Adds
    <2>3. ~LeftOut(c)
        BY <2>2 DEF LeftOut
    <2>4. Holders(c, {}, FALSE) = {}
        BY DEF Holders
    <2> QED
        BY <2>1, <2>2, <2>3, <2>4 DEF WaitsFor
<1>2. ~TakeNothing(c) /\ ~JudgeRaises(c) /\ ~InsertRaises(c)
    BY DEF TakeNothing, JudgeRaises, InsertRaises, Ready, Adds
<1>3. ~AbortedRaises(c) /\ ~DeadlockVictim(c) /\ ~LockTimeout(c)
    BY <1>1 DEF AbortedRaises, DeadlockVictim, LockTimeout
<1>4. ~StatementFails(c)
    <2>1. faults \in [Clients -> Nat]
        BY DEF TypeInv
    <2>2. SUFFICES ASSUME faults' = [faults EXCEPT ![c] = faults[c] + 1] PROVE FALSE
        BY DEF StatementFails
    <2>3. faults'[c] = faults[c] + 1 /\ faults[c] \in Nat
        BY <2>1, <2>2
    <2> QED
        BY <2>3
<1> QED
    BY <1>2, <1>3, <1>4 DEF RaisesAt

-----------------------------------------------------------------------------
(* What the rows that c counts on become when c moves.                     *)
LEMMA SeenIs ==
    ASSUME NEW c \in Clients, FreshInv(c), ~IsLearning(c), Here(c).do # "commit",
           NEW t \in Four, NEW i, Has(View(c), t, i)
    PROVE  Has(Base(c), t, i)
<1>1. Conn(c) = Main(c)
    BY MainIs
<1>2. PICK r \in View(c) : r.table = t /\ r.id = i
    BY DEF Has
<1>3. r \in rows \/ r \in New(Main(c))
    BY <1>1, <1>2 DEF View, New
<1>4. Late \/ r \in rows
    BY <1>2, <1>3 DEF FreshInv
<1> QED
    BY <1>2, <1>3, <1>4 DEF Base, Has

LEMMA BaseStays ==
    ASSUME NEW c \in Clients, BaseInv, GoneInv, SingleInv, Act(c) \/ Fail(c), Firm(c)',
           NEW t \in Four, NEW i, Has(Base(c), t, i)
    PROVE  Has(Base(c)', t, i)
<1>1. TypeInv /\ dialect' = dialect /\ t \notin Erasable /\ Main(c) \in Connections
    BY StepCounts, HasIs, MainIs DEF BaseInv, Frame
<1>2. Late' = Late
    BY <1>1 DEF Late
<1>3. Has(rows, t, i) => Has(rows', t, i)
    BY <1>1, StepStays DEF Leaves
<1>4. Has(rows, t, i) \/ (Late /\ Has(pend[Main(c)].new, t, i))
    BY HasJoins DEF Base, New, Has
<1>5. CASE Has(rows, t, i)
    BY <1>3, <1>5 DEF Base, Has
<1>6. CASE Late /\ Has(pend[Main(c)].new, t, i)
    <2>1. Has(rows', t, i) \/ Has(pend'[Main(c)].new, t, i)
        <3>1. CASE Begin(c) \/ Doing(c)
            <4>1. CASE Conn(c) = Main(c)
                <5>1. Has(rows \cup pend[Conn(c)].new, t, i)
                    BY <1>6, <4>1, HasJoins
                <5>2. Has(rows' \cup pend'[Conn(c)].new, t, i)
                    BY <1>1, <3>1, <5>1, StepStays DEF Stays
                <5>3. Has(rows' \cup pend'[Main(c)].new, t, i)
                    BY <4>1, <5>2
                <5> QED
                    BY <5>3, HasJoins
            <4>2. CASE Conn(c) # Main(c)
                <5>1. pend'[Main(c)] = pend[Main(c)]
                    BY <1>1, <4>2, StepStays DEF Leaves
                <5> QED
                    BY <1>6, <5>1
            <4> QED
                BY <4>1, <4>2
        <3>2. CASE RestartTransaction(c)
            BY <1>6, <3>2 DEF RestartTransaction, Late
        <3>3. CASE RaisesAt(c)
            <4>1. pend'[Main(c)] = pend[Main(c)]
                BY <1>1, <1>6, <3>3, LateRaises
            <4> QED
                BY <1>6, <4>1
        <3> QED
            BY <3>1, <3>2, <3>3, RaisesAre
    <2> QED
        BY <1>2, <1>6, <2>1 DEF Base, New, Has
<1> QED
    BY <1>4, <1>5, <1>6

-----------------------------------------------------------------------------
(* Rows that are cached and not committed.                                 *)
LEMMA CountsNothingCached ==
    ASSUME NEW c \in Clients, BaseInv, CountRow(c), ~IsLearning(c)
    PROVE  Here(c).table \notin Four
<1>1. TypeInv /\ TodoInv /\ Running(c) /\ Here(c).do \in Adds \cup {"count_found", "update"} /\ Counted(c) # {}
    BY DEF CountRow, Ready, BaseInv
<1>2. Proper(Here(c)) /\ Here(c) \in OfJob(Job(c))
    BY <1>1, HereIs
<1>3. Here(c).do # "update"
    BY <1>1, <1>2 DEF OfJob, IsLearning
<1>4. Here(c).do \in {"upsert", "count_found", "count_or_add"}
    BY <1>1, <1>3 DEF Counted
<1> QED
    BY <1>2, <1>4 DEF Proper, Counts, Four

LEMMA InsertCommits ==
    ASSUME NEW c \in Clients, BaseInv, InsertRow(c), ~Mongo, Here(c).table \in Four
    PROVE  Running(c)' /\ Here(c).do' = "commit"
<1>1. TypeInv /\ TodoInv /\ StoreInv /\ Running(c) /\ Here(c).do \in Adds
    BY DEF InsertRow, Ready, BaseInv
<1>2. /\ Len(todo[c]) \in Nat /\ Len(todo[c]) >= 1 /\ todo[c] \in Seq(Stmt) /\ Here(c) = todo[c][1]
    BY <1>1, HereIs
<1>3. Goes(c, 1)
    BY <1>1, InsertRowBy DEF By
<1>4. TidyAt(Mongo, todo[c], 1)
    BY <1>1, <1>2 DEF TodoInv, Rest, Tidy
<1>5. 1 < Len(todo[c]) /\ todo[c][2].do = "commit"
    BY <1>1, <1>2, <1>4 DEF TidyAt
<1>6. todo'[c] = After(todo[c], 1) /\ todo'[c] # <<>>
    BY <1>1, <1>3, <1>5, GoesOn
<1>7. After(todo[c], 1)[1] = todo[c][2] /\ After(todo[c], 1) \in Seq(Stmt)
    <2>1. 1 \in 1 .. Len(todo[c]) /\ 1 \in 1 .. Len(todo[c]) - 1
        BY <1>2, <1>5
    <2>2. After(todo[c], 1) \in Seq(Stmt) /\ \A i \in 1 .. Len(todo[c]) - 1 : After(todo[c], 1)[i] = todo[c][i + 1]
        BY <1>2, <2>1, AfterIs
    <2>3. After(todo[c], 1)[1] = todo[c][1 + 1]
        BY <2>1, <2>2
    <2> QED
        BY <2>2, <2>3
<1>8. Head(todo'[c]) = todo'[c][1]
    BY <1>6, <1>7
<1> QED
    BY <1>5, <1>6, <1>7, <1>8 DEF Running, Here

LEMMA FreshStep ==
    ASSUME NEW c \in Clients, BaseInv, GoneInv, Act(c) \/ Fail(c), Firm(c)', Firm(c), FreshInv(c)
    PROVE  FreshInv(c)'
<1>1. /\ TypeInv /\ TodoInv /\ StoreInv /\ Frame(c) /\ dialect' = dialect /\ play' = play
      /\ Main(c) \in Connections
    BY StepCounts, MainIs DEF BaseInv, Frame
<1> SUFFICES ASSUME ~Late, NEW r \in pend'[Main(c)].new, r.table \in Four
             PROVE  Running(c)' /\ ~IsLearning(c)' /\ Here(c).do' = "commit"
    BY <1>1 DEF FreshInv, New, Late
<1>2. r \in pend[Main(c)].new => Running(c) /\ ~IsLearning(c) /\ Here(c).do = "commit"
    BY DEF FreshInv, New
<1>3. NoWork.new = {}
    BY DEF NoWork
<1>4. IsLearning(c) => pend'[Main(c)] = pend[Main(c)]
    BY <1>1, MainIs, ShapesStay
<1>5. CASE Begin(c)
    BY <1>2, <1>5 DEF Begin
<1>6. CASE RestartTransaction(c)
    <2>1. ~IsLearning(c) /\ pend' = [pend EXCEPT ![Conn(c)] = NoWork]
        BY <1>6 DEF RestartTransaction, IsLearning, Learns
    <2> QED
        BY <1>1, <1>3, <2>1, MainIs DEF TypeInv
<1>7. CASE RaisesAt(c)
    <2>1. /\ Running(c) /\ dialect' = dialect
          /\ pend' = pend \/ pend' = [pend EXCEPT ![Conn(c)] = NoWork]
          /\ IsLearning(c) \/ dialect = "postgresql" => pend' = [pend EXCEPT ![Conn(c)] = NoWork]
        BY <1>1, <1>7, RaisesAtIs, RaiseLeaves
    <2>2. pend'[Main(c)] = pend[Main(c)] \/ pend'[Main(c)] = NoWork
        BY <1>1, <2>1, ClearedAre
    <2>3. pend'[Main(c)] = pend[Main(c)] /\ r \in pend[Main(c)].new
        BY <1>3, <2>2
    <2>4. ~IsLearning(c) /\ Here(c).do = "commit" /\ Conn(c) = Main(c)
        BY <1>2, <2>3, MainIs
    <2>5. dialect # "postgresql"
        BY <1>1, <1>3, <2>1, <2>3, <2>4 DEF TypeInv
    <2>6. dialect # "mongodb"
        BY <1>1, <1>3, <2>3 DEF StoreInv, Mongo
    <2>7. Ignores
        <3>1. dialect \in AllDialects
            BY <1>1, Assumed DEF TypeInv
        <3> QED
            BY <2>5, <2>6, <3>1 DEF AllDialects, Ignores, Late
    <2>8. faults'[c] = 0 /\ ~aborted[Conn(c)]
        BY <1>1, <2>4, <2>7 DEF Firm, Ignores
    <2>9. faults' = faults
        <3>1. faults \in [Clients -> Nat]
            BY <1>1 DEF TypeInv
        <3>2. faults' = faults \/ faults' = [faults EXCEPT ![c] = faults[c] + 1]
            BY <1>7, RaisesAtIs DEF Raises
        <3>3. ASSUME faults' = [faults EXCEPT ![c] = faults[c] + 1] PROVE FALSE
            <4>1. faults'[c] = faults[c] + 1 /\ faults[c] \in Nat
                BY <3>1, <3>3
            <4> QED
                BY <2>8, <4>1
        <3> QED
            BY <3>2, <3>3
    <2> QED
        BY <1>1, <1>7, <2>1, <2>4, <2>8, <2>9, CommitGoesOn
<1>8. CASE Doing(c)
    <2>1. CASE IsLearning(c)
        BY <1>2, <1>4, <2>1
    <2>2. CASE ~IsLearning(c) /\ Here(c).do = "commit"
        <3>1. CommitWork(c)
            BY <1>8, <2>2, CommitRuns
        <3> QED
            BY <1>1, <1>3, <2>2, <3>1, CommitIs, MainIs DEF TypeInv
    <2>3. CASE ~IsLearning(c) /\ Here(c).do # "commit"
        <3>1. r \notin pend[Main(c)].new /\ Conn(c) = Main(c)
            BY <1>2, <2>3, MainIs
        <3>2. ~Reading(c)
            BY <3>1, ReadingIs
        <3>3. ~CommitWork(c)
            BY <2>3, CommitIs
        <3>4. CASE CountRow(c)
            <4>1. PICK add : /\ Write(c, add, Counted(c))
                             /\ \A x \in add : \E q \in Counted(c) : x.table = q.table
                BY <1>1, <3>4, CountRowIs
            <4>2. r \in pend[Main(c)].new \/ r \in add
                BY <1>1, <3>1, <4>1, WriteIs
            <4>3. r.table = Here(c).table
                BY <1>1, <3>1, <3>4, <4>1, <4>2, CountRowIs
            <4> QED
                BY <2>3, <3>4, <4>3, CountsNothingCached
        <3>5. CASE EraseRows(c)
            <4>1. PICK e : e = {} /\ Write(c, e, Cascade(c))
                BY <1>1, <3>5, EraseRowsIs
            <4> QED
                BY <1>1, <3>1, <4>1, WriteIs
        <3>6. CASE InsertRow(c)
            <4>1. PICK e, s : e = {} /\ s = {Draft(c)} /\ Write(c, s, e)
                BY <3>6 DEF InsertRow
            <4>2. ~Mongo /\ r = Draft(c)
                BY <1>1, <3>1, <4>1, WriteIs
            <4>3. Here(c).table \in Four
                BY <4>2 DEF Draft
            <4>4. Running(c)' /\ Here(c).do' = "commit"
                BY <3>6, <4>2, <4>3, InsertCommits
            <4>5. ~IsLearning(c)'
                <5>1. Goes(c, 1) /\ Running(c)
                    BY <1>1, <3>6, InsertRowBy DEF By, Goes
                <5>2. job' = job
                    BY <1>1, <5>1, GoesOn
                <5> QED
                    BY <1>1, <2>3, <5>1, <5>2 DEF IsLearning, Job
            <4> QED
                BY <4>4, <4>5
        <3> QED
            BY <1>8, <3>2, <3>3, <3>4, <3>5, <3>6, DoingsAre
    <2> QED
        BY <2>1, <2>2, <2>3
<1> QED
    BY <1>5, <1>6, <1>7, <1>8, RaisesAre

-----------------------------------------------------------------------------
(* What a statement hands on: the id it has found, and the one it returns. *)
LEMMA FindRuns ==
    ASSUME NEW c \in Clients, Doing(c), Here(c).do = "find"
    PROVE  FindRow(c)
<1>1. ~LookUp(c) /\ ~JudgeConversation(c) /\ ~CommitWork(c)
    BY DEF LookUp, JudgeConversation, CommitWork, Ready
<1>2. ~NoteIds(c) /\ ~Decide(c) /\ ~EraseRows(c) /\ ~InsertRow(c) /\ ~ChangeSession(c)
    BY DEF NoteIds, Decide, EraseRows, InsertRow, ChangeSession, Ready, Erases, Adds
<1>3. ~ReadMessages(c) /\ ~ReadNoted(c) /\ ~CountRow(c) /\ ~WriteNothing(c)
    BY DEF ReadMessages, ReadNoted, CountRow, WriteNothing, Ready, Adds
<1> QED
    BY <1>1, <1>2, <1>3 DEF Doing

LEMMA FoundIsSeen ==
    ASSUME NEW c \in Clients, TypeInv, StoreInv, FreshInv(c), ~IsLearning(c), Here(c).do # "commit",
           Here(c).table \in Four, NEW i \in FoundIds(c), i # 0
    PROVE  Has(Base(c), Here(c).table, i)
<1>1. Here(c).table \in Tables
    BY HasIs
<1>2. PICK r \in Matches(c, Here(c).table) : r.id = i
    BY <1>1, FoundAre
<1>3. r \in View(c) /\ r.table = Here(c).table
    BY DEF Matches
<1>4. Has(View(c), Here(c).table, i)
    BY <1>2, <1>3 DEF Has
<1> QED
    BY <1>4, SeenIs

\* A statement that goes by what was found comes right after the one that finds.
LEMMA GotIsFound ==
    ASSUME NEW c \in Clients, BaseInv, Act(c) \/ Fail(c),
           Running(c)', Here(c)'.do \in {"return_recent", "add_absent"}, Here(c)'.table \in Four
    PROVE  /\ Running(c) /\ Job(c)' = Job(c) /\ Here(c).do = "find" /\ Here(c).table = Here(c)'.table
           /\ got'[c] \in FoundIds(c) /\ UNCHANGED <<rows, last, pend, job, uuid>>
<1>1. /\ TypeInv /\ TodoInv /\ StoreInv /\ Frame(c) /\ dialect' = dialect /\ play' = play
    BY StepCounts DEF BaseInv, Frame
<1>2. Here(c)'.do \in Bound
    BY DEF Bound, Follows
<1>3. ~RaisesAt(c)
    BY <1>1, RaisesAtIs, RaiseLeaves
<1>4. ~Begin(c)
    BY <1>1, <1>2, BeginTypes, ProgramStarts DEF Here
<1>5. ~RestartTransaction(c)
    BY <1>1, <1>2, RestartTypes, ProgramStarts DEF Here, JobKinds
<1>6. Doing(c)
    BY <1>3, <1>4, <1>5, RaisesAre
<1>7. PICK n : By(c, n)
    BY <1>1, <1>6, DoingIs
<1>8. /\ n = 1 /\ Here(c)' = todo[c][2] /\ Len(todo[c]) >= 2
      /\ TidyAt(Mongo, todo[c], 2) /\ Here(c) = todo[c][1] /\ Goes(c, n) /\ Running(c)
    BY <1>1, <1>2, <1>7, NextFollows DEF By, Goes
<1>9. Here(c).do = "find" /\ Here(c).table = Here(c)'.table
    <2>1. Here(c).table = Here(c)'.table /\ (Here(c).do = "find" \/ Here(c).do = "count_found")
        BY <1>8 DEF TidyAt, Follows
    <2>2. Here(c).do # "count_found"
        BY <1>1, <1>8, <2>1, HereIs DEF Proper, Counts, Four
    <2> QED
        BY <2>1, <2>2
<1>10. FindRow(c)
    BY <1>6, <1>9, FindRuns
<1>11. PICK i \in FoundIds(c) : Step(c, 1, i, noted[c])
    BY <1>10 DEF FindRow
<1>12. got' = [got EXCEPT ![c] = i] /\ UNCHANGED <<rows, last, pend, job, uuid>>
    BY <1>8, <1>10, <1>11 DEF FindRow, NoWrite, Untouched, Step, EndJob, Running
<1>13. got'[c] = i /\ Job(c)' = Job(c)
    BY <1>1, <1>12 DEF TypeInv, Job
<1> QED
    BY <1>8, <1>9, <1>12, <1>13

LEMMA GotStep ==
    ASSUME NEW c \in Clients, BaseInv, Act(c) \/ Fail(c), FreshInv(c)
    PROVE  GotInv(c)'
<1>1. TypeInv /\ StoreInv /\ dialect' = dialect
    BY StepCounts DEF BaseInv, Frame
<1> SUFFICES ASSUME Running(c)', Job(c)' \in {"turn", "inject"}, Here(c)'.do \in {"return_recent", "add_absent"},
                    Here(c)'.table \in Four, got'[c] # 0
             PROVE  Has(Base(c)', Here(c)'.table, got'[c])
    BY DEF GotInv, Keeping
<1>2. /\ Running(c) /\ Job(c)' = Job(c) /\ Here(c).do = "find" /\ Here(c).table = Here(c)'.table
      /\ got'[c] \in FoundIds(c) /\ UNCHANGED <<rows, last, pend, job, uuid>>
    BY GotIsFound
<1>3. ~IsLearning(c)
    BY <1>2 DEF IsLearning, Learns
<1>4. Has(Base(c), Here(c).table, got'[c])
    BY <1>1, <1>2, <1>3, FoundIsSeen
<1>5. Base(c)' = Base(c)
    BY <1>1, <1>2 DEF Base, New, Late
<1> QED
    BY <1>2, <1>4, <1>5

LEMMA ReturnKeeps ==
    ASSUME NEW c \in Clients, TypeInv, Running(c), NEW u \in Tables, NEW i \in Nat, Return(c, u, i),
           NEW t \in Four, cache'[c][t] # cache[c][t]
    PROVE  u = t /\ cache'[c][t] = i /\ Keeping(c)
<1>1. t \in Tables
    BY HasIs
<1>2. cache'[c][u] \in {i, cache[c][u]} /\ \A v \in Tables \ {u} : cache'[c][v] = cache[c][v]
    BY ReturnIs
<1>3. cache' # cache
    OBVIOUS
<1>4. Job(c) \in {"turn", "inject"}
    BY <1>3 DEF Return
<1> QED
    BY <1>1, <1>2, <1>4 DEF Keeping

\* An id that is cached now is of a row that c can count on.
LEMMA GivenAre ==
    ASSUME NEW c \in Clients, BaseInv, Doing(c), FreshInv(c), GotInv(c),
           NEW t \in Four, cache'[c][t] # cache[c][t], cache'[c][t] # 0
    PROVE  Has(Base(c)', t, cache'[c][t])
<1>1. TypeInv /\ TodoInv /\ StoreInv /\ t \in Tables
    BY HasIs DEF BaseInv
<1>2. cache' # cache
    OBVIOUS
<1>3. CASE LookUp(c)
    <2>1. PICK i \in FoundIds(c) : Return(c, Here(c).table, i)
        BY <1>3 DEF LookUp
    <2>2. /\ Running(c) /\ Here(c).do \in {"look", "take"} /\ rows' = rows /\ pend' = pend /\ dialect' = dialect
        BY <1>3 DEF LookUp, Ready, NoWrite, Untouched
    <2>3. Here(c).table \in Tables
        BY <1>1, <2>2, HereIs DEF Proper, Ends
    <2>4. i \in Nat
        BY <1>1, <2>3, FoundAre
    <2>5. Here(c).table = t /\ cache'[c][t] = i /\ Keeping(c)
        BY <1>1, <2>1, <2>2, <2>3, <2>4, ReturnKeeps
    <2>6. Has(Base(c), t, i)
        BY <1>1, <2>2, <2>5, FoundIsSeen, MainIs
    <2>7. Base(c)' = Base(c)
        BY <2>2 DEF Base, New, Late
    <2> QED
        BY <2>5, <2>6, <2>7
<1>4. CASE JudgeConversation(c)
    <2>1. Return(c, "conversation", got[c]) /\ got[c] # 0
        BY <1>2, <1>4 DEF JudgeConversation, KeepIds
    <2>2. /\ Running(c) /\ Here(c).do = "return_recent" /\ rows' = rows /\ pend' = pend /\ dialect' = dialect
        BY <1>4 DEF JudgeConversation, Ready, NoWrite, Untouched
    <2>3. Here(c).table = "conversation" /\ "conversation" \in Tables /\ got[c] \in Nat
        <3>1. Here(c).table = "conversation"
            BY <1>1, <2>2, HereIs DEF Proper
        <3>2. "conversation" \in Four /\ got[c] \in Nat
            BY <1>1 DEF Four, TypeInv
        <3> QED
            BY <3>1, <3>2, HasIs
    <2>4. "conversation" = t /\ cache'[c][t] = got[c] /\ Keeping(c)
        BY <1>1, <2>1, <2>2, <2>3, ReturnKeeps
    <2>5. Has(Base(c), t, got[c])
        BY <2>1, <2>2, <2>3, <2>4 DEF GotInv
    <2>6. Base(c)' = Base(c)
        BY <2>2 DEF Base, New, Late
    <2> QED
        BY <2>4, <2>5, <2>6
<1>5. CASE InsertRow(c)
    <2>1. /\ Running(c) /\ Here(c).table \in Tables
          /\ Draft(c).table = Here(c).table /\ Draft(c).id = last[Here(c).table] + 1
        BY <1>1, <1>5, DraftIs
    <2>2. dialect = "mongodb" /\ Return(c, Here(c).table, NewId(Here(c).table)) /\ dialect' = dialect
        BY <1>2, <1>5 DEF InsertRow, KeepIds, Untouched
    <2>3. NewId(Here(c).table) = Draft(c).id /\ Draft(c).id \in Nat
        BY <1>1, <2>1 DEF NewId, TypeInv
    <2>4. Here(c).table = t /\ cache'[c][t] = Draft(c).id
        BY <1>1, <2>1, <2>2, <2>3, ReturnKeeps
    <2>5. PICK e, s : e = {} /\ s = {Draft(c)} /\ Write(c, s, e)
        BY <1>5 DEF InsertRow
    <2>6. Draft(c) \in rows'
        BY <1>1, <2>2, <2>5, WriteIs DEF Mongo
    <2> QED
        BY <2>1, <2>4, <2>6 DEF Base, Has
<1>6. CASE WriteNothing(c)
    <2>1. /\ dialect = "mongodb" /\ Here(c).do = "add_absent" /\ Return(c, Here(c).table, got[c])
          /\ Running(c) /\ rows' = rows /\ pend' = pend /\ dialect' = dialect
        BY <1>2, <1>6 DEF WriteNothing, KeepIds, Ready, NoWrite, Untouched
    <2>2. Here(c).table \in Tables /\ got[c] \in Nat
        BY <1>1, <2>1, HereIs DEF Proper, Ends, TypeInv
    <2>3. Here(c).table = t /\ cache'[c][t] = got[c] /\ Keeping(c)
        BY <1>1, <2>1, <2>2, ReturnKeeps
    <2>4. Has(Base(c), t, got[c])
        BY <2>1, <2>3 DEF GotInv
    <2>5. Base(c)' = Base(c)
        BY <2>1 DEF Base, New, Late
    <2> QED
        BY <2>3, <2>4, <2>5
<1>7. CASE ChangeSession(c)
    <2>1. cache' = [cache EXCEPT ![c] = NoIds]
        BY <1>2, <1>7 DEF ChangeSession
    <2>2. cache'[c][t] = 0
        BY <1>1, <2>1 DEF NoIds, TypeInv
    <2> QED
        BY <2>2
<1>8. ~FindRow(c) /\ ~NoteIds(c) /\ ~ReadMessages(c) /\ ~ReadNoted(c)
    BY <1>2 DEF FindRow, NoteIds, ReadMessages, ReadNoted, KeepIds
<1>9. ~CountRow(c) /\ ~EraseRows(c) /\ ~CommitWork(c) /\ ~Decide(c)
    BY <1>2 DEF CountRow, EraseRows, CommitWork, Decide
<1> QED
    BY <1>3, <1>4, <1>5, <1>6, <1>7, <1>8, <1>9 DEF Doing

LEMMA HeldStep ==
    ASSUME NEW c \in Clients, BaseInv, GoneInv, SingleInv, Act(c) \/ Fail(c), Firm(c)',
           FreshInv(c), HeldInv(c), GotInv(c)
    PROVE  HeldInv(c)'
<1> SUFFICES ASSUME NEW t \in Four, cache'[c][t] # 0 PROVE Has(Base(c)', t, cache'[c][t])
    BY DEF HeldInv
<1>1. CASE cache'[c][t] = cache[c][t]
    BY <1>1, BaseStays DEF HeldInv
<1>2. CASE cache'[c][t] # cache[c][t]
    <2>1. cache' # cache
        BY <1>2
    <2>2. ~RaisesAt(c)
        BY <2>1, RaisesAtIs, RaiseLeaves DEF BaseInv
    <2>3. ~Begin(c) /\ ~RestartTransaction(c)
        BY <2>1 DEF Begin, RestartTransaction
    <2> QED
        BY <1>2, <2>2, <2>3, RaisesAre, GivenAre
<1> QED
    BY <1>1, <1>2

-----------------------------------------------------------------------------
LEMMA CacheInit ==
    ASSUME Init
    PROVE  CacheInv
<1>1. /\ pend = [n \in Connections |-> NoWork] /\ cache = [c \in Clients |-> NoIds]
      /\ aborted = [n \in Connections |-> FALSE] /\ \A c \in Clients : todo[c] = <<>>
    BY DEF Init
<1>2. \A n \in Connections : New(n) = {} /\ Gone(n) = {} /\ Touched(n) = {}
    BY <1>1 DEF New, Gone, Touched, NoWork
<1>3. GoneInv /\ SingleInv /\ NeverAborted
    BY <1>2, <1>1 DEF GoneInv, SingleInv, NeverAborted
<1>4. ASSUME NEW c \in Clients PROVE FreshInv(c) /\ HeldInv(c) /\ GotInv(c)
    <2>1. FreshInv(c)
        BY <1>2, MainIs DEF FreshInv
    <2>2. \A t \in Four : t \in Tables
        BY HasIs
    <2>3. HeldInv(c)
        BY <1>1, <2>2 DEF HeldInv, NoIds
    <2>4. GotInv(c)
        BY <1>1 DEF GotInv, Keeping, Running
    <2> QED
        BY <2>1, <2>3, <2>4
<1> QED
    BY <1>3, <1>4 DEF CacheInv

LEMMA StepAborts ==
    ASSUME NEW c \in Clients, TypeInv, TodoInv, StoreInv, Act(c) \/ Fail(c), ~RaisesAt(c)
    PROVE  aborted' = aborted
<1>1. CASE Begin(c) \/ RestartTransaction(c)
    BY <1>1 DEF Begin, RestartTransaction
<1>2. CASE Doing(c)
    <2>1. PICK n : By(c, n)
        BY <1>2, DoingIs
    <2> QED
        BY <2>1 DEF By, Goes
<1> QED
    BY <1>1, <1>2, RaisesAre

LEMMA CacheNext ==
    ASSUME BaseInv, CacheInv, NEW c \in Clients, Act(c) \/ Fail(c)
    PROVE  CacheInv'
<1>1. GoneInv /\ SingleInv /\ \A d \in Clients : Firm(d) => FreshInv(d) /\ HeldInv(d) /\ GotInv(d)
    BY DEF CacheInv
<1>2. GoneInv'
    BY <1>1, StepStays DEF Leaves, GoneInv, New, Gone
<1>3. SingleInv'
    BY <1>1, SingleStep
<1>4. ASSUME Firm(c)' PROVE Firm(c)
    <2>1. /\ TypeInv /\ dialect' = dialect /\ play' = play /\ Main(c) \in Connections /\ Frame(c)
        BY StepCounts, MainIs DEF BaseInv, Frame
    <2>2. ~aborted[Main(c)]
        <3>1. CASE RaisesAt(c)
            <4>1. PICK drops, lost : Raise(c, drops, lost)
                BY <3>1, RaisesAtIs DEF Raises
            <4>2. aborted' = [aborted EXCEPT ![Conn(c)] =
                                 ~IsLearning(c) /\ dialect # "mongodb" /\ (lost \/ @ \/ dialect = "postgresql")]
                BY <4>1 DEF Raise
            <4>3. aborted \in [Connections -> BOOLEAN]
                BY <2>1 DEF TypeInv
            <4>4. CASE IsLearning(c)
                <5>1. Main(c) # Conn(c)
                    BY <4>4, MainIs
                <5>2. aborted'[Main(c)] = aborted[Main(c)]
                    BY <2>1, <5>1, ShapesStay
                <5> QED
                    BY <1>4, <5>2, Zenon DEF Firm
            <4>5. CASE ~IsLearning(c)
                <5>1. Conn(c) = Main(c)
                    BY <4>5, MainIs
                <5>2. aborted'[Main(c)] = (~IsLearning(c) /\ dialect # "mongodb" /\ (lost \/ aborted[Main(c)] \/ dialect = "postgresql"))
                    BY <2>1, <4>2, <4>3, <5>1, Zenon
                <5>3. dialect = "mongodb" => ~aborted[Main(c)]
                    BY <2>1 DEF CacheInv, NeverAborted, Mongo
                <5> QED
                    BY <1>4, <4>5, <5>2, <5>3, Zenon DEF Firm
            <4> QED
                BY <4>4, <4>5
        <3>2. CASE ~RaisesAt(c)
            <4>1. aborted' = aborted
                BY <2>1, <3>2, StepAborts DEF BaseInv
            <4> QED
                BY <1>4, <4>1, Zenon DEF Firm
        <3> QED
            BY <3>1, <3>2
    <2>3. Ignores => faults[c] = 0
        <3>1. faults' \in [Clients -> Nat] /\ faults \in [Clients -> Nat]
            BY <2>1, StepCounts DEF TypeInv
        <3>2. faults' = faults \/ faults' = [faults EXCEPT ![c] = faults[c] + 1]
            BY ActsAre DEF Begin, RestartTransaction, Raises, Goes
        <3>3. faults'[c] = faults[c] \/ faults'[c] = faults[c] + 1
            BY <3>1, <3>2
        <3>4. faults[c] \in Nat /\ (faults'[c] = 0 => faults[c] = 0)
            BY <3>1, <3>3
        <3>5. Ignores' = Ignores
            BY <2>1 DEF Ignores
        <3> QED
            BY <1>4, <3>4, <3>5 DEF Firm
    <2> QED
        BY <2>2, <2>3 DEF Firm
<1>9. NeverAborted'
    <2>1. TypeInv /\ TodoInv /\ StoreInv /\ dialect' = dialect /\ Conn(c) \in Connections
        BY StepCounts, ConnectionIs DEF BaseInv, Frame
    <2> SUFFICES ASSUME dialect = "mongodb", NEW n \in Connections PROVE ~aborted'[n]
        BY <2>1 DEF NeverAborted, Mongo
    <2>2. ~aborted[n]
        BY DEF CacheInv, NeverAborted, Mongo
    <2>3. CASE RaisesAt(c)
        <3>1. PICK drops, lost : Raise(c, drops, lost)
            BY <2>3, RaisesAtIs DEF Raises
        <3>2. aborted' = [aborted EXCEPT ![Conn(c)] =
                             ~IsLearning(c) /\ dialect # "mongodb" /\ (lost \/ @ \/ dialect = "postgresql")]
            BY <3>1 DEF Raise
        <3>3. aborted \in [Connections -> BOOLEAN]
            BY <2>1 DEF TypeInv
        <3>4. n = Conn(c) => aborted'[n] = FALSE
            BY <2>1, <3>2, <3>3, Zenon
        <3>5. n # Conn(c) => aborted'[n] = aborted[n]
            BY <2>1, <3>2, <3>3, Zenon
        <3> QED
            BY <2>2, <3>4, <3>5, Zenon
    <2>4. CASE ~RaisesAt(c)
        <3>1. aborted' = aborted
            BY <2>1, <2>4, StepAborts
        <3> QED
            BY <2>2, <3>1, Zenon
    <2> QED
        BY <2>3, <2>4
<1>5. ASSUME Firm(c)' PROVE FreshInv(c)' /\ HeldInv(c)' /\ GotInv(c)'
    BY <1>1, <1>4, <1>5, FreshStep, HeldStep, GotStep
<1>6. ASSUME NEW d \in Clients \ {c}, Firm(d)' PROVE FreshInv(d)' /\ HeldInv(d)' /\ GotInv(d)'
    BY <1>1, <1>6, OtherHolds
<1>7. \A d \in Clients : Firm(d)' => FreshInv(d)' /\ HeldInv(d)' /\ GotInv(d)'
    BY <1>5, <1>6
<1> QED
    BY <1>2, <1>3, <1>7, <1>9 DEF CacheInv

LEMMA CacheStands ==
    ASSUME CacheInv, UNCHANGED vars
    PROVE  CacheInv'
BY DEF CacheInv, GoneInv, SingleInv, NeverAborted, Mongo, Firm, FreshInv, HeldInv, GotInv, Keeping, Base, Late, Main, New, Gone, Touched,
       Ignores, Running, IsLearning, Job, Here, Connections, vars

LEMMA HeldIsCached ==
    ASSUME CacheInv
    PROVE  CachedIdsHold
<1> SUFFICES ASSUME NEW c \in Clients, Firm(c), NEW t \in Four, cache[c][t] # 0
             PROVE  Has((rows \ Gone(Main(c))) \cup New(Main(c)), t, cache[c][t])
    BY DEF CachedIdsHold, Firm, Main, Four, New, Gone
<1>1. Has(Base(c), t, cache[c][t]) /\ Main(c) \in Connections /\ t \notin Erasable
    BY MainIs, HasIs DEF CacheInv, HeldInv
<1>2. PICK r \in rows \cup New(Main(c)) : r.table = t /\ r.id = cache[c][t]
    BY <1>1 DEF Base, Has
<1>3. CASE r \in Gone(Main(c))
    <2>1. Has(New(Main(c)), t, cache[c][t])
        BY <1>1, <1>2, <1>3 DEF CacheInv, GoneInv
    <2> QED
        BY <2>1, HasJoins
<1>4. CASE r \notin Gone(Main(c))
    BY <1>2, <1>4 DEF Has
<1> QED
    BY <1>3, <1>4

LEMMA CacheHolds == Spec => []CacheInv
<1>1. Init => CacheInv
    BY CacheInit
<1>2. BaseInv /\ CacheInv /\ [Next]_vars => CacheInv'
    BY CacheNext, CacheStands DEF Next
<1> QED
    BY <1>1, <1>2, BaseHolds, PTL DEF Spec

\* An id in Config.cache is that of a row its connection sees, whatever was
\* rolled back, unless the connection refuses every statement; of MySQL and its
\* heirs as long as no statement of the client has failed.
THEOREM CachedIdsAreReal == Spec => []CachedIdsHold
<1>1. CacheInv => CachedIdsHold
    BY HeldIsCached
<1> QED
    BY <1>1, CacheHolds, PTL
===============================================================================
