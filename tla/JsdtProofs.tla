----------------------------- MODULE JsdtProofs -----------------------------
(***************************************************************************)
(* Proofs about JSDT device trees, for documents of any length, brackets   *)
(* nested to any depth, and token arrays of any size: the tokenizer counts *)
(* what is in each bracket (SizesAreCounts), and the builder, which steps  *)
(* by these counts alone, makes the tree that the document describes or    *)
(* refuses one that is not well-formed (ParseCorrect and what follows it). *)
(***************************************************************************)
EXTENDS Jsdt, FiniteSetTheorems, WellFoundedInduction, TLAPS

(***************************************************************************)
(* The strengthening.  The tokenizer knows brackets by the tokens that are *)
(* open, the format by depths that are counted from a bracket on.  The two *)
(* agree because the depth from an unmatched bracket on is the number of   *)
(* brackets that are unmatched from it on.                                 *)
(***************************************************************************)
Token == [type : {"object", "array", "children", "string", "primitive"},
          at : Nat, size : Nat, closed : BOOLEAN]

Unmatched(n) == {p \in Opens(doc) : p <= n /\ Match(doc, p) > n}

From(S, p) == {q \in S : q >= p}

DepthCounts(n) ==
    \A p \in Unmatched(n) : Depth(doc, p, n) = Cardinality(From(Unmatched(n), p))

Types ==
    /\ parser \in [pos : Nat, toksuper : Nat] /\ parser.pos <= Len(doc)
    /\ tokens \in Seq(Token)

(* Tokens are in the order of the document, brackets among them, and those *)
(* that are open are the ones unmatched so far.                            *)
InOrder ==
    /\ \A k \in DOMAIN tokens : tokens[k].at \in 1 .. parser.pos
    /\ \A j, k \in DOMAIN tokens : j < k => tokens[j].at < tokens[k].at

BracketsKnown ==
    /\ \A p \in Opens(doc) : p <= parser.pos => \E k \in DOMAIN tokens : tokens[k].at = p
    /\ \A k \in DOMAIN tokens : IsOpen(tokens[k]) <=> tokens[k].at \in Unmatched(parser.pos)
    /\ parser.toksuper = InnermostOpen(tokens)

Inner(k) == {m \in DOMAIN tokens : Around(doc, tokens[m].at) = tokens[k].at}

Counted == \A k \in DOMAIN tokens : tokens[k].size = Cardinality(Inner(k))

Scan == Types /\ InOrder /\ BracketsKnown /\ DepthCounts(parser.pos) /\ Counted

Scanned == doc \in Docs /\ (err = "none" => Scan)

-----------------------------------------------------------------------------
(***************************************************************************)
(* The least and the greatest of a set of numbers.                         *)
(***************************************************************************)
LEMMA MinExists ==
    ASSUME NEW S \in SUBSET Nat, S # {}
    PROVE  Min(S) \in S /\ \A y \in S : Min(S) <= y
<1>1. PICK x \in S : \A y \in S : ~(<<y, x>> \in OpToRel(<, Nat))
    BY NatLessThanWellFounded, WFMin
<1>2. \A y \in S : x <= y
    <2> SUFFICES ASSUME NEW y \in S PROVE ~(y < x)
        BY SMT
    <2>1. \A r : r \in OpToRel(<, Nat) <=> r \in Nat \X Nat /\ r[1] < r[2]
        BY Zenon DEF OpToRel
    <2>2. <<y, x>> \in Nat \X Nat /\ <<y, x>>[1] = y /\ <<y, x>>[2] = x
        BY SMT
    <2> QED
        BY <1>1, <2>1, <2>2, Zenon
<1> QED
    BY <1>2 DEF Min

LEMMA MaxIs ==
    ASSUME NEW S \in SUBSET Int, NEW x \in S, \A y \in S : y <= x
    PROVE  Max(S) = x
<1>1. \A y \in S : x >= y
    OBVIOUS
<1>2. Max(S) \in S /\ \A y \in S : Max(S) >= y
    BY <1>1, Zenon DEF Max
<1> DEFINE m == Max(S)
<1>3. m \in Int /\ x \in Int /\ m >= x /\ m <= x
    BY <1>2
<1> QED
    BY <1>3

LEMMA MaxExists ==
    ASSUME NEW n \in Nat, NEW S \in SUBSET (0 .. n), S # {}
    PROVE  Max(S) \in S /\ \A y \in S : y <= Max(S)
<1> DEFINE T == {n - x : x \in S}
<1>1. T \in SUBSET Nat /\ T # {}
    <2>1. \A x \in S : x \in Nat /\ x <= n
        OBVIOUS
    <2>2. \A x \in S : n - x \in Nat
        BY <2>1, SMT
    <2>3. T \in SUBSET Nat
        BY <2>2, Zenon
    <2>4. PICK x \in S : TRUE
        OBVIOUS
    <2>5. n - x \in T
        BY Zenon
    <2> QED
        BY <2>3, <2>5, Zenon
<1>2. PICK x \in S : Min(T) = n - x
    BY <1>1, MinExists
<1>3. \A y \in S : n - x <= n - y
    BY <1>1, <1>2, MinExists
<1>4. \A y \in S : y <= x
    BY <1>3
<1> QED
    BY <1>4, MaxIs

-----------------------------------------------------------------------------
(***************************************************************************)
(* Brackets of a document, and where they close.                           *)
(***************************************************************************)
LEMMA Positions ==
    ASSUME doc \in Docs
    PROVE  DOMAIN doc = 1 .. Len(doc) /\ Len(doc) \in Nat
BY DocsAssumption

LEMMA Lexeme ==
    ASSUME doc \in Docs, NEW p \in 1 .. Len(doc)
    PROVE  /\ p \in Opens(doc) <=> doc[p] \in {"{", "["}
           /\ p \in Closes(doc) <=> doc[p] \in {"}", "]"}
BY Positions DEF Opens, Closes

LEMMA Brackets ==
    ASSUME doc \in Docs
    PROVE  /\ \A p \in Opens(doc) : p \in 1 .. Len(doc) /\ p \notin Closes(doc)
           /\ \A p \in Closes(doc) : p \in 1 .. Len(doc)
BY Positions DEF Opens, Closes

LEMMA MatchFacts ==
    ASSUME doc \in Docs, NEW p \in 1 .. Len(doc)
    PROVE  /\ Match(doc, p) \in Nat /\ Match(doc, p) > p
           /\ Match(doc, p) <= Len(doc) =>
                 Match(doc, p) \in Closes(doc) /\ Depth(doc, p, Match(doc, p)) = 0
           /\ \A c \in Closes(doc) : c > p /\ Depth(doc, p, c) = 0 => Match(doc, p) <= c
<1> DEFINE S == {c \in Closes(doc) : c > p /\ Depth(doc, p, c) = 0}
           end == Len(doc) + 1
           T == S \cup {end}
           m == Min(T)
<1>1. end \in Nat /\ end > p /\ S \subseteq Nat /\ \A c \in S : c > p /\ c <= Len(doc)
    <2>1. Len(doc) \in Nat
        BY Positions
    <2> QED
        BY <2>1, Brackets
<1>2. m \in T /\ \A y \in T : m <= y
    <2>1. T \in SUBSET Nat /\ T # {}
        BY <1>1
    <2> HIDE DEF T
    <2> QED
        BY <2>1, MinExists
<1>3. Match(doc, p) = m
    BY DEF Match
<1>4. ~(end <= Len(doc))
    BY Positions
<1> HIDE DEF m, end
<1>5. m \in Nat /\ m > p /\ (m <= Len(doc) => m \in S)
    BY <1>1, <1>2, <1>4
<1> QED
    BY <1>2, <1>3, <1>5

(* One position more is counted. *)
LEMMA CountStep ==
    ASSUME NEW S, NEW a \in Nat, NEW b \in Nat, a <= b + 1
    PROVE  /\ Cardinality(S \cap (a .. b)) \in Nat
           /\ Cardinality(S \cap (a .. (b + 1))) =
                 Cardinality(S \cap (a .. b)) + (IF b + 1 \in S THEN 1 ELSE 0)
<1> DEFINE before == S \cap (a .. b)
           after == S \cap (a .. (b + 1))
<1>1. IsFiniteSet(before) /\ Cardinality(before) \in Nat
    <2>1. IsFiniteSet(a .. b) /\ before \subseteq a .. b
        BY FS_Interval
    <2> QED
        BY <2>1, FS_Subset, FS_CardinalityType
<1>2. b + 1 \notin before
    OBVIOUS
<1>3. after = IF b + 1 \in S THEN before \cup {b + 1} ELSE before
    OBVIOUS
<1> HIDE DEF before, after
<1>4. Cardinality(before \cup {b + 1}) = Cardinality(before) + 1
    BY <1>1, <1>2, FS_AddElement
<1> QED
    BY <1>1, <1>3, <1>4 DEF before, after

LEMMA DepthStep ==
    ASSUME NEW p \in Nat, NEW n \in Nat, p <= n
    PROVE  /\ Depth(doc, p, n) \in Int
           /\ Depth(doc, p, n + 1) =
                 Depth(doc, p, n) + (IF n + 1 \in Opens(doc) THEN 1 ELSE 0)
                                  - (IF n + 1 \in Closes(doc) THEN 1 ELSE 0)
<1>1. p <= n + 1
    OBVIOUS
<1> DEFINE o == Cardinality(Opens(doc) \cap (p .. n))
           c == Cardinality(Closes(doc) \cap (p .. n))
<1>2. /\ o \in Nat
      /\ Cardinality(Opens(doc) \cap (p .. (n + 1))) =
            o + (IF n + 1 \in Opens(doc) THEN 1 ELSE 0)
    BY <1>1, CountStep
<1>3. /\ c \in Nat
      /\ Cardinality(Closes(doc) \cap (p .. (n + 1))) =
            c + (IF n + 1 \in Closes(doc) THEN 1 ELSE 0)
    BY <1>1, CountStep
<1>4. Depth(doc, p, n) = o - c
    BY DEF Depth
<1> HIDE DEF o, c
<1> QED
    BY <1>2, <1>3, <1>4 DEF Depth

(* A bracket is one deep where it opens. *)
LEMMA DepthStart ==
    ASSUME doc \in Docs, NEW p \in Opens(doc)
    PROVE  Depth(doc, p, p) = 1
<1>1. p \in Nat /\ p \notin Closes(doc)
    <2>1. Len(doc) \in Nat /\ p \in 1 .. Len(doc) /\ p \notin Closes(doc)
        BY Positions, Brackets
    <2> QED
        BY <2>1
<1>2. Opens(doc) \cap (p .. p) = {p} /\ Closes(doc) \cap (p .. p) = {}
    BY <1>1
<1>3. Cardinality({p}) = 1 /\ Cardinality({}) = 0
    BY FS_Singleton, FS_EmptySet
<1> QED
    BY <1>2, <1>3 DEF Depth

-----------------------------------------------------------------------------
(***************************************************************************)
(* The brackets that are unmatched, one lexeme further.                    *)
(***************************************************************************)
LEMMA UnmatchedTypes ==
    ASSUME doc \in Docs, NEW n \in Nat
    PROVE  /\ IsFiniteSet(Unmatched(n))
           /\ \A p \in Unmatched(n) : p \in 1 .. n /\ p \in 1 .. Len(doc)
           /\ \A p \in Unmatched(n) : /\ IsFiniteSet(From(Unmatched(n), p))
                                      /\ Cardinality(From(Unmatched(n), p)) \in Nat
<1>1. \A p \in Unmatched(n) : p \in 1 .. n /\ p \in 1 .. Len(doc)
    BY Positions, Brackets DEF Unmatched
<1>2. Unmatched(n) \subseteq 1 .. n
    BY <1>1
<1>3. IsFiniteSet(Unmatched(n))
    BY <1>2, FS_Interval, FS_Subset
<1>4. \A p : From(Unmatched(n), p) \subseteq Unmatched(n)
    BY DEF From
<1> QED
    BY <1>1, <1>3, <1>4, FS_Subset, FS_CardinalityType

(* A bracket that is unmatched stays so unless it is closed just there. *)
LEMMA StillUnmatched ==
    ASSUME doc \in Docs, NEW n \in Nat, n < Len(doc), NEW p \in Unmatched(n)
    PROVE  /\ p \in 1 .. n /\ p \in 1 .. Len(doc) /\ p \in Opens(doc)
           /\ Match(doc, p) \in Nat
           /\ Match(doc, p) > n + 1 <=>
                 ~(n + 1 \in Closes(doc) /\ Depth(doc, p, n + 1) = 0)
<1>1. /\ p \in 1 .. n /\ p \in 1 .. Len(doc) /\ p \in Opens(doc)
      /\ Match(doc, p) > n
    BY UnmatchedTypes DEF Unmatched
<1> DEFINE m == Match(doc, p)
<1>2. /\ m \in Nat
      /\ m <= Len(doc) => m \in Closes(doc) /\ Depth(doc, p, m) = 0
      /\ n + 1 \in Closes(doc) /\ n + 1 > p /\ Depth(doc, p, n + 1) = 0 => m <= n + 1
    BY <1>1, MatchFacts
<1>3. m > n /\ p <= n /\ Len(doc) \in Nat
    BY <1>1, Positions
<1>4. m > n + 1 <=> ~(n + 1 \in Closes(doc) /\ Depth(doc, p, n + 1) = 0)
    <2> HIDE DEF m
    <2>1. CASE m = n + 1
        <3>1. n + 1 \in Closes(doc) /\ Depth(doc, p, n + 1) = 0
            BY <1>2, <1>3, <2>1
        <3> QED
            BY <2>1, <3>1
    <2>2. CASE m # n + 1
        <3>1. m > n + 1 /\ n + 1 > p
            BY <1>1, <1>2, <1>3, <2>2
        <3> QED
            BY <1>2, <3>1
    <2> QED
        BY <2>1, <2>2
<1> QED
    BY <1>1, <1>2, <1>4

(* No bracket that was matched is unmatched again. *)
LEMMA OnlyNew ==
    ASSUME doc \in Docs, NEW n \in Nat, n < Len(doc), NEW p \in Unmatched(n + 1)
    PROVE  p \in Unmatched(n) \/ (p = n + 1 /\ p \in Opens(doc))
<1>1. /\ p \in Opens(doc) /\ p \in Nat /\ p <= n + 1 /\ Match(doc, p) > n + 1
      /\ p \in 1 .. Len(doc)
    <2>1. p \in Opens(doc) /\ p <= n + 1 /\ Match(doc, p) > n + 1
        BY DEF Unmatched
    <2>2. p \in 1 .. Len(doc) /\ Len(doc) \in Nat
        BY <2>1, Brackets, Positions
    <2> QED
        BY <2>1, <2>2
<1>2. Match(doc, p) \in Nat
    BY <1>1, MatchFacts
<1>3. p <= n \/ p = n + 1
    BY <1>1
<1>4. Match(doc, p) > n
    BY <1>1, <1>2
<1> QED
    BY <1>1, <1>3, <1>4 DEF Unmatched

(* Any lexeme but a bracket changes nothing. *)
LEMMA NoBracket ==
    ASSUME doc \in Docs, NEW n \in Nat, n < Len(doc),
           n + 1 \notin Opens(doc), n + 1 \notin Closes(doc)
    PROVE  Unmatched(n + 1) = Unmatched(n) /\ (DepthCounts(n) => DepthCounts(n + 1))
<1>1. \A p \in Unmatched(n) : p \in Unmatched(n + 1)
    BY StillUnmatched DEF Unmatched
<1>2. Unmatched(n + 1) = Unmatched(n)
    BY <1>1, OnlyNew
<1>3. \A p \in Unmatched(n) : Depth(doc, p, n + 1) = Depth(doc, p, n)
    <2> TAKE p \in Unmatched(n)
    <2>1. p \in Nat /\ p <= n
        BY UnmatchedTypes
    <2>2. /\ Depth(doc, p, n) \in Int
          /\ Depth(doc, p, n + 1) = Depth(doc, p, n) + 0 - 0
        BY <2>1, DepthStep
    <2> QED
        BY <2>2
<1> QED
    BY <1>2, <1>3 DEF DepthCounts

(* A bracket that opens is one more, and everything outside is deeper. *)
LEMMA BracketOpens ==
    ASSUME doc \in Docs, NEW n \in Nat, n < Len(doc), n + 1 \in Opens(doc)
    PROVE  /\ Unmatched(n + 1) = Unmatched(n) \cup {n + 1}
           /\ DepthCounts(n) => DepthCounts(n + 1)
<1> DEFINE c == n + 1
           U == Unmatched(n)
           V == Unmatched(c)
<1>1. c \in Nat /\ c \notin Closes(doc) /\ c \in 1 .. Len(doc) /\ Match(doc, c) > c
    BY Brackets, MatchFacts
<1>2. \A p \in U : p \in Nat /\ p <= n /\ p \in V
    BY <1>1, StillUnmatched DEF Unmatched
<1>3. c \in V
    BY <1>1 DEF Unmatched
<1>4. V = U \cup {c}
    BY <1>2, <1>3, OnlyNew
<1>5. ASSUME DepthCounts(n), NEW p \in V
      PROVE  Depth(doc, p, c) = Cardinality(From(V, p))
    <2>1. CASE p \in U
        <3>1. p \in Nat /\ p <= n /\ n # c
            BY <1>2, <2>1
        <3>2. Depth(doc, p, c) = Depth(doc, p, n) + 1
            BY <1>1, <3>1, DepthStep
        <3>3. From(V, p) = From(U, p) \cup {c}
            BY <1>1, <1>4, <3>1 DEF From
        <3>4. c \notin From(U, p)
            BY <1>2 DEF From
        <3>5. Cardinality(From(U, p) \cup {c}) = Cardinality(From(U, p)) + 1
            BY <2>1, <3>4, UnmatchedTypes, FS_AddElement
        <3>6. Depth(doc, p, n) = Cardinality(From(U, p))
            BY <1>5, <2>1 DEF DepthCounts
        <3> QED
            BY <3>2, <3>3, <3>5, <3>6
    <2>2. CASE p = c
        <3>1. From(V, c) = {c}
            BY <1>1, <1>2, <1>4 DEF From
        <3> QED
            BY <2>2, <3>1, FS_Singleton, DepthStart
    <2> QED
        BY <1>4, <2>1, <2>2
<1> QED
    BY <1>4, <1>5 DEF DepthCounts

(* A bracket that closes matches the last one unmatched, and only that. *)
LEMMA BracketCloses ==
    ASSUME doc \in Docs, NEW n \in Nat, n < Len(doc), n + 1 \in Closes(doc),
           DepthCounts(n), NEW t \in Unmatched(n), \A p \in Unmatched(n) : p <= t
    PROVE  Unmatched(n + 1) = Unmatched(n) \ {t} /\ DepthCounts(n + 1)
<1> DEFINE c == n + 1
           U == Unmatched(n)
           V == Unmatched(c)
<1>1. c \in Nat /\ c \notin Opens(doc)
    BY Brackets
<1>2. \A p \in U : /\ p \in Nat /\ p <= n /\ p <= t
                    /\ IsFiniteSet(From(U, p)) /\ Cardinality(From(U, p)) \in Nat
    BY UnmatchedTypes
<1>3. \A p \in U : Depth(doc, p, c) = Cardinality(From(U, p)) - 1
    <2> TAKE p \in U
    <2>1. p \in Nat /\ p <= n
        BY <1>2
    <2>2. /\ Depth(doc, p, n) \in Int
          /\ Depth(doc, p, n + 1) = Depth(doc, p, n) + 0 - 1
        BY <1>1, <2>1, DepthStep
    <2>3. Depth(doc, p, n) = Cardinality(From(U, p))
        BY DEF DepthCounts
    <2> QED
        BY <2>2, <2>3
<1>4. \A p \in U : /\ t \in From(U, p)
                    /\ From(U \ {t}, p) = From(U, p) \ {t}
                    /\ Cardinality(From(U, p) \ {t}) = Cardinality(From(U, p)) - 1
    <2> TAKE p \in U
    <2>1. t \in From(U, p)
        BY <1>2 DEF From
    <2>2. From(U \ {t}, p) = From(U, p) \ {t}
        BY DEF From
    <2> QED
        BY <1>2, <2>1, <2>2, FS_RemoveElement
<1>5. From(U, t) \ {t} = {}
    <2> SUFFICES ASSUME NEW p \in U, p >= t PROVE p = t
        BY DEF From
    <2> QED
        BY <1>2
<1>6. Depth(doc, t, c) = 0
    BY <1>3, <1>4, <1>5, FS_EmptySet
<1>7. ASSUME NEW p \in U, p # t
      PROVE  Depth(doc, p, c) # 0
    <2>1. p \in From(U, p) \ {t}
        <3>1. p \in Nat /\ p >= p
            BY <1>2
        <3> QED
            BY <1>7, <3>1 DEF From
    <2>2. IsFiniteSet(From(U, p) \ {t})
        BY <1>2, FS_RemoveElement
    <2>3. Cardinality(From(U, p) \ {t}) # 0
        BY <2>1, <2>2, FS_EmptySet
    <2> QED
        BY <1>3, <1>4, <2>3
<1>8. t \notin V
    BY <1>6, StillUnmatched DEF Unmatched
<1>9. ASSUME NEW p \in U, p # t
      PROVE  p \in V
    <2>1. Match(doc, p) > c /\ p \in Opens(doc) /\ p \in 1 .. n
        BY <1>7, <1>9, StillUnmatched
    <2> QED
        BY <2>1 DEF Unmatched
<1>10. V = U \ {t}
    BY <1>1, <1>8, <1>9, OnlyNew
<1> QED
    BY <1>3, <1>4, <1>10 DEF DepthCounts

-----------------------------------------------------------------------------
(***************************************************************************)
(* The bracket around a position, and the tokens.                          *)
(***************************************************************************)

(* The bracket around the next lexeme is the last one unmatched. *)
LEMMA AroundNext ==
    ASSUME doc \in Docs, NEW n \in Nat, n < Len(doc), n + 1 \notin Closes(doc)
    PROVE  Around(doc, n + 1) = Max(Unmatched(n) \cup {0})
<1> DEFINE W == {p \in Opens(doc) : p < n + 1 /\ Match(doc, p) > n + 1}
<1>1. \A p \in Unmatched(n) : p \in W
    <2> TAKE p \in Unmatched(n)
    <2>1. p \in 1 .. n /\ p \in Opens(doc) /\ Match(doc, p) > n + 1
        BY StillUnmatched
    <2> QED
        BY <2>1
<1>2. \A p \in W : p \in Unmatched(n)
    <2> TAKE p \in W
    <2>1. p \in 1 .. Len(doc)
        BY Brackets
    <2>2. p \in Nat /\ Match(doc, p) \in Nat
        BY <2>1, MatchFacts, Positions
    <2>3. p <= n /\ Match(doc, p) > n
        BY <2>2
    <2> QED
        BY <2>3 DEF Unmatched
<1>3. W = Unmatched(n)
    BY <1>1, <1>2
<1> QED
    BY <1>3 DEF Around

(* It opens before the position. *)
LEMMA AroundBefore ==
    ASSUME doc \in Docs, NEW x \in Nat \ {0}
    PROVE  Around(doc, x) \in Nat /\ Around(doc, x) < x
<1> DEFINE W == {p \in Opens(doc) : p < x /\ Match(doc, p) > x} \cup {0}
<1>1. W \in SUBSET (0 .. (x - 1))
    <2> SUFFICES ASSUME NEW p \in Opens(doc), p < x PROVE p \in 0 .. (x - 1)
        OBVIOUS
    <2>1. p \in Nat
        BY Brackets, Positions
    <2> QED
        BY <2>1
<1>2. W # {} /\ Around(doc, x) = Max(W)
    BY DEF Around
<1> DEFINE m == Max(W)
<1> HIDE DEF W
<1>3. m \in W
    <2>1. x - 1 \in Nat
        OBVIOUS
    <2> QED
        BY <1>1, <1>2, <2>1, MaxExists
<1>4. m \in 0 .. (x - 1)
    BY <1>1, <1>3
<1> HIDE DEF m
<1>5. m \in Nat /\ m < x
    BY <1>4
<1> QED
    BY <1>2, <1>5 DEF m

LEMMA TokenTypes ==
    ASSUME Types, NEW k \in DOMAIN tokens
    PROVE  /\ tokens[k] \in Token /\ tokens[k].at \in Nat /\ tokens[k].size \in Nat
           /\ DOMAIN tokens = 1 .. Len(tokens) /\ Len(tokens) \in Nat /\ k \in Nat
<1>1. /\ tokens \in Seq(Token) /\ DOMAIN tokens = 1 .. Len(tokens)
      /\ Len(tokens) \in Nat /\ k \in Nat
    BY DEF Types
<1>2. tokens[k] \in Token
    BY <1>1
<1> QED
    BY <1>1, <1>2 DEF Token

(* toksuper is the last bracket that is unmatched. *)
LEMMA Innermost ==
    ASSUME doc \in Docs, Scan
    PROVE  /\ parser.toksuper = 0 => Unmatched(parser.pos) = {}
           /\ parser.toksuper # 0 =>
                 /\ parser.toksuper \in DOMAIN tokens
                 /\ IsOpen(tokens[parser.toksuper])
                 /\ tokens[parser.toksuper].at \in Unmatched(parser.pos)
                 /\ \A p \in Unmatched(parser.pos) : p <= tokens[parser.toksuper].at
           /\ \A k \in DOMAIN tokens : IsOpen(tokens[k]) => k <= parser.toksuper
<1> DEFINE open == {0} \cup {k \in DOMAIN tokens : IsOpen(tokens[k])}
           s == parser.toksuper
           n == Len(tokens)
           U == Unmatched(parser.pos)
<1>1. n \in Nat /\ DOMAIN tokens = 1 .. n /\ parser.pos \in Nat
    BY DEF Scan, Types
<1>2. open \in SUBSET (0 .. n) /\ open # {}
    BY <1>1
<1>3. s = Max(open)
    BY DEF Scan, BracketsKnown, InnermostOpen
<1> HIDE DEF open, s
<1>4. s \in open /\ \A k \in open : k <= s
    BY <1>1, <1>2, <1>3, MaxExists
<1>5. \A k \in DOMAIN tokens : IsOpen(tokens[k]) => k <= s
    BY <1>4 DEF open
<1>6. ASSUME NEW p \in U
      PROVE  \E k \in DOMAIN tokens : IsOpen(tokens[k]) /\ tokens[k].at = p
    <2>1. p \in Opens(doc) /\ p <= parser.pos
        BY DEF Unmatched
    <2>2. PICK k \in DOMAIN tokens : tokens[k].at = p
        BY <2>1 DEF Scan, BracketsKnown
    <2> QED
        BY <2>2 DEF Scan, BracketsKnown
<1>7. CASE s = 0
    <2>1. \A k \in DOMAIN tokens : ~IsOpen(tokens[k])
        BY <1>1, <1>5, <1>7
    <2> QED
        BY <1>5, <1>6, <1>7, <2>1 DEF s
<1>8. CASE s # 0
    <2>1. s \in DOMAIN tokens /\ IsOpen(tokens[s])
        BY <1>4, <1>8 DEF open
    <2>2. tokens[s].at \in U
        BY <2>1 DEF Scan, BracketsKnown
    <2>3. ASSUME NEW p \in U
          PROVE  p <= tokens[s].at
        <3>1. PICK k \in DOMAIN tokens : IsOpen(tokens[k]) /\ tokens[k].at = p
            BY <1>6
        <3>2. k <= s /\ k \in Nat /\ s \in Nat
            BY <1>1, <1>5, <2>1, <3>1
        <3>3. tokens[k].at \in Nat /\ tokens[s].at \in Nat
            BY <2>1, TokenTypes DEF Scan
        <3>4. k < s => tokens[k].at < tokens[s].at
            BY <2>1 DEF Scan, InOrder
        <3> QED
            BY <3>1, <3>2, <3>3, <3>4
    <2> QED
        BY <1>5, <1>8, <2>1, <2>2, <2>3 DEF s
<1> QED
    BY <1>7, <1>8

(* The position of toksuper, or 0, is that of the innermost bracket. *)
LEMMA SuperIsAround ==
    ASSUME doc \in Docs, Scan
    PROVE  Max(Unmatched(parser.pos) \cup {0}) =
              IF parser.toksuper = 0 THEN 0 ELSE tokens[parser.toksuper].at
<1> DEFINE U == Unmatched(parser.pos)
           s == parser.toksuper
<1>1. parser.pos \in Nat
    BY DEF Scan, Types
<1>2. \A p \in U : p \in Int /\ 0 <= p
    BY <1>1, UnmatchedTypes
<1>3. CASE s = 0
    <2>1. U \cup {0} = {0}
        BY <1>3, Innermost
    <2>2. {0} \in SUBSET Int /\ 0 \in {0} /\ \A y \in {0} : y <= 0
        OBVIOUS
    <2>3. Max({0}) = 0
        BY <2>2, MaxIs
    <2> QED
        BY <1>3, <2>1, <2>3
<1>4. CASE s # 0
    <2> DEFINE a == tokens[s].at
               V == U \cup {0}
    <2>1. a \in U /\ \A p \in U : p <= a
        BY <1>4, Innermost
    <2> HIDE DEF a, U
    <2>2. a \in V /\ V \in SUBSET Int /\ \A y \in V : y <= a
        BY <1>2, <2>1
    <2> HIDE DEF V
    <2>3. Max(V) = a
        BY <2>2, MaxIs
    <2> QED
        BY <1>4, <2>3 DEF V, U, a
<1> QED
    BY <1>3, <1>4

-----------------------------------------------------------------------------
(***************************************************************************)
(* A new token.                                                            *)
(***************************************************************************)
LEMMA Appended ==
    ASSUME doc \in Docs, Scan, NEW new \in Token, tokens' = CountedIn(parser.toksuper, new)
    PROVE  /\ tokens' \in Seq(Token)
           /\ DOMAIN tokens = 1 .. Len(tokens) /\ Len(tokens) \in Nat
           /\ DOMAIN tokens' = 1 .. (Len(tokens) + 1)
           /\ tokens'[Len(tokens) + 1] = new
           /\ \A k \in DOMAIN tokens :
                 /\ tokens'[k].at = tokens[k].at
                 /\ tokens'[k].type = tokens[k].type
                 /\ IsOpen(tokens'[k]) <=> IsOpen(tokens[k])
                 /\ tokens'[k].size = tokens[k].size + (IF k = parser.toksuper THEN 1 ELSE 0)
<1> DEFINE s == parser.toksuper
           n == Len(tokens)
           counted == [tokens EXCEPT ![s].size = @ + 1]
           ts == IF s = 0 THEN tokens ELSE counted
<1>1. tokens \in Seq(Token) /\ n \in Nat /\ DOMAIN tokens = 1 .. n
    BY DEF Scan, Types
<1>2. \A k \in 1 .. n : tokens[k] \in Token /\ tokens[k].size \in Nat
    BY <1>1, TokenTypes DEF Scan
<1>3. s # 0 => s \in 1 .. n
    BY <1>1, Innermost
<1>4. /\ ts \in Seq(Token) /\ Len(ts) = n
      /\ \A k \in 1 .. n :
            /\ ts[k].at = tokens[k].at /\ ts[k].type = tokens[k].type
            /\ ts[k].closed = tokens[k].closed
            /\ ts[k].size = tokens[k].size + (IF k = s THEN 1 ELSE 0)
    <2>1. CASE s = 0
        BY <1>1, <1>2, <2>1
    <2>2. CASE s # 0
        <3> DEFINE more == [tokens[s] EXCEPT !.size = @ + 1]
        <3>1. s \in 1 .. n /\ tokens[s] \in Token /\ tokens[s].size \in Nat
            BY <1>2, <1>3, <2>2
        <3>2. /\ more \in Token /\ more.at = tokens[s].at /\ more.type = tokens[s].type
              /\ more.closed = tokens[s].closed /\ more.size = tokens[s].size + 1
            BY <3>1 DEF Token
        <3>3. counted = [tokens EXCEPT ![s] = more]
            OBVIOUS
        <3>4. ts = counted
            BY <2>2
        <3> HIDE DEF more, counted, ts, s, n
        <3>5. /\ counted \in Seq(Token) /\ Len(counted) = Len(tokens)
              /\ \A k \in 1 .. n : counted[k] = IF k = s THEN more ELSE tokens[k]
            BY <1>1, <3>1, <3>2, <3>3
        <3> QED
            BY <1>2, <3>2, <3>4, <3>5 DEF n
    <2> QED
        BY <2>1, <2>2
<1>5. tokens' = Append(ts, new)
    BY DEF CountedIn
<1> HIDE DEF ts, s, n
<1>6. /\ tokens' \in Seq(Token) /\ DOMAIN tokens' = 1 .. (n + 1) /\ tokens'[n + 1] = new
      /\ \A k \in 1 .. n : tokens'[k] = ts[k]
    BY <1>1, <1>4, <1>5
<1> QED
    BY <1>1, <1>4, <1>6 DEF IsOpen, s, n

(* It is counted in the token it is in, and is itself empty. *)
LEMMA CountedRight ==
    ASSUME doc \in Docs, Scan, doc' = doc, parser.pos < Len(doc),
           parser.pos + 1 \notin Closes(doc),
           NEW new \in Token, new.at = parser.pos + 1, new.size = 0,
           tokens' = CountedIn(parser.toksuper, new)
    PROVE  Counted'
<1> DEFINE s == parser.toksuper
           n == Len(tokens)
           c == parser.pos + 1
           a == Around(doc, c)
           Inner2(k) == {m \in DOMAIN tokens' : Around(doc, tokens'[m].at) = tokens'[k].at}
<1>1. /\ n \in Nat /\ DOMAIN tokens = 1 .. n /\ DOMAIN tokens' = 1 .. (n + 1)
      /\ tokens'[n + 1] = new
      /\ \A k \in 1 .. n :
            /\ tokens'[k].at = tokens[k].at
            /\ tokens'[k].size = tokens[k].size + (IF k = s THEN 1 ELSE 0)
    BY Appended
<1>2. parser.pos \in Nat /\ c \in Nat \ {0}
    BY DEF Scan, Types
<1>3. a = IF s = 0 THEN 0 ELSE tokens[s].at
    BY <1>2, AroundNext, SuperIsAround
<1>4. a < c
    BY <1>2, AroundBefore
<1>5. \A k \in 1 .. n : /\ tokens[k].at \in Nat /\ tokens[k].at # 0 /\ tokens[k].at < c
                         /\ tokens[k].size \in Nat
    BY <1>1, <1>2, TokenTypes DEF Scan, InOrder
<1>6. s # 0 => s \in 1 .. n
    BY <1>1, Innermost
<1>7. \A k \in 1 .. n : a = tokens[k].at <=> k = s
    <2> TAKE k \in 1 .. n
    <2>1. CASE s = 0
        BY <1>1, <1>3, <1>5, <2>1
    <2>2. CASE s # 0
        <3>1. s < k => tokens[s].at < tokens[k].at
            BY <1>1, <1>6, <2>2 DEF Scan, InOrder
        <3>2. k < s => tokens[k].at < tokens[s].at
            BY <1>1, <1>6, <2>2 DEF Scan, InOrder
        <3>3. s \in Nat /\ k \in Nat /\ tokens[s].at \in Nat /\ tokens[k].at \in Nat
            BY <1>1, <1>5, <1>6, <2>2
        <3> QED
            BY <1>3, <2>2, <3>1, <3>2, <3>3
    <2> QED
        BY <2>1, <2>2
<1> HIDE DEF s, n, a, c
<1>8. ASSUME NEW k \in 1 .. n
      PROVE  tokens'[k].size = Cardinality(Inner2(k))
    <2>1. /\ IsFiniteSet(Inner(k)) /\ Cardinality(Inner(k)) = tokens[k].size
          /\ n + 1 \notin Inner(k)
        <3>1. Inner(k) \subseteq 1 .. n /\ n + 1 \notin 1 .. n /\ IsFiniteSet(1 .. n)
            BY <1>1, FS_Interval DEF Inner
        <3> QED
            BY <1>1, <3>1, FS_Subset DEF Scan, Counted
    <2>2. Inner2(k) = IF k = s THEN Inner(k) \cup {n + 1} ELSE Inner(k)
        <3>1. \A m \in 1 .. n : m \in Inner2(k) <=> m \in Inner(k)
            BY <1>1 DEF Inner
        <3>2. n + 1 \in Inner2(k) <=> k = s
            BY <1>1, <1>7 DEF a, c
        <3>3. Inner2(k) \subseteq 1 .. (n + 1) /\ Inner(k) \subseteq 1 .. n
            BY <1>1 DEF Inner
        <3> HIDE DEF Inner2
        <3>4. \A m : m \in 1 .. (n + 1) <=> m \in 1 .. n \/ m = n + 1
            BY <1>1
        <3>5. CASE k = s
            <4>1. \A m : m \in Inner2(k) <=> m \in Inner(k) \/ m = n + 1
                BY <3>1, <3>2, <3>3, <3>4, <3>5
            <4>2. Inner2(k) = Inner(k) \cup {n + 1}
                BY <4>1
            <4> QED
                BY <3>5, <4>2
        <3>6. CASE k # s
            <4>1. \A m : m \in Inner2(k) <=> m \in Inner(k)
                BY <2>1, <3>1, <3>2, <3>3, <3>4, <3>6
            <4>2. Inner2(k) = Inner(k)
                BY <4>1
            <4> QED
                BY <3>6, <4>2
        <3> QED
            BY <3>5, <3>6
    <2> HIDE DEF Inner2
    <2>3. Cardinality(Inner(k) \cup {n + 1}) = Cardinality(Inner(k)) + 1
        BY <2>1, FS_AddElement
    <2>4. tokens[k].size \in Nat
        BY <1>5
    <2> QED
        BY <1>1, <2>1, <2>2, <2>3, <2>4
<1>9. tokens'[n + 1].size = Cardinality(Inner2(n + 1))
    <2>1. \A m \in 1 .. n : Around(doc, tokens[m].at) < tokens[m].at
        BY <1>5, AroundBefore
    <2>2. \A m \in 1 .. n : Around(doc, tokens[m].at) # c
        BY <1>2, <1>5, <2>1, AroundBefore
    <2>3. Inner2(n + 1) = {}
        <3> SUFFICES ASSUME NEW m \in 1 .. (n + 1)
                     PROVE  Around(doc, tokens'[m].at) # c
            BY <1>1 DEF c
        <3>1. CASE m \in 1 .. n
            BY <1>1, <2>2, <3>1
        <3>2. CASE m = n + 1
            BY <1>1, <1>2, <1>4, <3>2 DEF a, c
        <3> QED
            BY <1>1, <3>1, <3>2
    <2> QED
        BY <1>1, <2>3, FS_EmptySet
<1>10. \A k : Inner(k)' = Inner2(k)
    BY DEF Inner
<1>11. \A k \in DOMAIN tokens' : k \in 1 .. n \/ k = n + 1
    BY <1>1
<1> HIDE DEF Inner2
<1> QED
    BY <1>8, <1>9, <1>10, <1>11 DEF Counted

-----------------------------------------------------------------------------
(***************************************************************************)
(* The steps of the tokenizer.                                             *)
(***************************************************************************)

(* What is unmatched depends on the document alone. *)
LEMMA SameDoc ==
    ASSUME doc' = doc, NEW c, parser'.pos = c
    PROVE  /\ Unmatched(parser.pos)' = Unmatched(c)
           /\ DepthCounts(parser.pos)' <=> DepthCounts(c)
<1>1. Unmatched(parser.pos)' = Unmatched(c)
    BY DEF Unmatched
<1> QED
    BY <1>1 DEF DepthCounts

(* The innermost open token depends on which tokens are open. *)
LEMMA SameOpen ==
    ASSUME NEW ts, NEW us, \A k : k \in DOMAIN ts /\ IsOpen(ts[k]) <=>
                                   k \in DOMAIN us /\ IsOpen(us[k])
    PROVE  InnermostOpen(ts) = InnermostOpen(us)
<1>1. {k \in DOMAIN ts : IsOpen(ts[k])} = {k \in DOMAIN us : IsOpen(us[k])}
    OBVIOUS
<1> QED
    BY <1>1 DEF InnermostOpen

LEMMA TokenAdded ==
    ASSUME doc \in Docs, Scan, doc' = doc, parser.pos < Len(doc),
           parser.pos + 1 \notin Closes(doc),
           NEW new \in Token, new.at = parser.pos + 1, new.size = 0,
           IsOpen(new) <=> parser.pos + 1 \in Opens(doc),
           tokens' = CountedIn(parser.toksuper, new),
           parser' \in [pos : Nat, toksuper : Nat],
           parser'.pos = parser.pos + 1,
           parser'.toksuper = IF parser.pos + 1 \in Opens(doc) THEN Len(tokens) + 1
                              ELSE parser.toksuper
    PROVE  Scan'
<1> DEFINE n == Len(tokens)
           c == parser.pos + 1
           U == Unmatched(parser.pos)
           V == Unmatched(c)
<1>1. /\ n \in Nat /\ DOMAIN tokens = 1 .. n /\ DOMAIN tokens' = 1 .. (n + 1)
      /\ tokens'[n + 1] = new /\ tokens' \in Seq(Token)
    BY Appended
<1>1a. \A k \in 1 .. n : tokens'[k].at = tokens[k].at
    BY Appended
<1>1b. \A k \in 1 .. n : IsOpen(tokens'[k]) <=> IsOpen(tokens[k])
    BY Appended
<1>2. parser.pos \in Nat /\ c \in Nat /\ c \in 1 .. Len(doc) /\ Len(doc) \in Nat
    BY Positions DEF Scan, Types
<1>3. /\ V = IF c \in Opens(doc) THEN U \cup {c} ELSE U
      /\ DepthCounts(parser.pos) => DepthCounts(c)
    BY <1>2, NoBracket, BracketOpens
<1>4. Unmatched(parser.pos)' = V /\ (DepthCounts(parser.pos)' <=> DepthCounts(c))
    BY SameDoc
<1>5. Types'
    <2>1. c <= Len(doc)
        BY <1>2
    <2> QED
        BY <1>1, <2>1 DEF Types
<1>6. \A k \in 1 .. n : tokens[k].at \in 1 .. parser.pos
    BY <1>1 DEF Scan, InOrder
<1>7. \A k \in 1 .. n : tokens'[k].at \in Nat /\ tokens'[k].at < c /\ tokens'[k].at \in 1 .. c
    <2> TAKE k \in 1 .. n
    <2> DEFINE a == tokens[k].at
    <2>1. tokens'[k].at = a /\ a \in 1 .. parser.pos
        BY <1>1a, <1>6
    <2> HIDE DEF a
    <2>2. a \in Nat /\ a < c /\ a \in 1 .. c
        BY <1>2, <2>1
    <2> QED
        BY <2>1, <2>2
<1>8. tokens'[n + 1].at = c /\ c \in 1 .. c
    BY <1>1, <1>2
<1>9. \A k \in DOMAIN tokens' : k \in 1 .. n \/ k = n + 1
    BY <1>1
<1>10. InOrder'
    <2>1. \A k \in DOMAIN tokens' : tokens'[k].at \in 1 .. c
        BY <1>7, <1>8, <1>9
    <2>2. ASSUME NEW j \in DOMAIN tokens', NEW k \in DOMAIN tokens', j < k
          PROVE  tokens'[j].at < tokens'[k].at
        <3>1. j \in 1 .. n
            BY <1>1, <2>2
        <3>2. CASE k \in 1 .. n
            <4>1. tokens[j].at < tokens[k].at
                BY <1>1, <2>2, <3>1, <3>2 DEF Scan, InOrder
            <4> QED
                BY <1>1a, <3>1, <3>2, <4>1
        <3>3. CASE k = n + 1
            BY <1>7, <1>8, <3>1, <3>3
        <3> QED
            BY <1>9, <3>2, <3>3
    <2> QED
        BY <2>1, <2>2 DEF InOrder
<1>11. \A p \in Opens(doc) : p <= c => \E k \in DOMAIN tokens' : tokens'[k].at = p
    <2> SUFFICES ASSUME NEW p \in Opens(doc), p <= c
                 PROVE  \E k \in DOMAIN tokens' : tokens'[k].at = p
        OBVIOUS
    <2>1. p \in Nat
        BY <1>2, Brackets
    <2>2. CASE p = c
        BY <1>1, <1>8, <2>2
    <2>3. CASE p # c
        <3>1. p <= parser.pos
            BY <1>2, <2>1, <2>3
        <3>2. PICK k \in DOMAIN tokens : tokens[k].at = p
            BY <3>1 DEF Scan, BracketsKnown
        <3>3. k \in 1 .. n /\ k \in DOMAIN tokens'
            BY <1>1
        <3> HIDE DEF n
        <3> QED
            BY <1>1a, <3>2, <3>3
    <2> QED
        BY <2>2, <2>3
<1>12. \A k \in DOMAIN tokens' : IsOpen(tokens'[k]) <=> tokens'[k].at \in V
    <2> TAKE k \in DOMAIN tokens'
    <2>1. CASE k \in 1 .. n
        <3>1. tokens'[k].at # c
            BY <1>2, <1>7, <2>1
        <3>2. IsOpen(tokens[k]) <=> tokens[k].at \in U
            BY <1>1, <2>1 DEF Scan, BracketsKnown
        <3>3. tokens'[k].at \in V <=> tokens'[k].at \in U
            BY <1>3, <3>1
        <3>4. tokens'[k].at = tokens[k].at
            BY <1>1a, <2>1
        <3>5. IsOpen(tokens'[k]) <=> IsOpen(tokens[k])
            BY <1>1b, <2>1
        <3> HIDE DEF U, V
        <3> QED
            BY <3>2, <3>3, <3>4, <3>5
    <2>2. CASE k = n + 1
        <3>1. c \notin U
            BY <1>2 DEF Unmatched
        <3> QED
            BY <1>1, <1>3, <1>8, <2>2, <3>1
    <2> QED
        BY <1>9, <2>1, <2>2
<1>13. parser'.toksuper = InnermostOpen(tokens')
    <2>1. CASE c \in Opens(doc)
        <3> DEFINE S == {0} \cup {k \in DOMAIN tokens' : IsOpen(tokens'[k])}
        <3>1. n + 1 \in S /\ S \in SUBSET Int /\ \A k \in S : k <= n + 1
            BY <1>1, <2>1
        <3> HIDE DEF S
        <3>2. Max(S) = n + 1
            BY <3>1, MaxIs
        <3> QED
            BY <2>1, <3>2 DEF InnermostOpen, S
    <2>2. CASE c \notin Opens(doc)
        <3>1. \A k : k \in DOMAIN tokens' /\ IsOpen(tokens'[k]) <=>
                     k \in DOMAIN tokens /\ IsOpen(tokens[k])
            <4>1. ~IsOpen(tokens'[n + 1])
                BY <1>1, <2>2
            <4>2. \A k : k \in 1 .. (n + 1) <=> k \in 1 .. n \/ k = n + 1
                BY <1>1
            <4> HIDE DEF n
            <4> QED
                BY <1>1, <1>1b, <4>1, <4>2, Zenon
        <3> QED
            BY <2>2, <3>1, SameOpen DEF Scan, BracketsKnown
    <2> QED
        BY <2>1, <2>2
<1>14. BracketsKnown'
    BY <1>4, <1>11, <1>12, <1>13 DEF BracketsKnown
<1>15. Counted'
    BY CountedRight
<1> QED
    BY <1>3, <1>4, <1>5, <1>10, <1>14, <1>15 DEF Scan

LEMMA Char ==
    ASSUME doc \in Docs, Scan, char # "end"
    PROVE  /\ parser.pos < Len(doc) /\ char = doc[parser.pos + 1]
           /\ parser.pos \in Nat /\ parser.toksuper \in Nat
           /\ parser.pos + 1 \in Opens(doc) <=> char \in {"{", "["}
           /\ parser.pos + 1 \in Closes(doc) <=> char \in {"}", "]"}
<1>1. parser.pos < Len(doc) /\ char = doc[parser.pos + 1]
    BY DEF char
<1>2. parser.pos \in Nat /\ parser.toksuper \in Nat
    BY DEF Scan, Types
<1>3. parser.pos + 1 \in 1 .. Len(doc)
    BY <1>1, <1>2, Positions
<1> QED
    BY <1>1, <1>2, <1>3, Lexeme

LEMMA LeafScan ==
    ASSUME doc \in Docs, Scan, Leaf, err' = "none"
    PROVE  Scan'
<1> DEFINE new == [type |-> LeafType[char], at |-> parser.pos + 1, size |-> 0, closed |-> TRUE]
<1>1. char \in {"@", "S", "P"}
    BY DEF Leaf, Running
<1>2. /\ tokens' = CountedIn(parser.toksuper, new)
      /\ parser' = [parser EXCEPT !.pos = @ + 1] /\ doc' = doc
    BY DEF Leaf, Fails
<1>3. /\ parser.pos < Len(doc) /\ parser.pos \in Nat /\ parser.toksuper \in Nat
      /\ parser.pos + 1 \notin Opens(doc) /\ parser.pos + 1 \notin Closes(doc)
    BY <1>1, Char
<1>4. LeafType[char] \in {"children", "string", "primitive"}
    BY <1>1 DEF LeafType
<1>5. /\ new \in Token /\ new.at = parser.pos + 1 /\ new.size = 0
      /\ ~IsOpen(new)
    BY <1>3, <1>4 DEF Token, IsOpen
<1>6. /\ parser' \in [pos : Nat, toksuper : Nat] /\ parser'.pos = parser.pos + 1
      /\ parser'.toksuper = parser.toksuper
    <2>1. parser \in [pos : Nat, toksuper : Nat]
        BY DEF Scan, Types
    <2> QED
        BY <1>2, <2>1
<1> HIDE DEF new
<1> QED
    BY <1>2, <1>3, <1>5, <1>6, TokenAdded

LEMMA OpenScan ==
    ASSUME doc \in Docs, Scan, Open, err' = "none"
    PROVE  Scan'
<1> DEFINE new == [type |-> IF char = "{" THEN "object" ELSE "array",
                   at |-> parser.pos + 1, size |-> 0, closed |-> FALSE]
<1>1. char \in {"{", "["}
    BY DEF Open, Running
<1>2. /\ tokens' = CountedIn(parser.toksuper, new)
      /\ parser' = [pos |-> parser.pos + 1, toksuper |-> Len(tokens) + 1] /\ doc' = doc
    BY DEF Open, Fails
<1>3. /\ parser.pos < Len(doc) /\ parser.pos \in Nat /\ parser.toksuper \in Nat
      /\ parser.pos + 1 \in Opens(doc) /\ parser.pos + 1 \notin Closes(doc)
    BY <1>1, Char
<1>4. /\ new \in Token /\ new.at = parser.pos + 1 /\ new.size = 0
      /\ IsOpen(new)
    BY <1>3 DEF Token, IsOpen
<1>5. /\ parser' \in [pos : Nat, toksuper : Nat] /\ parser'.pos = parser.pos + 1
      /\ parser'.toksuper = Len(tokens) + 1
    <2>1. tokens \in Seq(Token)
        BY DEF Scan, Types
    <2>2. Len(tokens) + 1 \in Nat /\ parser.pos + 1 \in Nat
        BY <1>3, <2>1
    <2>3. parser' = [pos |-> parser.pos + 1, toksuper |-> Len(tokens) + 1]
        BY <1>2
    <2> QED
        BY <2>2, <2>3
<1> HIDE DEF new
<1> QED
    BY <1>2, <1>3, <1>4, <1>5, TokenAdded

LEMMA SkipScan ==
    ASSUME doc \in Docs, Scan, Skip
    PROVE  Scan'
<1> DEFINE c == parser.pos + 1
<1>1. char = "," /\ parser' = [parser EXCEPT !.pos = @ + 1] /\ doc' = doc /\ tokens' = tokens
    BY DEF Skip, Running
<1>2. /\ parser.pos < Len(doc) /\ parser.pos \in Nat /\ parser.toksuper \in Nat
      /\ c \notin Opens(doc) /\ c \notin Closes(doc)
    BY <1>1, Char
<1>3. /\ parser' \in [pos : Nat, toksuper : Nat] /\ parser'.pos = c
      /\ parser'.toksuper = parser.toksuper /\ c <= Len(doc)
    <2>1. parser \in [pos : Nat, toksuper : Nat]
        BY DEF Scan, Types
    <2>2. c <= Len(doc) /\ c \in Nat
        BY <1>2, Positions
    <2>3. parser' = [parser EXCEPT !.pos = c]
        BY <1>1
    <2> HIDE DEF c
    <2> QED
        BY <2>1, <2>2, <2>3
<1>4. /\ Unmatched(parser.pos)' = Unmatched(parser.pos)
      /\ DepthCounts(parser.pos) => DepthCounts(parser.pos)'
    BY <1>1, <1>2, <1>3, SameDoc, NoBracket
<1>5. Types'
    BY <1>1, <1>3 DEF Scan, Types
<1>6. InOrder'
    <2>1. \A x : x \in 1 .. parser.pos => x \in 1 .. c
        BY <1>2
    <2> QED
        BY <1>1, <1>3, <2>1 DEF Scan, InOrder
<1>7. \A p \in Opens(doc) : p <= c => \E k \in DOMAIN tokens : tokens[k].at = p
    <2> SUFFICES ASSUME NEW p \in Opens(doc), p <= c
                 PROVE  \E k \in DOMAIN tokens : tokens[k].at = p
        OBVIOUS
    <2>1. p \in Nat /\ p # c
        BY <1>2, Brackets, Positions
    <2>2. p <= parser.pos
        BY <1>2, <2>1
    <2> QED
        BY <2>2 DEF Scan, BracketsKnown
<1>8. BracketsKnown'
    BY <1>1, <1>3, <1>4, <1>7 DEF Scan, BracketsKnown
<1>9. Counted'
    BY <1>1 DEF Scan, Counted, Inner
<1> QED
    BY <1>4, <1>5, <1>6, <1>8, <1>9 DEF Scan

(* The token that is closed is the innermost open one, which the format    *)
(* matches with this bracket, and the next one out is toksuper again.      *)
LEMMA CloseScan ==
    ASSUME doc \in Docs, Scan, Close, err' = "none"
    PROVE  Scan'
<1> DEFINE s == InnermostOpen(tokens)
           n == Len(tokens)
           c == parser.pos + 1
           t == tokens[s].at
           U == Unmatched(parser.pos)
<1>1. char \in {"}", "]"} /\ s # 0 /\ doc' = doc
      /\ tokens' = [tokens EXCEPT ![s].closed = TRUE]
      /\ parser' = [pos |-> c, toksuper |-> Outer(tokens, s)]
    BY DEF Close, Running, Fails
<1>2. /\ parser.pos < Len(doc) /\ parser.pos \in Nat /\ c \in Closes(doc)
      /\ Len(doc) \in Nat /\ c \notin Opens(doc)
    BY <1>1, Char, Positions, Brackets
<1>3. s = parser.toksuper
    BY DEF Scan, BracketsKnown
<1>4. /\ s \in DOMAIN tokens /\ IsOpen(tokens[s]) /\ t \in U /\ \A p \in U : p <= t
      /\ \A k \in DOMAIN tokens : IsOpen(tokens[k]) => k <= s
    BY <1>1, <1>3, Innermost
<1>5. Unmatched(c) = U \ {t} /\ DepthCounts(c)
    BY <1>2, <1>4, BracketCloses DEF Scan
<1>6. Unmatched(parser.pos)' = U \ {t} /\ DepthCounts(parser.pos)'
    BY <1>1, <1>5, SameDoc
<1>7. tokens \in Seq(Token) /\ n \in Nat /\ DOMAIN tokens = 1 .. n /\ s \in 1 .. n
    BY <1>4 DEF Scan, Types
<1> HIDE DEF s, n, c, t, U
<1>8. /\ tokens' \in Seq(Token) /\ DOMAIN tokens' = DOMAIN tokens
      /\ \A k \in DOMAIN tokens :
            /\ tokens'[k].at = tokens[k].at
            /\ tokens'[k].size = tokens[k].size
            /\ tokens'[k].type = tokens[k].type
            /\ tokens'[k].closed = IF k = s THEN TRUE ELSE tokens[k].closed
    <2> DEFINE shut == [tokens[s] EXCEPT !.closed = TRUE]
    <2>1. tokens[s] \in Token
        BY <1>7
    <2>2. /\ shut \in Token /\ shut.at = tokens[s].at /\ shut.type = tokens[s].type
          /\ shut.closed = TRUE /\ shut.size = tokens[s].size
        BY <2>1 DEF Token
    <2>3. tokens' = [tokens EXCEPT ![s] = shut]
        BY <1>1
    <2> HIDE DEF shut
    <2>4. /\ tokens' \in Seq(Token) /\ DOMAIN tokens' = DOMAIN tokens
          /\ \A k \in DOMAIN tokens : tokens'[k] = IF k = s THEN shut ELSE tokens[k]
        BY <1>7, <2>2, <2>3
    <2> QED
        BY <2>2, <2>4
<1>9. \A k \in DOMAIN tokens : IsOpen(tokens'[k]) <=> IsOpen(tokens[k]) /\ k # s
    BY <1>8 DEF IsOpen
<1>10. \A k \in DOMAIN tokens : tokens[k].at = t <=> k = s
    <2> TAKE k \in DOMAIN tokens
    <2>1. s < k => tokens[s].at < tokens[k].at
        BY <1>4 DEF Scan, InOrder
    <2>2. k < s => tokens[k].at < tokens[s].at
        BY <1>4 DEF Scan, InOrder
    <2>3. k \in Nat /\ s \in Nat /\ tokens[k].at \in Nat /\ tokens[s].at \in Nat
        BY <1>4, TokenTypes DEF Scan
    <2> QED
        BY <2>1, <2>2, <2>3 DEF t
<1>11. parser'.pos = c /\ parser'.toksuper = Outer(tokens, s)
    BY <1>1
<1>12. Outer(tokens, s) = InnermostOpen(tokens')
    <2> DEFINE before == SubSeq(tokens, 1, s - 1)
    <2>1. DOMAIN before = 1 .. (s - 1) /\ \A k \in 1 .. (s - 1) : before[k] = tokens[k]
        BY <1>7
    <2>2. \A k : k \in 1 .. (s - 1) <=> k \in DOMAIN tokens /\ k <= s /\ k # s
        BY <1>7
    <2> HIDE DEF before
    <2>3. \A k : k \in DOMAIN before /\ IsOpen(before[k]) <=>
                 k \in DOMAIN tokens' /\ IsOpen(tokens'[k])
        BY <1>4, <1>8, <1>9, <2>1, <2>2, Zenon
    <2> QED
        BY <2>3, SameOpen DEF Outer, before
<1>13. Types'
    <2>1. c \in Nat /\ c <= Len(doc)
        BY <1>2 DEF c
    <2>2. Outer(tokens, s) \in Nat
        <3> DEFINE S == {0} \cup {k \in DOMAIN tokens' : IsOpen(tokens'[k])}
        <3>1. S \in SUBSET (0 .. n) /\ S # {}
            BY <1>7, <1>8
        <3> HIDE DEF S
        <3>2. Max(S) \in 0 .. n
            BY <1>7, <3>1, MaxExists
        <3> QED
            BY <1>7, <1>12, <3>2 DEF InnermostOpen, S
    <2>3. parser' \in [pos : Nat, toksuper : Nat]
        BY <1>1, <2>1, <2>2
    <2> QED
        BY <1>1, <1>8, <1>11, <2>1, <2>3 DEF Types
<1>14. InOrder'
    <2>1. \A x : x \in 1 .. parser.pos => x \in 1 .. c
        BY <1>2 DEF c
    <2> QED
        BY <1>8, <1>11, <2>1 DEF Scan, InOrder
<1>15. \A p \in Opens(doc) : p <= c => \E k \in DOMAIN tokens' : tokens'[k].at = p
    <2> SUFFICES ASSUME NEW p \in Opens(doc), p <= c
                 PROVE  \E k \in DOMAIN tokens' : tokens'[k].at = p
        OBVIOUS
    <2>1. p \in Nat /\ p # c
        BY <1>2, Brackets
    <2>2. p <= parser.pos
        BY <1>2, <2>1 DEF c
    <2>3. PICK k \in DOMAIN tokens : tokens[k].at = p
        BY <2>2 DEF Scan, BracketsKnown
    <2> QED
        BY <1>8, <2>3
<1>16. \A k \in DOMAIN tokens : IsOpen(tokens'[k]) <=> tokens'[k].at \in U \ {t}
    <2> TAKE k \in DOMAIN tokens
    <2>1. IsOpen(tokens[k]) <=> tokens[k].at \in U
        BY DEF Scan, BracketsKnown, U
    <2> QED
        BY <1>8, <1>9, <1>10, <2>1
<1>17. BracketsKnown'
    BY <1>1, <1>6, <1>8, <1>11, <1>12, <1>15, <1>16 DEF BracketsKnown
<1>18. Counted'
    <2>1. \A k \in DOMAIN tokens : Inner(k)' = Inner(k)
        BY <1>1, <1>8 DEF Inner
    <2> QED
        BY <1>8, <2>1 DEF Scan, Counted
<1> QED
    BY <1>6, <1>13, <1>14, <1>17, <1>18 DEF Scan

-----------------------------------------------------------------------------
(* The first attempt and every retry start with no tokens. *)
LEMMA StartScan ==
    ASSUME doc \in Docs, tokens = <<>>, parser = jsmn_init
    PROVE  Scan
<1>1. parser.pos = 0 /\ parser.toksuper = 0 /\ parser \in [pos : Nat, toksuper : Nat]
    BY DEF jsmn_init
<1>2. DOMAIN tokens = {} /\ tokens \in Seq(Token)
    OBVIOUS
<1>3. \A p \in Opens(doc) : p \in Nat /\ p > 0
    BY Brackets, Positions
<1>4. Unmatched(parser.pos) = {}
    BY <1>1, <1>3 DEF Unmatched
<1>5. InnermostOpen(tokens) = 0
    <2>1. {0} \cup {k \in DOMAIN tokens : IsOpen(tokens[k])} = {0}
        BY <1>2
    <2>2. 0 \in {0} /\ {0} \in SUBSET Int /\ \A y \in {0} : y <= 0
        OBVIOUS
    <2> QED
        BY <2>1, <2>2, MaxIs DEF InnermostOpen
<1>6. Types
    BY <1>1, <1>2, Positions DEF Types
<1>7. InOrder /\ Counted
    BY <1>2 DEF InOrder, Counted
<1>8. BracketsKnown
    BY <1>1, <1>2, <1>3, <1>5 DEF BracketsKnown
<1>9. DepthCounts(parser.pos)
    BY <1>4 DEF DepthCounts
<1> QED
    BY <1>6, <1>7, <1>8, <1>9 DEF Scan

(* The same of the state a retry ends in. *)
LEMMA RestartScan ==
    (doc \in Docs /\ tokens = <<>> /\ parser = jsmn_init)' => Scan'
<1>1. doc \in Docs /\ tokens = <<>> /\ parser = jsmn_init => Scan
    BY StartScan
<1> QED
    BY <1>1, PTL

(* Nothing but the tokenizer touches its state. *)
LEMMA ScannedStays ==
    ASSUME Scanned, UNCHANGED jsmn_vars
    PROVE  Scanned'
<1>1. UNCHANGED <<doc, parser, tokens, token_cnt, err>>
    BY DEF jsmn_vars
<1>2. Scan => Scan'
    BY <1>1 DEF Scan, Types, InOrder, BracketsKnown, DepthCounts, Unmatched, Counted, Inner
<1> QED
    BY <1>1, <1>2 DEF Scanned

LEMMA TokenizeScan ==
    ASSUME Scanned, jsmn_parse
    PROVE  Scanned'
<1>1. doc \in Docs
    BY DEF Scanned
<1>2. err = "none" /\ Scan
    BY DEF Scanned, jsmn_parse, Skip, Leaf, Open, Close, Invalid, Partial,
           CommentOverrun, End, Running
<1>3. doc' = doc
    BY DEF jsmn_parse, Skip, Leaf, Open, Close, Invalid, Partial,
           CommentOverrun, End, Fails
<1>4. ASSUME err' = "none"
      PROVE  Scan'
    <2>1. Skip \/ Leaf \/ Open \/ Close
        BY <1>4 DEF jsmn_parse, Invalid, Partial, CommentOverrun, End, Fails
    <2>2. CASE Skip
        BY <1>1, <1>2, <2>2, SkipScan
    <2>3. CASE Leaf
        BY <1>1, <1>2, <1>4, <2>3, LeafScan
    <2>4. CASE Open
        BY <1>1, <1>2, <1>4, <2>4, OpenScan
    <2>5. CASE Close
        BY <1>1, <1>2, <1>4, <2>5, CloseScan
    <2> QED
        BY <2>1, <2>2, <2>3, <2>4, <2>5
<1> QED
    BY <1>1, <1>3, <1>4 DEF Scanned

LEMMA ScannedStep ==
    ASSUME Scanned, [Next]_vars
    PROVE  Scanned'
<1>1. CASE Tokenize
    BY <1>1, TokenizeScan DEF Tokenize
<1>2. CASE ParseAgain
    <2>1. doc' \in Docs /\ tokens' = <<>> /\ parser' = jsmn_init
        BY <1>2 DEF ParseAgain, Scanned
    <2>2. Scan'
        BY <2>1, RestartScan
    <2> QED
        BY <2>1, <2>2 DEF Scanned
<1>3. CASE UNCHANGED jsmn_vars
    BY <1>3, ScannedStays
<1>4. CASE ~Tokenize /\ ~ParseAgain
    <2>1. UNCHANGED jsmn_vars
        BY <1>4 DEF Next, vars, TokenizerFails, TokenizerOverruns, BuildStart, AddProperty,
                    WalkChildren, BadEntry, EntryOverrun, AddChild, ChildrenEnd, NodeEnd, Ends
    <2> QED
        BY <2>1, ScannedStays
<1> QED
    BY <1>1, <1>2, <1>4

(* The inductive invariant: while the tokenizer runs, tokens are in the    *)
(* order of the document, the open ones are the brackets not yet matched,  *)
(* and each is counted in the one it is in.                                *)
THEOREM ScanCorrect == Spec => []Scanned
<1>1. Init => Scanned
    BY StartScan DEF Init, JsmnInit, Scanned
<1> QED
    BY <1>1, ScannedStep, PTL DEF Spec

(* Token sizes count the tokens directly inside, at every point of the     *)
(* scan and in every retry, for documents of any size: the builder, which  *)
(* steps by them, can rely on that.                                        *)
THEOREM SizesAreCounts == Spec => []SizesCount
<1>1. Scanned => SizesCount
    <2> SUFFICES ASSUME doc \in Docs, Scan
                 PROVE  SizesCount
        BY DEF Scanned, SizesCount
    <2> DEFINE around == [m \in DOMAIN tokens |-> Around(doc, tokens[m].at)]
    <2>1. \A k : {m \in DOMAIN tokens : around[m] = tokens[k].at} = Inner(k)
        BY DEF Inner
    <2>2. {p \in Opens(doc) : p <= parser.pos /\ Match(doc, p) > parser.pos}
            = Unmatched(parser.pos)
        BY DEF Unmatched
    <2>3. \A k \in DOMAIN tokens :
             tokens[k].size = Cardinality({m \in DOMAIN tokens : around[m] = tokens[k].at})
        BY <2>1 DEF Scan, Counted
    <2>4. (IF parser.toksuper = 0 THEN 0 ELSE tokens[parser.toksuper].at) =
             Max({p \in Opens(doc) : p <= parser.pos /\ Match(doc, p) > parser.pos} \cup {0})
        BY <2>2, SuperIsAround
    <2> QED
        BY <2>3, <2>4 DEF SizesCount
<1> QED
    BY <1>1, ScanCorrect, PTL

-----------------------------------------------------------------------------
(***************************************************************************)
(* Where brackets close.                                                   *)
(***************************************************************************)
LEMMA DepthAlways ==
    ASSUME doc \in Docs, NEW n \in 0 .. Len(doc)
    PROVE  DepthCounts(n)
<1> DEFINE S == {m \in 0 .. Len(doc) : ~DepthCounts(m)}
<1>1. Len(doc) \in Nat
    BY Positions
<1>2. CASE S # {}
    <2> DEFINE m == Min(S)
    <2>1. m \in S /\ \A x \in S : m <= x
        <3>1. S \in SUBSET Nat
            BY <1>1
        <3> HIDE DEF S
        <3> QED
            BY <1>2, <3>1, MinExists
    <2> HIDE DEF m
    <2>2a. m \in 0 .. Len(doc) /\ ~DepthCounts(m)
        BY <2>1
    <2>2b. \A x \in 0 .. Len(doc) : x < m => ~(m <= x)
        BY <1>1, <2>2a
    <2>2. m \in 0 .. Len(doc) /\ ~DepthCounts(m) /\ \A x \in 0 .. Len(doc) : x < m => DepthCounts(x)
        BY <2>1, <2>2a, <2>2b
    <2> HIDE DEF S
    <2>3. CASE m = 0
        <3>1. Unmatched(0) = {}
            BY UnmatchedTypes
        <3> QED
            BY <2>2, <2>3, <3>1 DEF DepthCounts
    <2>4. CASE m # 0
        <3> DEFINE p == m - 1
        <3>1. p \in Nat /\ p < Len(doc) /\ p + 1 = m /\ DepthCounts(p)
            BY <1>1, <2>2, <2>4
        <3> HIDE DEF p
        <3>2. CASE m \notin Opens(doc) /\ m \notin Closes(doc)
            BY <2>2, <3>1, <3>2, NoBracket
        <3>3. CASE m \in Opens(doc)
            BY <2>2, <3>1, <3>3, BracketOpens
        <3>4. CASE m \in Closes(doc) /\ Unmatched(p) = {}
            <4>1. m \notin Opens(doc)
                BY <3>4, Brackets
            <4>2. p + 1 \notin Opens(doc)
                BY <3>1, <4>1
            <4>3. Unmatched(p + 1) = {}
                BY <3>1, <3>4, <4>2, OnlyNew
            <4> QED
                BY <2>2, <3>1, <4>3 DEF DepthCounts
        <3>5. CASE m \in Closes(doc) /\ Unmatched(p) # {}
            <4>1. Unmatched(p) \in SUBSET (0 .. p)
                BY <3>1, UnmatchedTypes
            <4>2. Max(Unmatched(p)) \in Unmatched(p) /\ \A y \in Unmatched(p) : y <= Max(Unmatched(p))
                BY <3>1, <3>5, <4>1, MaxExists
            <4> QED
                BY <2>2, <3>1, <3>5, <4>2, BracketCloses
        <3> QED
            BY <3>2, <3>3, <3>4, <3>5
    <2> QED
        BY <2>3, <2>4
<1>3. CASE S = {}
    BY <1>3
<1> QED
    BY <1>2, <1>3

(* A bracket that closes is the match of the last one unmatched before it. *)
LEMMA LastUnmatched ==
    ASSUME doc \in Docs, NEW p \in Opens(doc), NEW c \in Nat, Match(doc, p) = c, c <= Len(doc)
    PROVE  /\ c - 1 \in Nat /\ p \in Unmatched(c - 1)
           /\ \A q \in Unmatched(c - 1) : q <= p
<1> DEFINE n == c - 1
           t == Max(Unmatched(n))
<1>1. p \in 1 .. Len(doc) /\ Len(doc) \in Nat
    BY Brackets, Positions
<1>2. c > p /\ c \in Closes(doc)
    BY <1>1, MatchFacts
<1>3. n \in Nat /\ n < Len(doc) /\ n + 1 = c /\ p <= n /\ n \in 0 .. Len(doc)
    BY <1>1, <1>2
<1> HIDE DEF n
<1>4. p \in Unmatched(n)
    BY <1>3 DEF Unmatched
<1>5. Unmatched(n) \in SUBSET (0 .. n)
    BY <1>3, UnmatchedTypes
<1>6. t \in Unmatched(n) /\ \A y \in Unmatched(n) : y <= t
    BY <1>3, <1>4, <1>5, MaxExists
<1> HIDE DEF t
<1>7. Unmatched(c) = Unmatched(n) \ {t}
    BY <1>2, <1>3, <1>6, DepthAlways, BracketCloses
<1>8. p \notin Unmatched(c)
    BY DEF Unmatched
<1>9. p = t
    BY <1>4, <1>7, <1>8
<1> QED
    BY <1>3, <1>4, <1>6, <1>9 DEF n

(* No two brackets close in one place. *)
LEMMA MatchInjective ==
    ASSUME doc \in Docs, NEW p \in Opens(doc), NEW q \in Opens(doc),
           Match(doc, p) = Match(doc, q), Match(doc, p) <= Len(doc)
    PROVE  p = q
<1>1. /\ p \in 1 .. Len(doc) /\ q \in 1 .. Len(doc)
      /\ Match(doc, p) \in Nat
    BY Brackets, MatchFacts
<1>2. p <= q /\ q <= p
    BY <1>1, LastUnmatched
<1> QED
    BY <1>1, <1>2

(* A bracket inside another closes inside it. *)
LEMMA Nested ==
    ASSUME doc \in Docs, NEW r \in Opens(doc), NEW p \in Opens(doc),
           r < p, p < Match(doc, r), Match(doc, r) <= Len(doc)
    PROVE  Match(doc, p) < Match(doc, r)
<1> DEFINE c == Match(doc, r)
<1>1. /\ p \in 1 .. Len(doc) /\ r \in 1 .. Len(doc) /\ Len(doc) \in Nat
      /\ c \in Nat /\ Match(doc, p) \in Nat
    BY Brackets, MatchFacts, Positions
<1>2. c - 1 \in Nat /\ \A q \in Unmatched(c - 1) : q <= r
    BY <1>1, LastUnmatched
<1>3. ~(p <= r) /\ p <= c - 1
    BY <1>1
<1>4. ~(Match(doc, p) > c - 1)
    BY <1>2, <1>3 DEF Unmatched
<1> QED
    BY <1>1, <1>4

(* The innermost bracket around a position is around it, and no bracket    *)
(* around it opens later.                                                  *)
LEMMA AroundIs ==
    ASSUME doc \in Docs, NEW x \in Nat \ {0}
    PROVE  /\ Around(doc, x) \in Nat /\ Around(doc, x) < x
           /\ Around(doc, x) # 0 => /\ Around(doc, x) \in Opens(doc)
                                    /\ Match(doc, Around(doc, x)) > x
           /\ \A p \in Opens(doc) : p < x /\ Match(doc, p) > x => p <= Around(doc, x)
<1> DEFINE W == {p \in Opens(doc) : p < x /\ Match(doc, p) > x} \cup {0}
           m == Max(W)
<1>1. W \in SUBSET (0 .. x) /\ W # {}
    BY Brackets, Positions
<1>2. Around(doc, x) = m
    BY DEF Around
<1>3. m \in W /\ \A y \in W : y <= m
    <2> HIDE DEF W
    <2> QED
        BY <1>1, MaxExists
<1> HIDE DEF m
<1> QED
    BY <1>2, <1>3, AroundBefore

-----------------------------------------------------------------------------
(***************************************************************************)
(* What the tokenizer has accepted, and what it refuses.                   *)
(***************************************************************************)

(* The type of the token of a lexeme. *)
TypeOf == [c \in {"{", "[", "@", "S", "P"} |->
    CASE c = "{" -> "object" [] c = "[" -> "array" [] c = "@" -> "children"
      [] c = "S" -> "string" [] c = "P" -> "primitive"]

(* Every lexeme passed that is not skipped and does not close has a token, *)
(* of its type.                                                            *)
Lexed ==
    /\ \A k \in DOMAIN tokens :
          /\ doc[tokens[k].at] \in DOMAIN TypeOf
          /\ tokens[k].type = TypeOf[doc[tokens[k].at]]
    /\ \A q \in 1 .. parser.pos :
          doc[q] \notin {"}", "]", ","} => \E k \in DOMAIN tokens : tokens[k].at = q

(* Every bracket passed that closes is the match of one, of its kind. *)
ClosedBy(c) == IF c = "{" THEN "}" ELSE "]"

Paired ==
    /\ \A p \in Opens(doc) : Match(doc, p) <= parser.pos => doc[Match(doc, p)] = ClosedBy(doc[p])
    /\ \A c \in Closes(doc) : c <= parser.pos => \E p \in Opens(doc) : Match(doc, p) = c

Reading == Scan /\ Lexed /\ Paired

(* All of the document is read, and all brackets are closed. *)
Ready ==
    /\ doc \in Docs
    /\ Reading
    /\ parser.pos = Len(doc)
    /\ Unmatched(Len(doc)) = {}

Tokenized ==
    /\ err \in {"none", "nomem", "inval", "part", "undefined", "success"}
    /\ err = "none" => Reading
    /\ err \in {"inval", "part", "undefined"} => ~Balanced(doc)
    /\ err = "undefined" => char = "/"
    /\ err = "success" => Ready

LEMMA OneMore ==
    ASSUME NEW n \in Nat
    PROVE  \A q : q \in 1 .. (n + 1) <=> q \in 1 .. n \/ q = n + 1
OBVIOUS

LEMMA TypeOfIs ==
    /\ DOMAIN TypeOf = {"{", "[", "@", "S", "P"}
    /\ TypeOf["{"] = "object" /\ TypeOf["["] = "array" /\ TypeOf["@"] = "children"
    /\ TypeOf["S"] = "string" /\ TypeOf["P"] = "primitive"
BY DEF TypeOf

(* A lexeme that is not a bracket that closes. *)
LEMMA PairedOn ==
    ASSUME doc \in Docs, Scan, Paired, doc' = doc, parser.pos < Len(doc),
           parser.pos + 1 \notin Closes(doc), parser'.pos = parser.pos + 1
    PROVE  Paired'
<1> DEFINE c == parser.pos + 1
<1>1. parser.pos \in Nat /\ Len(doc) \in Nat
    BY Positions DEF Scan, Types
<1>2. \A x \in Nat : x <= c => x <= parser.pos \/ x = c
    BY <1>1
<1>3. c <= Len(doc)
    BY <1>1
<1>4. ASSUME NEW p \in Opens(doc), Match(doc, p) <= c
      PROVE  Match(doc, p) <= parser.pos
    <2>1. p \in 1 .. Len(doc)
        BY Brackets
    <2>2. Match(doc, p) \in Nat /\ (Match(doc, p) <= Len(doc) => Match(doc, p) \in Closes(doc))
        BY <2>1, MatchFacts
    <2> QED
        BY <1>2, <1>3, <1>4, <2>2
<1>5. ASSUME NEW q \in Closes(doc), q <= c
      PROVE  q <= parser.pos
    <2>1. q \in 1 .. Len(doc)
        BY Brackets
    <2> QED
        BY <1>1, <1>2, <1>5, <2>1
<1> QED
    BY <1>4, <1>5 DEF Paired

LEMMA LexedSkip ==
    ASSUME doc \in Docs, Scan, Lexed, Skip
    PROVE  Lexed' /\ parser'.pos = parser.pos + 1 /\ doc' = doc
<1>1. /\ doc' = doc /\ tokens' = tokens /\ parser' = [parser EXCEPT !.pos = @ + 1]
      /\ char = ","
    BY DEF Skip, Running
<1>2. parser'.pos = parser.pos + 1
    BY <1>1 DEF Scan, Types
<1>3. /\ parser.pos < Len(doc) /\ doc[parser.pos + 1] = "," /\ parser.pos \in Nat
    BY <1>1, Char
<1>4. \A q \in 1 .. parser'.pos : q \in 1 .. parser.pos \/ doc[q] = ","
    <2>1. \A q \in 1 .. parser'.pos : q \in 1 .. parser.pos \/ q = parser.pos + 1
        BY <1>2, <1>3, OneMore
    <2> QED
        BY <1>3, <2>1
<1> QED
    BY <1>1, <1>2, <1>4 DEF Lexed

LEMMA LexedToken ==
    ASSUME doc \in Docs, Scan, Lexed, doc' = doc, char \in DOMAIN TypeOf,
           parser'.pos = parser.pos + 1,
           NEW new \in Token, new.at = parser.pos + 1, new.type = TypeOf[char],
           tokens' = CountedIn(parser.toksuper, new)
    PROVE  Lexed'
<1> DEFINE n == Len(tokens)
<1>1. char # "end"
    BY TypeOfIs
<1>2. /\ parser.pos < Len(doc) /\ doc[parser.pos + 1] = char /\ parser.pos \in Nat
    BY <1>1, Char
<1>3. /\ n \in Nat /\ DOMAIN tokens = 1 .. n /\ DOMAIN tokens' = 1 .. (n + 1)
      /\ tokens'[n + 1] = new
      /\ \A k \in 1 .. n : tokens'[k].at = tokens[k].at /\ tokens'[k].type = tokens[k].type
    BY Appended
<1> HIDE DEF n
<1>4. ASSUME NEW k \in 1 .. (n + 1)
      PROVE  /\ doc[tokens'[k].at] \in DOMAIN TypeOf
             /\ tokens'[k].type = TypeOf[doc[tokens'[k].at]]
    <2>1. CASE k \in 1 .. n
        BY <1>3, <2>1 DEF Lexed
    <2>2. CASE k = n + 1
        BY <1>2, <1>3, <2>2
    <2> QED
        BY <1>3, <2>1, <2>2
<1>5. ASSUME NEW q \in 1 .. parser'.pos, doc[q] \notin {"}", "]", ","}
      PROVE  \E k \in 1 .. (n + 1) : tokens'[k].at = q
    <2>1. CASE q \in 1 .. parser.pos
        <3>1. PICK k \in 1 .. n : tokens[k].at = q
            BY <1>3, <1>5, <2>1 DEF Lexed
        <3> QED
            BY <1>3, <3>1
    <2>2. CASE q = parser.pos + 1
        BY <1>3, <2>2
    <2> QED
        BY <1>2, <2>1, <2>2
<1> QED
    BY <1>3, <1>4, <1>5 DEF Lexed

LEMMA LeafReading ==
    ASSUME doc \in Docs, Reading, Leaf, err' = "none"
    PROVE  Reading'
<1> DEFINE new == [type |-> LeafType[char], at |-> parser.pos + 1, size |-> 0, closed |-> TRUE]
<1>1. char \in {"@", "S", "P"}
    BY DEF Leaf, Running
<1>2. /\ tokens' = CountedIn(parser.toksuper, new)
      /\ parser' = [parser EXCEPT !.pos = @ + 1] /\ doc' = doc
    BY DEF Leaf, Fails
<1>3. LeafType[char] = TypeOf[char] /\ char \in DOMAIN TypeOf /\ char # "end"
      /\ LeafType[char] \in {"children", "string", "primitive"}
    BY <1>1, TypeOfIs DEF LeafType
<1>4. /\ parser.pos < Len(doc) /\ parser.pos \in Nat
      /\ parser.pos + 1 \notin Closes(doc)
    BY <1>1, <1>3, Char DEF Reading
<1>5. parser'.pos = parser.pos + 1
    BY <1>2 DEF Reading, Scan, Types
<1>6. new \in Token /\ new.at = parser.pos + 1 /\ new.type = TypeOf[char]
    BY <1>3, <1>4 DEF Token
<1> HIDE DEF new
<1>7. Lexed'
    BY <1>2, <1>3, <1>5, <1>6, LexedToken DEF Reading
<1>8. Paired'
    BY <1>2, <1>4, <1>5, PairedOn DEF Reading
<1> QED
    BY <1>7, <1>8, LeafScan DEF Reading

LEMMA OpenReading ==
    ASSUME doc \in Docs, Reading, Open, err' = "none"
    PROVE  Reading'
<1> DEFINE kind == IF char = "{" THEN "object" ELSE "array"
           new == [type |-> kind, at |-> parser.pos + 1, size |-> 0, closed |-> FALSE]
<1>1. char \in {"{", "["}
    BY DEF Open, Running
<1>2. /\ tokens' = CountedIn(parser.toksuper, new)
      /\ parser' = [pos |-> parser.pos + 1, toksuper |-> Len(tokens) + 1] /\ doc' = doc
    BY DEF Open, Fails
<1>3. /\ parser.pos < Len(doc) /\ parser.pos \in Nat
      /\ parser.pos + 1 \notin Closes(doc)
    BY <1>1, Char DEF Reading
<1>4. /\ new \in Token /\ new.at = parser.pos + 1 /\ new.type = TypeOf[char]
      /\ char \in DOMAIN TypeOf
    <2>1. kind \in {"object", "array"} /\ kind = TypeOf[char] /\ char \in DOMAIN TypeOf
        BY <1>1, TypeOfIs
    <2> HIDE DEF kind
    <2> QED
        BY <1>3, <2>1 DEF Token
<1>5. parser'.pos = parser.pos + 1
    BY <1>2
<1> HIDE DEF new
<1>6. Lexed'
    BY <1>2, <1>4, <1>5, LexedToken DEF Reading
<1>7. Paired'
    BY <1>2, <1>3, <1>5, PairedOn DEF Reading
<1> QED
    BY <1>6, <1>7, OpenScan DEF Reading

LEMMA SkipReading ==
    ASSUME doc \in Docs, Reading, Skip
    PROVE  Reading'
<1>1. char = ","
    BY DEF Skip, Running
<1>2. parser.pos < Len(doc) /\ parser.pos + 1 \notin Closes(doc)
    BY <1>1, Char DEF Reading
<1>3. Lexed' /\ parser'.pos = parser.pos + 1 /\ doc' = doc
    BY LexedSkip DEF Reading
<1> QED
    BY <1>2, <1>3, PairedOn, SkipScan DEF Reading

(* The innermost open token is the bracket this one matches. *)
LEMMA ClosesInnermost ==
    ASSUME doc \in Docs, Scan, Lexed, parser.pos < Len(doc), parser.pos + 1 \in Closes(doc),
           NEW s, s = InnermostOpen(tokens), s # 0
    PROVE  /\ s \in DOMAIN tokens
           /\ tokens[s].at \in Opens(doc) /\ Match(doc, tokens[s].at) = parser.pos + 1
           /\ tokens[s].type = IF doc[tokens[s].at] = "{" THEN "object" ELSE "array"
<1> DEFINE t == tokens[s].at
           n == parser.pos
           c == n + 1
           U == Unmatched(n)
<1>1. /\ n < Len(doc) /\ n \in Nat /\ c \in Closes(doc)
    BY DEF Scan, Types
<1>2. s = parser.toksuper
    BY DEF Scan, BracketsKnown
<1>3. s \in DOMAIN tokens /\ t \in U /\ \A p \in U : p <= t
    BY <1>2, Innermost
<1>4. Unmatched(c) = U \ {t}
    BY <1>1, <1>3, BracketCloses DEF Scan
<1> HIDE DEF n
<1>5. t \in Opens(doc) /\ t <= n /\ Match(doc, t) > n
    BY <1>3 DEF Unmatched
<1>6. t \in 1 .. Len(doc) /\ Len(doc) \in Nat
    BY <1>5, Brackets, Positions
<1>6a. doc[t] \in {"{", "["}
    BY <1>5, <1>6, Lexeme
<1>7. Match(doc, t) \in Nat
    BY <1>6, MatchFacts
<1> DEFINE m == Match(doc, t)
<1>7a. n \in Nat /\ c = n + 1 /\ c \in Nat /\ t \in Int /\ t <= n /\ m \in Nat /\ m > n
    <2> HIDE DEF t
    <2> QED
        BY <1>1, <1>5, <1>6, <1>7
<1>7b. t \notin Unmatched(c)
    BY <1>4
<1>8. ~(m > c)
    <2>1. t <= c
        <3> HIDE DEF t, m, c
        <3> QED
            BY <1>7a
    <2> HIDE DEF t, c
    <2> QED
        BY <1>5, <1>7b, <2>1 DEF Unmatched
<1>9. m = c
    <2> HIDE DEF m, c, t
    <2> QED
        BY <1>7a, <1>8
<1>10. tokens[s].type = TypeOf[doc[t]]
    BY <1>3 DEF Lexed
<1> QED
    BY <1>3, <1>5, <1>6a, <1>9, <1>10, TypeOfIs DEF n

LEMMA CloseReading ==
    ASSUME doc \in Docs, Reading, Close, err' = "none"
    PROVE  Reading'
<1> DEFINE s == InnermostOpen(tokens)
           t == tokens[s].at
           c == parser.pos + 1
<1>1. char \in {"}", "]"} /\ s # 0 /\ doc' = doc
      /\ tokens[s].type = (IF char = "}" THEN "object" ELSE "array")
      /\ tokens' = [tokens EXCEPT ![s].closed = TRUE]
      /\ parser' = [pos |-> c, toksuper |-> Outer(tokens, s)]
    BY DEF Close, Running, Fails
<1>2. /\ parser.pos < Len(doc) /\ parser.pos \in Nat /\ doc[c] = char /\ Len(doc) \in Nat
      /\ c \in Closes(doc)
    BY <1>1, Char, Positions DEF Reading
<1>3. /\ s \in DOMAIN tokens /\ t \in Opens(doc) /\ Match(doc, t) = c
      /\ tokens[s].type = IF doc[t] = "{" THEN "object" ELSE "array"
    BY <1>1, <1>2, ClosesInnermost DEF Reading
<1>3a. doc' = doc
    BY <1>1
<1>4. parser'.pos = c
    BY <1>1
<1>5. doc[c] = ClosedBy(doc[t])
    BY <1>1, <1>2, <1>3 DEF ClosedBy
<1>6. tokens \in Seq(Token)
    BY DEF Reading, Scan, Types
<1>7. DOMAIN tokens' = DOMAIN tokens
      /\ \A k \in DOMAIN tokens : tokens'[k].at = tokens[k].at /\ tokens'[k].type = tokens[k].type
    <2> DEFINE shut == [tokens[s] EXCEPT !.closed = TRUE]
    <2>1. tokens[s] \in Token
        BY <1>3, TokenTypes DEF Reading, Scan
    <2>2. shut.at = tokens[s].at /\ shut.type = tokens[s].type
        BY <2>1 DEF Token
    <2>3. tokens' = [tokens EXCEPT ![s] = shut]
        BY <1>1
    <2> HIDE DEF shut, s
    <2> QED
        BY <1>3, <1>6, <2>2, <2>3
<1> HIDE DEF s, t, c
<1>8. \A q \in 1 .. c : q \in 1 .. parser.pos \/ doc[q] \in {"}", "]"}
    <2>1. \A q \in 1 .. c : q \in 1 .. parser.pos \/ q = c
        BY <1>2, OneMore DEF c
    <2> QED
        BY <1>1, <1>2, <2>1
<1>9. Lexed'
    <2>1. ASSUME NEW q \in 1 .. c, doc[q] \notin {"}", "]", ","}
          PROVE  \E k \in DOMAIN tokens : tokens'[k].at = q
        <3>1. q \in 1 .. parser.pos
            BY <1>8, <2>1
        <3> QED
            BY <1>7, <2>1, <3>1 DEF Reading, Lexed
    <2>2. \A k \in DOMAIN tokens : /\ doc[tokens'[k].at] \in DOMAIN TypeOf
                                   /\ tokens'[k].type = TypeOf[doc[tokens'[k].at]]
        BY <1>7 DEF Reading, Lexed
    <2> QED
        BY <1>3a, <1>4, <1>7, <2>1, <2>2 DEF Lexed
<1>10. ASSUME NEW p \in Opens(doc), Match(doc, p) <= c
       PROVE  doc[Match(doc, p)] = ClosedBy(doc[p])
    <2>1. p \in 1 .. Len(doc)
        BY Brackets
    <2>2. Match(doc, p) \in Nat
        BY <2>1, MatchFacts
    <2>3. CASE Match(doc, p) <= parser.pos
        BY <2>3 DEF Reading, Paired
    <2>4. CASE Match(doc, p) = c
        <3>1. p = t
            <4>1. c <= Len(doc)
                BY <1>2 DEF c
            <4> QED
                BY <1>3, <2>4, <4>1, MatchInjective
        <3> QED
            BY <1>5, <2>4, <3>1
    <2> QED
        BY <1>2, <1>10, <2>2, <2>3, <2>4 DEF c
<1>11. ASSUME NEW q \in Closes(doc), q <= c
       PROVE  \E p \in Opens(doc) : Match(doc, p) = q
    <2>1. q \in 1 .. Len(doc)
        BY Brackets
    <2>2. q <= parser.pos \/ q = c
        BY <1>2, <1>11, <2>1 DEF c
    <2> QED
        BY <1>3, <2>2 DEF Reading, Paired
<1>12. Paired'
    BY <1>1, <1>4, <1>10, <1>11 DEF Paired
<1> QED
    BY <1>9, <1>12, CloseScan DEF Reading

(* The brackets of a document are as many as the places where they close,  *)
(* if each of those is the match of one.                                   *)
LEMMA AsManyBrackets ==
    ASSUME doc \in Docs, \A p \in Opens(doc) : Match(doc, p) <= Len(doc)
    PROVE  /\ (\A c \in Closes(doc) : \E p \in Opens(doc) : Match(doc, p) = c) =>
                 Cardinality(Opens(doc)) = Cardinality(Closes(doc))
           /\ \A c \in Closes(doc) : (\A p \in Opens(doc) : Match(doc, p) # c) =>
                 Cardinality(Opens(doc)) < Cardinality(Closes(doc))
<1> DEFINE f == [p \in Opens(doc) |-> Match(doc, p)]
<1>1. /\ IsFiniteSet(Closes(doc)) /\ Cardinality(Closes(doc)) \in Nat
      /\ IsFiniteSet(Opens(doc)) /\ Cardinality(Opens(doc)) \in Nat
    <2>1. Opens(doc) \subseteq 1 .. Len(doc) /\ Closes(doc) \subseteq 1 .. Len(doc)
        BY Brackets
    <2>2. IsFiniteSet(1 .. Len(doc))
        BY Positions, FS_Interval
    <2> QED
        BY <2>1, <2>2, FS_Subset, FS_CardinalityType
<1>2. \A p \in Opens(doc) : Match(doc, p) \in Closes(doc)
    BY Brackets, MatchFacts
<1>3. IsInjective(f)
    BY MatchInjective DEF IsInjective
<1>4. ASSUME \A c \in Closes(doc) : \E p \in Opens(doc) : Match(doc, p) = c
      PROVE  Cardinality(Opens(doc)) = Cardinality(Closes(doc))
    <2>1. f \in Injection(Opens(doc), Closes(doc))
        BY <1>2, <1>3 DEF Injection
    <2>2. f \in Surjection(Opens(doc), Closes(doc))
        BY <1>2, <1>4 DEF Surjection
    <2> QED
        BY <1>1, <2>1, <2>2, FS_Injection
<1>5. ASSUME NEW c \in Closes(doc), \A p \in Opens(doc) : Match(doc, p) # c
      PROVE  Cardinality(Opens(doc)) < Cardinality(Closes(doc))
    <2> DEFINE T == Closes(doc) \ {c}
    <2>1. f \in Injection(Opens(doc), T)
        BY <1>2, <1>3, <1>5 DEF Injection
    <2>2. IsFiniteSet(T) /\ Cardinality(T) = Cardinality(Closes(doc)) - 1
        BY <1>1, FS_RemoveElement
    <2> HIDE DEF T
    <2>3. Cardinality(Opens(doc)) <= Cardinality(T)
        BY <2>1, <2>2, FS_Injection
    <2> QED
        BY <1>1, <2>2, <2>3
<1> QED
    BY <1>4, <1>5

(* A bracket refused has no other it could close, or one of another kind. *)
LEMMA CloseRefused ==
    ASSUME doc \in Docs, Reading, Close, err' = "inval"
    PROVE  ~Balanced(doc)
<1> DEFINE s == InnermostOpen(tokens)
           c == parser.pos + 1
<1>1. char \in {"}", "]"}
    BY DEF Close, Running
<1>2. parser.pos < Len(doc) /\ parser.pos \in Nat /\ c \in Closes(doc) /\ doc[c] = char
    BY <1>1, Char DEF Reading
<1>3. s = 0 \/ (s # 0 /\ tokens[s].type # IF char = "}" THEN "object" ELSE "array")
    BY DEF Close, Running
<1>4. CASE s = 0
    <2>1. Unmatched(parser.pos) = {}
        BY <1>4, Innermost DEF Reading, Scan, BracketsKnown
    <2>2. SUFFICES ASSUME \A p \in Opens(doc) : Match(doc, p) <= Len(doc),
                          Cardinality(Opens(doc)) = Cardinality(Closes(doc))
                   PROVE  FALSE
        BY DEF Balanced
    <2>3. ASSUME NEW p \in Opens(doc)
          PROVE  Match(doc, p) # c
        <3>1. SUFFICES ASSUME Match(doc, p) = c
                       PROVE  FALSE
            OBVIOUS
        <3>2. c \in Nat /\ c <= Len(doc) /\ c - 1 = parser.pos
            BY <1>2, Positions
        <3> HIDE DEF c
        <3> QED
            BY <2>1, <3>1, <3>2, LastUnmatched
    <2>4. Cardinality(Opens(doc)) < Cardinality(Closes(doc))
        BY <1>2, <2>2, <2>3, AsManyBrackets
    <2>5. Cardinality(Closes(doc)) \in Nat
        <3>1. Closes(doc) \subseteq 1 .. Len(doc)
            BY Brackets
        <3>2. IsFiniteSet(1 .. Len(doc))
            BY Positions, FS_Interval
        <3> QED
            BY <3>1, <3>2, FS_Subset, FS_CardinalityType
    <2> QED
        BY <2>2, <2>4, <2>5
<1>5. CASE s # 0
    <2> DEFINE t == tokens[s].at
    <2>1. /\ t \in Opens(doc) /\ Match(doc, t) = c
          /\ tokens[s].type = IF doc[t] = "{" THEN "object" ELSE "array"
        BY <1>2, <1>5, ClosesInnermost DEF Reading
    <2>2. SUFFICES ASSUME doc[Match(doc, t)] = (IF doc[t] = "{" THEN "}" ELSE "]")
                   PROVE  FALSE
        BY <2>1 DEF Balanced
    <2> HIDE DEF s, t, c
    <2> QED
        BY <1>1, <1>2, <1>3, <1>5, <2>1, <2>2
<1> QED
    BY <1>4, <1>5

LEMMA ReadyBalanced ==
    ASSUME Ready
    PROVE  /\ Balanced(doc)
           /\ \A p \in Opens(doc) : Match(doc, p) <= Len(doc)
<1>1. /\ doc \in Docs /\ parser.pos = Len(doc) /\ Unmatched(Len(doc)) = {}
      /\ DOMAIN doc = 1 .. Len(doc) /\ Len(doc) \in Nat
    BY Positions DEF Ready
<1>2. ASSUME NEW p \in Opens(doc)
      PROVE  Match(doc, p) <= Len(doc)
    <2>1. p \in 1 .. Len(doc)
        BY <1>1, Brackets
    <2>2. Match(doc, p) \in Nat
        BY <1>1, <2>1, MatchFacts
    <2>3. ~(Match(doc, p) > Len(doc))
        BY <1>1, <2>1 DEF Unmatched
    <2> QED
        BY <1>1, <2>2, <2>3
<1>3. ASSUME NEW p \in DOMAIN doc
      PROVE  doc[p] \notin {"bad", "open", "/"}
    <2>1. doc[p] \notin {"}", "]", ","} => doc[p] \in DOMAIN TypeOf
        BY <1>1 DEF Ready, Reading, Lexed
    <2> QED
        BY <2>1, TypeOfIs
<1>4. \A p \in Opens(doc) : doc[Match(doc, p)] = (IF doc[p] = "{" THEN "}" ELSE "]")
    BY <1>1, <1>2 DEF Ready, Reading, Paired, ClosedBy
<1>5. \A c \in Closes(doc) : \E p \in Opens(doc) : Match(doc, p) = c
    <2>1. \A c \in Closes(doc) : c <= Len(doc)
        BY <1>1, Brackets
    <2> QED
        BY <1>1, <2>1 DEF Ready, Reading, Paired
<1>6. Cardinality(Opens(doc)) = Cardinality(Closes(doc))
    BY <1>1, <1>2, <1>5, AsManyBrackets
<1> QED
    BY <1>2, <1>3, <1>4, <1>6 DEF Balanced

LEMMA EndTokenized ==
    ASSUME doc \in Docs, Reading, End
    PROVE  Tokenized'
<1>1. /\ char = "end" /\ UNCHANGED <<doc, parser, tokens>>
      /\ err' = IF InnermostOpen(tokens) = 0 THEN "success" ELSE "part"
    BY DEF End, Running, Fails
<1>2. parser.pos = Len(doc)
    <2>1. parser.pos \in Nat /\ parser.pos <= Len(doc) /\ Len(doc) \in Nat
        BY Positions DEF Reading, Scan, Types
    <2>2. ~(parser.pos < Len(doc))
        <3>1. SUFFICES ASSUME parser.pos < Len(doc)
                       PROVE  doc[parser.pos + 1] # "end"
            BY <1>1 DEF char
        <3>2. parser.pos + 1 \in 1 .. Len(doc)
            BY <2>1, <3>1
        <3> DEFINE p == parser.pos + 1
        <3>3. doc[p] \in Lexemes
            <4>1. doc \in Seq(Lexemes)
                BY DocsAssumption
            <4>2. p \in 1 .. Len(doc)
                BY <3>2
            <4> HIDE DEF p
            <4> QED
                BY <4>1, <4>2
        <3> QED
            BY <3>3 DEF Lexemes
    <2> DEFINE n == parser.pos
               l == Len(doc)
    <2>3. n \in Nat /\ l \in Nat /\ n <= l /\ ~(n < l)
        BY <2>1, <2>2
    <2> HIDE DEF n, l
    <2>4. n = l
        BY <2>3
    <2> QED
        BY <2>4 DEF n, l
<1>3. parser.toksuper = InnermostOpen(tokens)
    BY DEF Reading, Scan, BracketsKnown
<1>4. CASE InnermostOpen(tokens) = 0
    <2>1. Unmatched(Len(doc)) = {}
        BY <1>2, <1>3, <1>4, Innermost DEF Reading
    <2>2. Ready
        BY <1>2, <2>1 DEF Ready
    <2>3. Ready'
        <3>1. Scan => Scan'
            BY <1>1 DEF Scan, Types, InOrder, BracketsKnown, DepthCounts, Unmatched,
                        Counted, Inner
        <3>2. (Lexed => Lexed') /\ (Paired => Paired')
            BY <1>1 DEF Lexed, Paired
        <3>3. Unmatched(Len(doc))' = Unmatched(Len(doc))
            BY <1>1 DEF Unmatched
        <3> QED
            BY <1>1, <2>2, <3>1, <3>2, <3>3 DEF Ready, Reading
    <2> QED
        BY <1>1, <1>4, <2>3 DEF Tokenized
<1>5. CASE InnermostOpen(tokens) # 0
    <2>1. PICK p \in Unmatched(Len(doc)) : TRUE
        BY <1>2, <1>3, <1>5, Innermost DEF Reading
    <2>2. p \in Opens(doc) /\ Match(doc, p) > Len(doc)
        BY DEF Unmatched
    <2>3. Match(doc, p) \in Nat /\ Len(doc) \in Nat
        BY <2>2, Brackets, MatchFacts, Positions
    <2>4. ~(Match(doc, p) <= Len(doc))
        BY <2>2, <2>3
    <2>5. ~Balanced(doc)
        BY <2>2, <2>4 DEF Balanced
    <2> QED
        BY <1>1, <1>5, <2>5 DEF Tokenized
<1> QED
    BY <1>4, <1>5

LEMMA RefusedHere ==
    ASSUME doc \in Docs, Reading, char \in {"bad", "open", "/"}
    PROVE  ~Balanced(doc)
<1>1. parser.pos < Len(doc) /\ doc[parser.pos + 1] = char /\ parser.pos \in Nat
    BY Char DEF Reading
<1>2. parser.pos + 1 \in DOMAIN doc
    BY <1>1, Positions
<1> QED
    BY <1>1, <1>2 DEF Balanced

LEMMA TokenizeTokenized ==
    ASSUME doc \in Docs, Tokenized, jsmn_parse
    PROVE  Tokenized' /\ doc' = doc
<1>1. Reading
    BY DEF Tokenized, jsmn_parse, Skip, Leaf, Open, Close, Invalid, Partial,
           CommentOverrun, End, Running
<1>2. doc' = doc
    BY DEF jsmn_parse, Skip, Leaf, Open, Close, Invalid, Partial,
           CommentOverrun, End, Fails
<1>3. CASE err' = "nomem"
    BY <1>2, <1>3 DEF Tokenized
<1>4. CASE err' = "none"
    <2>1. Skip \/ Leaf \/ Open \/ Close
        BY <1>4 DEF jsmn_parse, Invalid, Partial, CommentOverrun, End, Fails
    <2>2. Reading'
        BY <1>1, <1>4, <2>1, SkipReading, LeafReading, OpenReading, CloseReading
    <2> QED
        BY <1>2, <1>4, <2>2 DEF Tokenized
<1>5. CASE End
    BY <1>1, <1>2, <1>5, EndTokenized
<1>6. CASE Close /\ err' = "inval"
    <2>1. ~Balanced(doc)
        BY <1>1, <1>6, CloseRefused
    <2> QED
        BY <1>2, <1>6, <2>1 DEF Tokenized
<1>7. CASE Invalid \/ Partial \/ CommentOverrun
    <2>1. /\ char \in {"bad", "open", "/"} /\ UNCHANGED <<doc, parser>>
          /\ err' \in {"inval", "part", "undefined"}
          /\ err' = "undefined" => char = "/"
        BY <1>7 DEF Invalid, Partial, CommentOverrun, Running, Fails
    <2>2. ~Balanced(doc)
        BY <1>1, <2>1, RefusedHere
    <2>3. char' = char
        BY <2>1 DEF char
    <2> QED
        BY <1>2, <2>1, <2>2, <2>3 DEF Tokenized
<1>8. Skip \/ Leaf \/ Open \/ Close => err' \in {"none", "nomem"} \/ (Close /\ err' = "inval")
    BY DEF Skip, Leaf, Open, Close, Fails, Running
<1> QED
    BY <1>2, <1>3, <1>4, <1>5, <1>6, <1>7, <1>8 DEF jsmn_parse

-----------------------------------------------------------------------------
(***************************************************************************)
(* The tokens of a document that is read.                                  *)
(***************************************************************************)
IsObject(k) == type(k) = "object"

IsBracket(k) == type(k) \in {"object", "array"}

IsLeaf(k) == type(k) \in {"string", "primitive"}

LEMMA ReadyTokens ==
    ASSUME Ready
    PROVE  /\ doc \in Docs /\ Len(doc) \in Nat /\ DOMAIN doc = 1 .. Len(doc)
           /\ tokens \in Seq(Token) /\ Len(tokens) \in Nat /\ DOMAIN tokens = 1 .. Len(tokens)
           /\ \A k \in DOMAIN tokens : /\ k \in Nat \ {0} /\ tokens[k].at \in Nat \ {0}
                                       /\ tokens[k].at \in DOMAIN doc
                                       /\ tokens[k].size \in Nat
           /\ \A j, k \in DOMAIN tokens :
                 /\ tokens[j].at < tokens[k].at <=> j < k
                 /\ tokens[j].at <= tokens[k].at <=> j <= k
                 /\ tokens[j].at = tokens[k].at => j = k
<1>1. /\ doc \in Docs /\ Len(doc) \in Nat /\ DOMAIN doc = 1 .. Len(doc)
      /\ Scan /\ parser.pos = Len(doc)
    BY Positions DEF Ready, Reading
<1>2. tokens \in Seq(Token) /\ Len(tokens) \in Nat /\ DOMAIN tokens = 1 .. Len(tokens)
    BY <1>1 DEF Scan, Types
<1>3. \A k \in DOMAIN tokens : tokens[k].at \in 1 .. Len(doc)
    BY <1>1 DEF Scan, InOrder
<1>4. \A k \in DOMAIN tokens : k \in Nat \ {0} /\ tokens[k].at \in Nat \ {0} /\ tokens[k].size \in Nat
    BY <1>1, <1>2, <1>3, TokenTypes DEF Scan
<1>5. ASSUME NEW j \in DOMAIN tokens, NEW k \in DOMAIN tokens
      PROVE  /\ tokens[j].at < tokens[k].at <=> j < k
             /\ tokens[j].at <= tokens[k].at <=> j <= k
             /\ tokens[j].at = tokens[k].at => j = k
    <2>1. j < k => tokens[j].at < tokens[k].at
        BY <1>1 DEF Scan, InOrder
    <2>2. k < j => tokens[k].at < tokens[j].at
        BY <1>1 DEF Scan, InOrder
    <2> QED
        BY <1>4, <2>1, <2>2
<1> QED
    BY <1>1, <1>2, <1>3, <1>4, <1>5

LEMMA Kinds ==
    ASSUME Ready, NEW k \in DOMAIN tokens
    PROVE  /\ type(k) = "object" <=> doc[tokens[k].at] = "{"
           /\ type(k) = "array" <=> doc[tokens[k].at] = "["
           /\ type(k) = "children" <=> doc[tokens[k].at] = "@"
           /\ type(k) = "string" <=> doc[tokens[k].at] = "S"
           /\ type(k) = "primitive" <=> doc[tokens[k].at] = "P"
           /\ type(k) \in {"object", "array", "children", "string", "primitive"}
           /\ tokens[k].at \in Opens(doc) <=> IsBracket(k)
           /\ doc[tokens[k].at] \notin {"}", "]", ","}
<1>1. doc[tokens[k].at] \in {"{", "[", "@", "S", "P"} /\ type(k) = TypeOf[doc[tokens[k].at]]
    BY TypeOfIs DEF Ready, Reading, Lexed, type
<1>2. tokens[k].at \in Opens(doc) <=> doc[tokens[k].at] \in {"{", "["}
    BY ReadyTokens, Lexeme
<1> QED
    BY <1>1, <1>2, TypeOfIs DEF IsBracket

LEMMA TokenAt ==
    ASSUME Ready, NEW q \in DOMAIN doc, doc[q] \notin {"}", "]", ","}
    PROVE  \E k \in DOMAIN tokens : tokens[k].at = q
<1>1. q \in 1 .. parser.pos
    BY ReadyTokens DEF Ready
<1> QED
    BY <1>1 DEF Ready, Reading, Lexed

LEMMA BracketToken ==
    ASSUME Ready, NEW p \in Opens(doc)
    PROVE  /\ \E k \in DOMAIN tokens : tokens[k].at = p /\ IsBracket(k)
           /\ p \in DOMAIN doc /\ Match(doc, p) \in Nat /\ Match(doc, p) > p
           /\ Match(doc, p) <= Len(doc) /\ Match(doc, p) \in Closes(doc)
<1>1. doc \in Docs /\ p \in DOMAIN doc /\ p \in 1 .. Len(doc)
    BY ReadyTokens, Brackets
<1>2. doc[p] \notin {"}", "]", ","}
    BY <1>1, Lexeme
<1>3. PICK k \in DOMAIN tokens : tokens[k].at = p
    BY <1>1, <1>2, TokenAt
<1>4. IsBracket(k)
    BY <1>3, Kinds
<1>5. Match(doc, p) <= Len(doc)
    BY ReadyBalanced
<1> QED
    BY <1>1, <1>3, <1>4, <1>5, MatchFacts

LEMMA InnerFacts ==
    ASSUME Ready, NEW k \in DOMAIN tokens
    PROVE  /\ Inner(k) \subseteq DOMAIN tokens /\ IsFiniteSet(Inner(k))
           /\ Cardinality(Inner(k)) = tokens[k].size
           /\ \A j \in Inner(k) :
                 /\ j \in DOMAIN tokens /\ k < j
                 /\ IsBracket(k) /\ tokens[k].at \in Opens(doc)
                 /\ tokens[k].at < tokens[j].at
                 /\ tokens[j].at < Match(doc, tokens[k].at)
<1>1. Inner(k) \subseteq DOMAIN tokens
    BY DEF Inner
<1>2. IsFiniteSet(Inner(k))
    <2>1. IsFiniteSet(1 .. Len(tokens))
        <3>1. 1 \in Int /\ Len(tokens) \in Int
            BY ReadyTokens
        <3> QED
            BY <3>1, FS_Interval
    <2> QED
        BY <1>1, <2>1, ReadyTokens, FS_Subset
<1>3. Cardinality(Inner(k)) = tokens[k].size
    BY DEF Ready, Reading, Scan, Counted
<1>4. ASSUME NEW j \in Inner(k)
      PROVE  /\ j \in DOMAIN tokens /\ k < j
             /\ IsBracket(k) /\ tokens[k].at \in Opens(doc)
             /\ tokens[k].at < tokens[j].at
             /\ tokens[j].at < Match(doc, tokens[k].at)
    <2>1. /\ j \in DOMAIN tokens /\ Around(doc, tokens[j].at) = tokens[k].at
          /\ tokens[j].at \in Nat \ {0} /\ tokens[k].at \in Nat \ {0} /\ doc \in Docs
        BY ReadyTokens DEF Inner
    <2>2. /\ tokens[k].at \in Opens(doc) /\ tokens[k].at < tokens[j].at
          /\ Match(doc, tokens[k].at) > tokens[j].at
        BY <2>1, AroundIs
    <2>3. Match(doc, tokens[k].at) \in Nat
        BY <2>2, BracketToken
    <2>4. tokens[j].at < Match(doc, tokens[k].at)
        BY <2>1, <2>2, <2>3
    <2>5. k < j
        BY <2>1, <2>2, ReadyTokens
    <2>6. IsBracket(k)
        BY <2>2, Kinds
    <2> QED
        BY <2>1, <2>2, <2>4, <2>5, <2>6
<1> QED
    BY <1>1, <1>2, <1>3, <1>4

(* No token is directly in two others. *)
LEMMA InnerOne ==
    ASSUME Ready, NEW k \in DOMAIN tokens, NEW l \in DOMAIN tokens,
           NEW j \in Inner(k), j \in Inner(l)
    PROVE  k = l
<1>1. tokens[k].at = tokens[l].at
    BY DEF Inner
<1> QED
    BY <1>1, ReadyTokens

(* A token between a bracket and something in it is in that bracket, or in *)
(* one that opens between.                                                 *)
LEMMA Nest ==
    ASSUME Ready, NEW k \in DOMAIN tokens, NEW j \in Nat, NEW m \in DOMAIN tokens,
           IsBracket(k), tokens[m].at < Match(doc, tokens[k].at), k < j, j <= m
    PROVE  /\ j \in DOMAIN tokens
           /\ \E l \in DOMAIN tokens : k <= l /\ l < j /\ j \in Inner(l)
<1>1. /\ j \in DOMAIN tokens /\ doc \in Docs /\ tokens[j].at \in Nat \ {0}
      /\ tokens[k].at \in Nat \ {0} /\ tokens[m].at \in Nat
    BY ReadyTokens
<1>2. /\ tokens[k].at < tokens[j].at /\ tokens[j].at <= tokens[m].at
      /\ tokens[k].at \in Opens(doc)
    BY <1>1, ReadyTokens, Kinds
<1>3. Match(doc, tokens[k].at) \in Nat
    BY <1>2, BracketToken
<1>4. Match(doc, tokens[k].at) > tokens[j].at
    BY <1>1, <1>2, <1>3
<1> DEFINE a == Around(doc, tokens[j].at)
<1>5. /\ a \in Nat /\ a < tokens[j].at /\ tokens[k].at <= a /\ a \in Opens(doc)
    <2>1. tokens[k].at <= a /\ a \in Nat /\ a < tokens[j].at /\ (a # 0 => a \in Opens(doc))
        BY <1>1, <1>2, <1>4, AroundIs
    <2> HIDE DEF a
    <2> QED
        BY <1>1, <2>1
<1>6. PICK l \in DOMAIN tokens : tokens[l].at = a
    BY <1>5, BracketToken
<1>7. k <= l /\ l < j
    BY <1>1, <1>5, <1>6, ReadyTokens
<1>8. j \in Inner(l)
    BY <1>1, <1>6 DEF Inner
<1> QED
    BY <1>1, <1>7, <1>8

(* What is in a bracket inside another is inside the other. *)
LEMMA InsideMatch ==
    ASSUME Ready, NEW r \in DOMAIN tokens, IsBracket(r), NEW k \in DOMAIN tokens, r <= k,
           tokens[k].at < Match(doc, tokens[r].at), NEW j \in Inner(k)
    PROVE  tokens[j].at < Match(doc, tokens[r].at)
<1>1. /\ doc \in Docs /\ j \in DOMAIN tokens /\ tokens[k].at \in Opens(doc)
      /\ tokens[r].at \in Opens(doc)
      /\ tokens[j].at < Match(doc, tokens[k].at)
    BY InnerFacts, ReadyTokens, Kinds
<1>2. /\ Match(doc, tokens[k].at) \in Nat /\ Match(doc, tokens[r].at) \in Nat
      /\ Match(doc, tokens[r].at) <= Len(doc) /\ tokens[j].at \in Nat
    BY <1>1, BracketToken, ReadyTokens
<1>3. CASE r = k
    BY <1>1, <1>3
<1>4. CASE r # k
    <2>1. tokens[r].at < tokens[k].at
        BY <1>4, ReadyTokens
    <2>2. Match(doc, tokens[k].at) < Match(doc, tokens[r].at)
        BY <1>1, <1>2, <2>1, Nested
    <2> QED
        BY <1>1, <1>2, <2>2
<1> QED
    BY <1>3, <1>4

(* An array of data: its elements are the tokens that follow it. *)
LEMMA ElementsFollow ==
    ASSUME Ready, NEW v \in DOMAIN tokens,
           \A k \in Inner(v) : k <= v + tokens[v].size => IsLeaf(k)
    PROVE  /\ Inner(v) = v + 1 .. v + tokens[v].size
           /\ v + tokens[v].size <= Len(tokens)
<1> DEFINE n == tokens[v].size
           P == v + 1 .. v + n
           S == {j \in P : j \notin Inner(v)}
<1>1. /\ v \in Nat \ {0} /\ n \in Nat /\ IsFiniteSet(Inner(v)) /\ Cardinality(Inner(v)) = n
      /\ Inner(v) \subseteq DOMAIN tokens /\ \A j \in Inner(v) : j \in Nat /\ v < j
      /\ DOMAIN tokens = 1 .. Len(tokens) /\ Len(tokens) \in Nat
    BY ReadyTokens, InnerFacts
<1>2. v + 1 \in Int /\ v + n \in Int
    BY <1>1
<1> HIDE DEF n
<1>3. IsFiniteSet(P) /\ Cardinality(P) = n
    <2>1. IsFiniteSet(P) /\ Cardinality(P) = IF v + 1 > v + n THEN 0 ELSE (v + n) - (v + 1) + 1
        BY <1>2, FS_Interval
    <2> HIDE DEF P
    <2> QED
        BY <1>1, <2>1
<1>4. CASE S # {}
    <2> DEFINE j == Min(S)
               Q == v + 1 .. j - 1
    <2>1. j \in S /\ \A x \in S : j <= x
        <3>1. S \in SUBSET Nat
            BY <1>1
        <3> HIDE DEF S
        <3> QED
            BY <1>4, <3>1, MinExists
    <2>2. /\ j \in Nat /\ v < j /\ j <= v + n /\ j \notin Inner(v)
          /\ \A x \in v + 1 .. v + n : x < j => x \in Inner(v)
        <3>1. \A x \in P : x \in Nat /\ v < x /\ x <= v + n
            BY <1>1
        <3>2. j \in P /\ j \notin Inner(v) /\ \A x \in P : x \notin Inner(v) => j <= x
            BY <2>1
        <3> HIDE DEF j
        <3> QED
            BY <3>1, <3>2
    <2> HIDE DEF j, S
    <2>3. Q \subseteq Inner(v) /\ IsFiniteSet(Q) /\ Cardinality(Q) < n
        <3>1. \A x \in Q : x \in v + 1 .. v + n /\ x < j
            BY <1>1, <2>2
        <3>2. v + 1 \in Int /\ j - 1 \in Int
            BY <1>1, <2>2
        <3>3. IsFiniteSet(Q) /\ Cardinality(Q) = IF v + 1 > j - 1 THEN 0 ELSE (j - 1) - (v + 1) + 1
            BY <3>2, FS_Interval
        <3>4. Cardinality(Q) < n
            <4> HIDE DEF Q
            <4> QED
                BY <1>1, <2>2, <3>3
        <3> QED
            BY <2>2, <3>1, <3>3, <3>4
    <2>4. PICK x \in Inner(v) : x \notin Q
        <3>1. Inner(v) # Q
            BY <1>1, <2>3
        <3> QED
            BY <2>3, <3>1
    <2>5. j <= x
        BY <1>1, <2>2, <2>4
    <2>6. PICK l \in DOMAIN tokens : v <= l /\ l < j /\ j \in Inner(l)
        <3>1. /\ IsBracket(v) /\ x \in DOMAIN tokens
              /\ tokens[x].at < Match(doc, tokens[v].at)
            BY <2>4, InnerFacts
        <3> QED
            BY <2>2, <2>5, <3>1, Nest
    <2>7. l # v
        BY <2>2, <2>6
    <2>8. l \in Inner(v) /\ l <= v + n
        <3>1. l \in Nat
            BY <1>1
        <3>2. l \in v + 1 .. v + n /\ l <= v + n
            BY <1>1, <2>2, <2>6, <2>7, <3>1
        <3> QED
            BY <2>2, <2>6, <3>2
    <2>9. IsLeaf(l) /\ IsBracket(l)
        BY <2>6, <2>8, InnerFacts DEF n
    <2> QED
        BY <2>9 DEF IsLeaf, IsBracket
<1>5. CASE S = {}
    <2>1. P \subseteq Inner(v)
        BY <1>5
    <2>2. P = Inner(v)
        BY <1>1, <1>3, <2>1, FS_Subset
    <2>3. v + n <= Len(tokens)
        <3>1. CASE n = 0
            BY <1>1, <3>1
        <3>2. CASE n # 0
            <4>1. v + n \in P
                BY <1>1, <3>2
            <4> HIDE DEF P
            <4>2. v + n \in DOMAIN tokens
                BY <1>1, <2>2, <4>1
            <4> QED
                BY <1>1, <4>2
        <3> QED
            BY <3>1, <3>2
    <2> QED
        BY <2>2, <2>3 DEF n
<1> QED
    BY <1>4, <1>5

-----------------------------------------------------------------------------
(***************************************************************************)
(* The format in terms of tokens: tokens and the positions they stand for  *)
(* are counted alike.                                                      *)
(***************************************************************************)
At(M) == {tokens[x].at : x \in M}

LEMMA AtCard ==
    ASSUME Ready, NEW M \in SUBSET DOMAIN tokens
    PROVE  /\ IsFiniteSet(M) /\ Cardinality(M) \in Nat
           /\ IsFiniteSet(At(M)) /\ Cardinality(At(M)) = Cardinality(M)
<1> DEFINE f == [x \in M |-> tokens[x].at]
<1>1. IsFiniteSet(M)
    <2>1. DOMAIN tokens = 1 .. Len(tokens) /\ 1 \in Int /\ Len(tokens) \in Int
        BY ReadyTokens
    <2>2. IsFiniteSet(DOMAIN tokens)
        BY <2>1, FS_Interval
    <2> QED
        BY <2>2, FS_Subset
<1>2. f \in [M -> At(M)] /\ \A a \in At(M) : \E x \in M : f[x] = a
    BY DEF At
<1>3. IsInjective(f)
    BY ReadyTokens DEF IsInjective
<1>4. f \in Bijection(M, At(M))
    BY <1>2, <1>3 DEF Bijection, Injection, Surjection
<1>5. ExistsBijection(M, At(M))
    BY <1>4 DEF ExistsBijection
<1> QED
    BY <1>1, <1>5, FS_Bijection, FS_CardinalityType

LEMMA AtPlace ==
    ASSUME Ready, NEW M \in SUBSET DOMAIN tokens, NEW k \in DOMAIN tokens
    PROVE  Place(At(M), tokens[k].at) = Cardinality({x \in M : x <= k})
<1> DEFINE upto == {x \in M : x <= k}
<1>1. {q \in At(M) : q <= tokens[k].at} = At(upto)
    BY ReadyTokens DEF At
<1>2. upto \in SUBSET DOMAIN tokens
    OBVIOUS
<1> HIDE DEF upto
<1> QED
    BY <1>1, <1>2, AtCard DEF Place, upto

LEMMA InsideIs ==
    ASSUME Ready, NEW k \in DOMAIN tokens
    PROVE  Inside(doc, tokens[k].at) = At(Inner(k))
<1>1. ASSUME NEW q \in Inside(doc, tokens[k].at)
      PROVE  q \in At(Inner(k))
    <2>1. q \in DOMAIN doc /\ doc[q] \notin {"}", "]", ","} /\ Around(doc, q) = tokens[k].at
        BY DEF Inside
    <2>2. PICK x \in DOMAIN tokens : tokens[x].at = q
        BY <2>1, TokenAt
    <2>3. x \in Inner(k)
        BY <2>1, <2>2 DEF Inner
    <2> QED
        BY <2>2, <2>3 DEF At
<1>2. ASSUME NEW x \in Inner(k)
      PROVE  tokens[x].at \in Inside(doc, tokens[k].at)
    <2>1. x \in DOMAIN tokens /\ Around(doc, tokens[x].at) = tokens[k].at
        BY DEF Inner
    <2>2. tokens[x].at \in DOMAIN doc /\ doc[tokens[x].at] \notin {"}", "]", ","}
        BY <2>1, ReadyTokens, Kinds
    <2> QED
        BY <2>1, <2>2 DEF Inside
<1>3. At(Inner(k)) \subseteq Inside(doc, tokens[k].at)
    BY <1>2 DEF At
<1> QED
    BY <1>1, <1>3

(* Keys and values take turns. *)
Upto(j, k) == {x \in Inner(j) : x <= k}

IsKey(j, k) == k \in Inner(j) /\ Cardinality(Upto(j, k)) % 2 = 1

LEMMA KeysAre ==
    ASSUME Ready, NEW j \in DOMAIN tokens
    PROVE  /\ \A k \in DOMAIN tokens : tokens[k].at \in Keys(doc, tokens[j].at) <=> IsKey(j, k)
           /\ \A q \in Keys(doc, tokens[j].at) : \E k \in Inner(j) : q = tokens[k].at
<1>1. Inside(doc, tokens[j].at) = At(Inner(j)) /\ Inner(j) \in SUBSET DOMAIN tokens
    BY InsideIs DEF Inner
<1>2. ASSUME NEW k \in DOMAIN tokens
      PROVE  tokens[k].at \in At(Inner(j)) <=> k \in Inner(j)
    BY <1>1, ReadyTokens DEF At
<1>3. ASSUME NEW k \in DOMAIN tokens
      PROVE  Place(At(Inner(j)), tokens[k].at) = Cardinality(Upto(j, k))
    BY <1>1, AtPlace DEF Upto
<1>4. \A k \in DOMAIN tokens : tokens[k].at \in Keys(doc, tokens[j].at) <=> IsKey(j, k)
    BY <1>1, <1>2, <1>3 DEF Keys, IsKey
<1>5. \A q \in Keys(doc, tokens[j].at) : \E k \in Inner(j) : q = tokens[k].at
    BY <1>1 DEF Keys, At
<1> QED
    BY <1>4, <1>5

LEMMA MinIs ==
    ASSUME NEW S \in SUBSET Int, NEW x \in S, \A y \in S : x <= y
    PROVE  Min(S) = x
<1> DEFINE m == Min(S)
<1>1. m \in S /\ \A y \in S : m <= y
    BY Zenon DEF Min
<1>2. m \in Int /\ x \in Int /\ m <= x /\ x <= m
    BY <1>1
<1> QED
    BY <1>2

LEMMA ValueIs ==
    ASSUME Ready, NEW j \in DOMAIN tokens, NEW k \in Inner(j), k + 1 \in Inner(j)
    PROVE  ValueOf(doc, tokens[j].at, tokens[k].at) = tokens[k + 1].at
<1> DEFINE S == {q \in Inside(doc, tokens[j].at) : q > tokens[k].at}
           v == tokens[k + 1].at
<1>1. k \in DOMAIN tokens /\ k + 1 \in DOMAIN tokens /\ k \in Nat
    BY ReadyTokens DEF Inner
<1>2. v \in Nat /\ tokens[k].at < v /\ tokens[k].at \in Nat
    BY <1>1, ReadyTokens
<1>3. v \in S
    BY <1>2, InsideIs DEF At
<1>4. ASSUME NEW q \in S
      PROVE  q \in Nat /\ v <= q
    <2>1. PICK x \in Inner(j) : q = tokens[x].at /\ q > tokens[k].at
        BY InsideIs DEF At
    <2>2. x \in DOMAIN tokens /\ x \in Nat /\ q \in Nat
        BY <2>1, ReadyTokens DEF Inner
    <2>3. k < x
        BY <1>1, <1>2, <2>1, <2>2, ReadyTokens
    <2>4. k + 1 <= x
        BY <1>1, <2>2, <2>3
    <2> QED
        BY <1>1, <2>1, <2>2, <2>4, ReadyTokens
<1> HIDE DEF S, v
<1>5. S \in SUBSET Int
    BY <1>4
<1>6. Min(S) = v
    BY <1>3, <1>4, <1>5, MinIs
<1> QED
    BY <1>6 DEF ValueOf, S, v

(* The first token is the root. *)
LEMMA RootIs ==
    ASSUME Ready
    PROVE  /\ Inside(doc, 0) = {} <=> tokens = <<>>
           /\ tokens # <<>> => 1 \in DOMAIN tokens /\ Root(doc) = tokens[1].at
<1> DEFINE S == Inside(doc, 0)
<1>1. ASSUME NEW q \in S
      PROVE  \E k \in DOMAIN tokens : tokens[k].at = q
    BY TokenAt DEF Inside
<1>2. CASE tokens = <<>>
    BY <1>1, <1>2
<1>3. CASE tokens # <<>>
    <2> DEFINE r == tokens[1].at
    <2>1. 1 \in DOMAIN tokens /\ r \in Nat \ {0} /\ doc \in Docs /\ r \in DOMAIN doc
        BY <1>3, ReadyTokens
    <2>2. Around(doc, r) = 0
        <3>1. SUFFICES ASSUME Around(doc, r) # 0
                       PROVE  FALSE
            OBVIOUS
        <3>2. Around(doc, r) \in Opens(doc) /\ Around(doc, r) < r
            BY <2>1, <3>1, AroundIs
        <3>3. PICK k \in DOMAIN tokens : tokens[k].at = Around(doc, r)
            BY <3>2, BracketToken
        <3>4. k < 1
            BY <2>1, <3>2, <3>3, ReadyTokens
        <3> QED
            BY <3>4, ReadyTokens
    <2>3. r \in S
        BY <2>1, <2>2, Kinds DEF Inside
    <2>4. ASSUME NEW q \in S
          PROVE  q \in Nat /\ r <= q
        <3>1. PICK k \in DOMAIN tokens : tokens[k].at = q
            BY <1>1
        <3>2. k \in Nat \ {0} /\ q \in Nat
            BY <3>1, ReadyTokens
        <3>3. 1 <= k
            BY <3>2
        <3> QED
            BY <2>1, <3>1, <3>2, <3>3, ReadyTokens
    <2> HIDE DEF r, S
    <2>5. S \in SUBSET Int
        BY <2>4
    <2>6. Min(S) = r
        BY <2>3, <2>4, <2>5, MinIs
    <2> QED
        BY <1>3, <2>1, <2>3, <2>6 DEF Root, r, S
<1> QED
    BY <1>2, <1>3

(* The objects are the object tokens up to the end of the root. *)
Rooted(k) == tokens[k].at < Match(doc, tokens[1].at)

ObjectTokens == {k \in DOMAIN tokens : IsObject(k) /\ Rooted(k)}

LEMMA ObjectsAre ==
    ASSUME Ready, 1 \in DOMAIN tokens
    PROVE  Objects(doc) = At(ObjectTokens)
<1>1. Root(doc) = tokens[1].at
    BY RootIs
<1>2. ASSUME NEW p \in Objects(doc)
      PROVE  p \in At(ObjectTokens)
    <2>1. p \in Opens(doc) /\ doc[p] = "{" /\ p < Match(doc, tokens[1].at)
        BY <1>1 DEF Objects
    <2>2. PICK k \in DOMAIN tokens : tokens[k].at = p
        BY <2>1, BracketToken
    <2> QED
        BY <2>1, <2>2, Kinds DEF At, ObjectTokens, IsObject, Rooted
<1>3. ASSUME NEW k \in ObjectTokens
      PROVE  tokens[k].at \in Objects(doc)
    <2>1. k \in DOMAIN tokens /\ IsObject(k) /\ tokens[k].at < Match(doc, tokens[1].at)
        BY DEF ObjectTokens, Rooted
    <2>2. tokens[k].at \in Opens(doc) /\ doc[tokens[k].at] = "{"
        BY <2>1, Kinds DEF IsObject, IsBracket
    <2>3. tokens[1].at <= tokens[k].at
        <3>1. 1 <= k
            BY <2>1, ReadyTokens
        <3> QED
            BY <2>1, <3>1, ReadyTokens
    <2> QED
        BY <1>1, <2>1, <2>2, <2>3 DEF Objects
<1>4. At(ObjectTokens) \subseteq Objects(doc)
    BY <1>3 DEF At
<1> QED
    BY <1>2, <1>4

(* A document with a key that has no value. *)
HasOdd == \E p \in Objects(doc) : Cardinality(Inside(doc, p)) % 2 = 1

LEMMA InsideCard ==
    ASSUME Ready, NEW k \in DOMAIN tokens
    PROVE  Cardinality(Inside(doc, tokens[k].at)) = tokens[k].size
<1>1. Inner(k) \in SUBSET DOMAIN tokens /\ Cardinality(Inner(k)) = tokens[k].size
    BY InnerFacts
<1> QED
    BY <1>1, InsideIs, AtCard

LEMMA OddObject ==
    ASSUME Ready, 1 \in DOMAIN tokens, NEW k \in DOMAIN tokens, IsObject(k), Rooted(k),
           tokens[k].size % 2 = 1
    PROVE  HasOdd
<1>1. tokens[k].at \in Objects(doc)
    BY ObjectsAre DEF ObjectTokens, At
<1> QED
    BY <1>1, InsideCard DEF HasOdd

LEMMA OddMalformed ==
    ASSUME HasOdd
    PROVE  ~WellFormed(doc)
<1>1. PICK p \in Objects(doc) : Cardinality(Inside(doc, p)) % 2 = 1
    BY DEF HasOdd
<1>2. ~(Cardinality(Inside(doc, p)) % 2 = 0)
    BY <1>1
<1> QED
    BY <1>2 DEF WellFormed, GoodObject

-----------------------------------------------------------------------------
(***************************************************************************)
(* The invariant of the builder.  Its calls are in brackets that contain   *)
(* each other, b[m] that of call m.  What a call has left to take is what  *)
(* is ahead of the token n the builder is at, so that the innermost call   *)
(* is always at something in its own bracket.  The invariant is about      *)
(* frames f and a token n, to be used of a state and of the next.          *)
(***************************************************************************)
Frame == [call : {"build_node", "walk_children"}, node : Nat, nested : Int]

IsNode(frame) == frame.call = "build_node"

(* The tokens in token k that are still to be looked at. *)
Ahead(k, n) == {x \in Inner(k) : x >= n}

Stack(f, n, b) ==
    /\ f # <<>> /\ b \in [DOMAIN f -> DOMAIN tokens]
    /\ b[1] = 1
    /\ \A m \in DOMAIN f : b[m] < n
    /\ \A l, m \in DOMAIN f : l < m => b[l] < b[m]
    /\ \A m \in DOMAIN f : m # 1 => b[m] \in Inner(b[m - 1])
    /\ \A m \in DOMAIN f : type(b[m]) = IF IsNode(f[m]) THEN "object" ELSE "array"
    /\ IsNode(f[1]) /\ \A m \in DOMAIN f : m # 1 => (IsNode(f[m]) <=> ~IsNode(f[m - 1]))

Counting(f, n, b) ==
    /\ \A m \in DOMAIN f : f[m].nested = Cardinality(Ahead(b[m], n))
    /\ \A j \in DOMAIN tokens : j < n /\ (\A m \in DOMAIN f : b[m] # j) => Ahead(j, n) = {}

(* walk_children is in the value of a children token. *)
Keyed(f, b) ==
    \A m \in DOMAIN f : ~IsNode(f[m]) => IsKey(b[m - 1], b[m] - 1) /\ type(b[m] - 1) = "children"

Walk(f, n, b) == Stack(f, n, b) /\ Counting(f, n, b) /\ Keyed(f, b)

(* The objects passed are well-formed as far as they have been read. *)
GoodSoFar(j, k, n) ==
    /\ k + 1 \in Inner(j) /\ k + 1 < n
    /\ \/ type(k) = "string" /\ IsLeaf(k + 1)
       \/ /\ type(k) = "string" /\ type(k + 1) = "array"
          /\ Inner(k + 1) = k + 2 .. k + 1 + tokens[k + 1].size
          /\ \A e \in Inner(k + 1) : IsLeaf(e)
       \/ /\ type(k) = "children" /\ type(k + 1) = "array"
          /\ \A e \in Inner(k + 1) : e < n => IsObject(e)

Seen(n) ==
    \A j \in DOMAIN tokens : j < n =>
        /\ Rooted(j)
        /\ IsObject(j) =>
              /\ tokens[j].size % 2 = 0
              /\ \A k \in Inner(j) : k < n /\ IsKey(j, k) => GoodSoFar(j, k, n)

-----------------------------------------------------------------------------
LEMMA InnerSubset ==
    ASSUME Ready, NEW k \in DOMAIN tokens, NEW S \in SUBSET Inner(k)
    PROVE  IsFiniteSet(S) /\ Cardinality(S) \in Nat /\ (Cardinality(S) = 0 <=> S = {})
<1>1. IsFiniteSet(S)
    BY InnerFacts, FS_Subset
<1> QED
    BY <1>1, FS_CardinalityType, FS_EmptySet

LEMMA Parity ==
    ASSUME NEW a \in Nat, NEW b \in Nat
    PROVE  /\ a % 2 = 0 \/ a % 2 = 1
           /\ (a + 1) % 2 = 1 <=> a % 2 = 0
           /\ (a + 2) % 2 = 1 <=> a % 2 = 1
           /\ a % 2 = 0 /\ (a + b) % 2 = 0 => b % 2 = 0
           /\ a # 0 /\ a % 2 = 0 => a >= 2
OBVIOUS

LEMMA StackFacts ==
    ASSUME Ready, NEW f \in Seq(Frame), NEW n \in Nat \ {0}, NEW b, Stack(f, n, b)
    PROVE  /\ Len(f) \in Nat \ {0} /\ DOMAIN f = 1 .. Len(f) /\ Len(f) \in DOMAIN f
           /\ \A m \in DOMAIN f : /\ b[m] \in DOMAIN tokens /\ b[m] \in Nat \ {0} /\ b[m] < n
                                  /\ b[m] <= b[Len(f)]
                                  /\ IsBracket(b[m])
                                  /\ f[m] \in Frame
           /\ 1 \in DOMAIN tokens /\ IsObject(1)
<1>1. Len(f) \in Nat \ {0} /\ DOMAIN f = 1 .. Len(f) /\ Len(f) \in DOMAIN f /\ 1 \in DOMAIN f
    BY DEF Stack
<1>2. ASSUME NEW m \in DOMAIN f
      PROVE  /\ b[m] \in DOMAIN tokens /\ b[m] \in Nat \ {0} /\ b[m] < n
             /\ f[m] \in Frame
    BY ReadyTokens DEF Stack
<1>3. ASSUME NEW m \in DOMAIN f
      PROVE  b[m] <= b[Len(f)]
    <2>1. m < Len(f) \/ m = Len(f)
        BY <1>1
    <2>2. m < Len(f) => b[m] < b[Len(f)]
        BY <1>1 DEF Stack
    <2> QED
        BY <1>1, <1>2, <2>1, <2>2
<1>4. ASSUME NEW m \in DOMAIN f
      PROVE  IsBracket(b[m])
    BY DEF Stack, IsBracket
<1>5. 1 \in DOMAIN tokens /\ IsObject(1)
    BY <1>1, <1>2 DEF Stack, IsObject
<1> QED
    BY <1>1, <1>2, <1>3, <1>4, <1>5

(* What is ahead in the innermost bracket starts at the next token that no *)
(* bracket passed over contains.                                           *)
LEMMA NextInside ==
    ASSUME Ready, NEW f \in Seq(Frame), NEW n \in Nat \ {0}, NEW b, Walk(f, n, b),
           NEW j \in Nat, n <= j, NEW x \in Inner(b[Len(f)]), j <= x,
           \A k \in DOMAIN tokens : n <= k /\ k < j => ~IsBracket(k)
    PROVE  j \in Inner(b[Len(f)])
<1> DEFINE t == b[Len(f)]
<1>1. /\ t \in DOMAIN tokens /\ t \in Nat \ {0} /\ t < n /\ IsBracket(t)
      /\ Len(f) \in Nat /\ DOMAIN f = 1 .. Len(f)
      /\ \A m \in DOMAIN f : b[m] \in Nat
    BY StackFacts DEF Walk
<1>2. x \in DOMAIN tokens /\ tokens[x].at < Match(doc, tokens[t].at)
    BY <1>1, InnerFacts
<1>3. j \in DOMAIN tokens
    BY <1>1, <1>2, Nest
<1>4. PICK l \in DOMAIN tokens : t <= l /\ l < j /\ j \in Inner(l)
    BY <1>1, <1>2, Nest
<1>5. IsBracket(l)
    BY <1>4, InnerFacts
<1>6. l \in Nat /\ l < n
    <2>1. l \in Nat
        BY ReadyTokens
    <2> QED
        BY <1>4, <1>5, <2>1
<1>7. Ahead(l, n) # {}
    BY <1>4 DEF Ahead
<1>8. PICK m \in DOMAIN f : b[m] = l
    BY <1>6, <1>7 DEF Walk, Counting
<1>9. l <= t
    BY <1>8, StackFacts DEF Walk
<1>10. l = t
    BY <1>1, <1>4, <1>6, <1>9
<1> QED
    BY <1>4, <1>10

LEMMA NextToken ==
    ASSUME Ready, NEW f \in Seq(Frame), NEW n \in Nat \ {0}, NEW b, Walk(f, n, b),
           f[Len(f)].nested # 0
    PROVE  n \in Inner(b[Len(f)]) /\ n \in DOMAIN tokens
<1> DEFINE t == b[Len(f)]
<1>1. t \in DOMAIN tokens /\ Len(f) \in DOMAIN f
    BY StackFacts DEF Walk
<1>2. Ahead(t, n) # {}
    <2>1. Cardinality(Ahead(t, n)) # 0
        BY <1>1 DEF Walk, Counting
    <2> QED
        BY <2>1, FS_EmptySet
<1>3. PICK x \in Inner(t) : x >= n
    BY <1>2 DEF Ahead
<1>4. n <= x
    BY <1>1, <1>3, InnerFacts, ReadyTokens
<1>5. \A k \in DOMAIN tokens : ~(n <= k /\ k < n)
    BY ReadyTokens
<1>6. n \in Inner(t)
    BY <1>4, <1>5, NextInside
<1> QED
    BY <1>1, <1>6, InnerFacts

(* The builder looks at an object one entry at a time. *)
Before(j, n) == {x \in Inner(j) : x < n}

LEMMA BeforeEven ==
    ASSUME Ready, NEW n \in Nat \ {0}, Seen(n), NEW j \in DOMAIN tokens, j < n, IsObject(j)
    PROVE  Cardinality(Before(j, n)) % 2 = 0
<1> DEFINE B == Before(j, n)
           k == Max(B)
<1>1. /\ Inner(j) \subseteq DOMAIN tokens /\ \A x \in DOMAIN tokens : x \in Nat
      /\ IsFiniteSet(B) /\ Cardinality(B) \in Nat /\ (Cardinality(B) = 0 <=> B = {})
    BY InnerFacts, InnerSubset, ReadyTokens DEF Before
<1>2. SUFFICES ASSUME Cardinality(B) % 2 = 1
               PROVE  FALSE
    BY <1>1, Parity
<1>3. B # {}
    BY <1>1, <1>2
<1>4. B \in SUBSET (0 .. n)
    BY <1>1 DEF Before
<1>5. k \in B /\ \A y \in B : y <= k
    <2> HIDE DEF B
    <2> QED
        BY <1>3, <1>4, MaxExists
<1> HIDE DEF k
<1>6. k \in Inner(j) /\ k < n /\ k \in Nat
    BY <1>1, <1>5 DEF Before
<1>7. Upto(j, k) = B
    <2>1. \A x \in Inner(j) : x <= k => x < n
        BY <1>1, <1>6
    <2> QED
        BY <1>5, <2>1 DEF Upto, Before
<1>8. IsKey(j, k)
    BY <1>2, <1>6, <1>7 DEF IsKey
<1>9. k + 1 \in Inner(j) /\ k + 1 < n
    BY <1>6, <1>8 DEF Seen, GoodSoFar
<1>10. k + 1 <= k
    BY <1>5, <1>9 DEF Before
<1> QED
    BY <1>6, <1>10

(* build_node is at a key, with a value after it. *)
LEMMA AtKey ==
    ASSUME Ready, NEW f \in Seq(Frame), NEW n \in Nat \ {0}, NEW b, Walk(f, n, b), Seen(n),
           IsNode(f[Len(f)]), f[Len(f)].nested # 0
    PROVE  /\ n \in Inner(b[Len(f)]) /\ n \in DOMAIN tokens /\ IsKey(b[Len(f)], n)
           /\ ~IsBracket(n) =>
                 /\ n + 1 \in Inner(b[Len(f)]) /\ n + 1 \in DOMAIN tokens
                 /\ ~IsKey(b[Len(f)], n + 1)
                 /\ Cardinality(Ahead(b[Len(f)], n) \ {n, n + 1}) =
                       Cardinality(Ahead(b[Len(f)], n)) - 2
<1> DEFINE t == b[Len(f)]
           A == Ahead(t, n)
           B == Before(t, n)
<1>1. t \in DOMAIN tokens /\ Len(f) \in DOMAIN f /\ t < n
    BY StackFacts DEF Walk
<1>2. n \in Inner(t) /\ n \in DOMAIN tokens
    BY NextToken
<1>3. IsObject(t)
    BY <1>1 DEF Walk, Stack, IsObject
<1> HIDE DEF t
<1>4. /\ Inner(t) \subseteq DOMAIN tokens /\ \A x \in DOMAIN tokens : x \in Nat
      /\ IsFiniteSet(A) /\ Cardinality(A) \in Nat
      /\ IsFiniteSet(B) /\ Cardinality(B) \in Nat
    BY <1>1, InnerFacts, InnerSubset, ReadyTokens DEF Before, Ahead
<1>5. Cardinality(B) % 2 = 0
    BY <1>1, <1>3, BeforeEven
<1>6. Cardinality(A) % 2 = 0
    <2>1. A \cup B = Inner(t) /\ A \cap B = {}
        BY <1>4 DEF Before, Ahead
    <2>2. Cardinality(A \cup B) = Cardinality(A) + Cardinality(B)
        <3> HIDE DEF A, B
        <3>1. Cardinality(A \cup B) = Cardinality(A) + Cardinality(B) - Cardinality(A \cap B)
            BY <1>4, FS_Union
        <3>2. Cardinality(A \cap B) = 0
            BY <2>1, FS_EmptySet
        <3> QED
            BY <1>4, <3>1, <3>2
    <2>3. Cardinality(Inner(t)) % 2 = 0
        BY <1>1, <1>3, InnerFacts DEF Seen
    <2>4. (Cardinality(B) + Cardinality(A)) % 2 = 0
        <3>1. Cardinality(A \cup B) % 2 = 0
            BY <2>1, <2>3
        <3> HIDE DEF A, B
        <3> QED
            BY <1>4, <2>2, <3>1
    <2> QED
        BY <1>4, <1>5, <2>4, Parity
<1>7. IsKey(t, n)
    <2>1. Upto(t, n) = B \cup {n} /\ n \notin B
        BY <1>2, <1>4 DEF Upto, Before
    <2>2. Cardinality(Upto(t, n)) = Cardinality(B) + 1
        BY <1>4, <2>1, FS_AddElement
    <2> QED
        BY <1>2, <1>4, <1>5, <2>2, Parity DEF IsKey
<1>8. ASSUME ~IsBracket(n)
      PROVE  /\ n + 1 \in Inner(t) /\ n + 1 \in DOMAIN tokens
             /\ ~IsKey(t, n + 1)
             /\ Cardinality(A \ {n, n + 1}) = Cardinality(A) - 2
    <2>1. n \in A
        BY <1>2 DEF Ahead
    <2>2. PICK x \in A : x # n
        <3>1. A # {} /\ Cardinality(A) # 0
            BY <1>4, <2>1, FS_EmptySet
        <3>2. Cardinality(A) # 1
            BY <1>4, <1>6, <3>1, Parity
        <3>3. A # {n}
            BY <3>2, FS_Singleton
        <3> QED
            BY <2>1, <3>3
    <2>3. n + 1 \in Inner(t)
        <3>1. x \in Inner(t) /\ n + 1 <= x
            BY <1>4, <2>2 DEF Ahead
        <3>2. \A k \in DOMAIN tokens : n <= k /\ k < n + 1 => ~IsBracket(k)
            <4>1. \A k \in DOMAIN tokens : n <= k /\ k < n + 1 => k = n
                BY <1>4
            <4> QED
                BY <1>8, <4>1
        <3> QED
            BY <3>1, <3>2, NextInside DEF t
    <2>4. n + 1 \in DOMAIN tokens
        BY <1>4, <2>3
    <2>5. Upto(t, n + 1) = Upto(t, n) \cup {n + 1} /\ n + 1 \notin Upto(t, n)
        BY <1>4, <2>3 DEF Upto
    <2>6. ~IsKey(t, n + 1)
        <3>1. IsFiniteSet(Upto(t, n)) /\ Cardinality(Upto(t, n)) \in Nat
            BY <1>1, InnerSubset DEF Upto
        <3>2. Cardinality(Upto(t, n + 1)) = Cardinality(Upto(t, n)) + 1
            BY <2>5, <3>1, FS_AddElement
        <3>3. Cardinality(Upto(t, n)) % 2 # 0
            BY <1>7 DEF IsKey
        <3> QED
            BY <3>1, <3>2, <3>3, Parity DEF IsKey
    <2>7. Cardinality(A \ {n, n + 1}) = Cardinality(A) - 2
        <3>1. n + 1 \in A \ {n}
            BY <2>3 DEF Ahead
        <3>2. IsFiniteSet(A \ {n}) /\ Cardinality(A \ {n}) = Cardinality(A) - 1
            BY <1>4, <2>1, FS_RemoveElement
        <3>3. Cardinality((A \ {n}) \ {n + 1}) = Cardinality(A \ {n}) - 1
            BY <3>1, <3>2, FS_RemoveElement
        <3>4. A \ {n, n + 1} = (A \ {n}) \ {n + 1}
            OBVIOUS
        <3> HIDE DEF A
        <3>5. Cardinality(A \ {n, n + 1}) = Cardinality((A \ {n}) \ {n + 1})
            BY <3>4, Zenon
        <3> QED
            BY <1>4, <3>2, <3>3, <3>5
    <2> QED
        BY <2>3, <2>4, <2>6, <2>7
<1> QED
    BY <1>2, <1>7, <1>8 DEF t

-----------------------------------------------------------------------------
(***************************************************************************)
(* How the invariant moves on: from token n to token n2, with frames g     *)
(* after f.                                                                *)
(***************************************************************************)

(* The calls of f after the innermost has taken k of its count. *)
Taken(f, g, k) ==
    \A m \in DOMAIN f :
        /\ m \in DOMAIN g /\ g[m].call = f[m].call /\ g[m].node = f[m].node
        /\ g[m].nested = IF m = Len(f) THEN f[m].nested - k ELSE f[m].nested

(* Tokens passed are in the innermost bracket, or in ones passed with them.*)
Passed(f, n, n2, b) ==
    \A x \in DOMAIN tokens : n <= x /\ x < n2 =>
        \E l \in DOMAIN tokens : x \in Inner(l) /\ (l = b[Len(f)] \/ n <= l)

(* Brackets further out have the same tokens ahead, and those done with    *)
(* still none.                                                             *)
LEMMA Advance ==
    ASSUME Ready, NEW f \in Seq(Frame), NEW n \in Nat \ {0}, NEW b, Walk(f, n, b),
           NEW n2 \in Nat, n <= n2, Passed(f, n, n2, b)
    PROVE  /\ \A m \in DOMAIN f : m # Len(f) => Ahead(b[m], n2) = Ahead(b[m], n)
           /\ \A j \in DOMAIN tokens : j < n /\ (\A m \in DOMAIN f : b[m] # j) => Ahead(j, n2) = {}
<1>1. /\ Len(f) \in DOMAIN f /\ DOMAIN f = 1 .. Len(f) /\ Len(f) \in Nat
      /\ \A m \in DOMAIN f : b[m] \in DOMAIN tokens /\ b[m] \in Nat /\ b[m] < n
    BY StackFacts DEF Walk
<1>2. ASSUME NEW m \in DOMAIN f, m # Len(f)
      PROVE  Ahead(b[m], n2) = Ahead(b[m], n)
    <2>1. b[m] # b[Len(f)]
        <3>1. m < Len(f)
            BY <1>1, <1>2
        <3>2. b[m] < b[Len(f)]
            BY <1>1, <3>1 DEF Walk, Stack
        <3> QED
            BY <1>1, <3>2
    <2>2. ASSUME NEW x \in Inner(b[m])
          PROVE  x >= n2 <=> x >= n
        <3>1. x \in DOMAIN tokens /\ x \in Nat
            BY <1>1, InnerFacts, ReadyTokens
        <3>2. SUFFICES ASSUME n <= x, x < n2
                       PROVE  FALSE
            BY <3>1
        <3>3. PICK l \in DOMAIN tokens : x \in Inner(l) /\ (l = b[Len(f)] \/ n <= l)
            BY <3>1, <3>2 DEF Passed
        <3>4. l = b[m]
            BY <1>1, <3>3, InnerOne
        <3> QED
            BY <1>1, <2>1, <3>3, <3>4
    <2> QED
        BY <2>2 DEF Ahead
<1>3. ASSUME NEW j \in DOMAIN tokens, j < n, \A m \in DOMAIN f : b[m] # j
      PROVE  Ahead(j, n2) = {}
    <2>1. Ahead(j, n) = {}
        BY <1>3 DEF Walk, Counting
    <2>2. \A x \in Inner(j) : x >= n2 => x >= n
        BY InnerFacts, ReadyTokens
    <2> QED
        BY <2>1, <2>2 DEF Ahead
<1> QED
    BY <1>2, <1>3

LEMMA WalkKeeps ==
    ASSUME Ready, NEW f \in Seq(Frame), NEW n \in Nat \ {0}, NEW b, Walk(f, n, b),
           NEW n2 \in Nat, n <= n2, Passed(f, n, n2, b),
           NEW k \in Nat, NEW g \in Seq(Frame), Taken(f, g, k), DOMAIN g = DOMAIN f,
           Cardinality(Ahead(b[Len(f)], n2)) = Cardinality(Ahead(b[Len(f)], n)) - k,
           \A x \in DOMAIN tokens : n <= x /\ x < n2 => Ahead(x, n2) = {}
    PROVE  Walk(g, n2, b)
<1>1. /\ Len(f) \in DOMAIN f /\ DOMAIN f = 1 .. Len(f) /\ Len(f) \in Nat
      /\ \A m \in DOMAIN f : b[m] \in DOMAIN tokens /\ b[m] \in Nat /\ b[m] < n
      /\ \A m \in DOMAIN tokens : m \in Nat
    BY StackFacts, ReadyTokens DEF Walk
<1>2. g # <<>> /\ \A m \in DOMAIN f : IsNode(g[m]) <=> IsNode(f[m])
    BY <1>1 DEF Taken, IsNode
<1>3. \A m \in DOMAIN f : b[m] < n2
    BY <1>1
<1>4. Stack(g, n2, b)
    BY <1>2, <1>3 DEF Walk, Stack
<1>5. ASSUME NEW m \in DOMAIN f
      PROVE  g[m].nested = Cardinality(Ahead(b[m], n2))
    <2>1. f[m].nested = Cardinality(Ahead(b[m], n))
        BY DEF Walk, Counting
    <2>2. m # Len(f) => Ahead(b[m], n2) = Ahead(b[m], n)
        BY Advance
    <2> QED
        BY <2>1, <2>2 DEF Taken
<1>6. ASSUME NEW j \in DOMAIN tokens, j < n2, \A m \in DOMAIN f : b[m] # j
      PROVE  Ahead(j, n2) = {}
    <2>1. j < n \/ (n <= j /\ j < n2)
        BY <1>1, <1>6
    <2> QED
        BY <1>6, <2>1, Advance
<1>7. Counting(g, n2, b)
    BY <1>5, <1>6 DEF Counting
<1>8. Keyed(g, b)
    BY <1>2 DEF Walk, Keyed
<1> QED
    BY <1>4, <1>7, <1>8 DEF Walk

(* A call in a bracket that is the last token passed. *)
Pushed(f, b, x) == [m \in 1 .. Len(f) + 1 |-> IF m <= Len(f) THEN b[m] ELSE x]

LEMMA WalkPushes ==
    ASSUME Ready, NEW f \in Seq(Frame), NEW n \in Nat \ {0}, NEW b, Walk(f, n, b),
           NEW x \in Inner(b[Len(f)]), n <= x, Passed(f, n, x + 1, b),
           NEW k \in Nat, NEW g \in Seq(Frame), Taken(f, g, k), Len(g) = Len(f) + 1,
           Cardinality(Ahead(b[Len(f)], x + 1)) = Cardinality(Ahead(b[Len(f)], n)) - k,
           \A y \in DOMAIN tokens : n <= y /\ y < x => Ahead(y, x + 1) = {},
           g[Len(g)].nested = tokens[x].size,
           IsNode(g[Len(g)]) <=> ~IsNode(f[Len(f)]),
           type(x) = IF IsNode(g[Len(g)]) THEN "object" ELSE "array",
           ~IsNode(g[Len(g)]) => IsKey(b[Len(f)], x - 1) /\ type(x - 1) = "children"
    PROVE  Walk(g, x + 1, Pushed(f, b, x))
<1> DEFINE d == Len(f)
           c == Pushed(f, b, x)
           n2 == x + 1
<1>1. /\ d \in DOMAIN f /\ DOMAIN f = 1 .. d /\ d \in Nat \ {0}
      /\ \A m \in DOMAIN f : b[m] \in DOMAIN tokens /\ b[m] \in Nat /\ b[m] < n /\ b[m] <= b[d]
      /\ \A m \in DOMAIN tokens : m \in Nat
    BY StackFacts, ReadyTokens DEF Walk
<1>2. x \in DOMAIN tokens /\ x \in Nat /\ n2 \in Nat /\ n <= n2
    BY <1>1, InnerFacts
<1>3. DOMAIN g = 1 .. (d + 1)
    OBVIOUS
<1>4. \A m : m \in DOMAIN g <=> m \in DOMAIN f \/ m = d + 1
    BY <1>1, <1>3, OneMore
<1>5. /\ c \in [DOMAIN g -> DOMAIN tokens] /\ c[d + 1] = x
      /\ \A m \in DOMAIN f : c[m] = b[m] /\ m <= d /\ m # d + 1 /\ m \in Nat
    <2>1. \A m \in DOMAIN f : m <= d /\ m # d + 1 /\ m \in Nat
        BY <1>1
    <2>2. ~(d + 1 <= d)
        BY <1>1
    <2> QED
        BY <1>1, <1>2, <1>3, <1>4, <2>1, <2>2 DEF Pushed
<1>6. \A m \in DOMAIN f : IsNode(g[m]) <=> IsNode(f[m])
    BY DEF Taken, IsNode
<1> HIDE DEF c
<1>7. \A m \in DOMAIN g : c[m] < n2
    BY <1>1, <1>2, <1>4, <1>5
<1>8. \A l, m \in DOMAIN g : l < m => c[l] < c[m]
    <2> SUFFICES ASSUME NEW l \in DOMAIN g, NEW m \in DOMAIN g, l < m
                 PROVE  c[l] < c[m]
        OBVIOUS
    <2>1. l \in DOMAIN f
        BY <1>1, <1>3
    <2>2. CASE m \in DOMAIN f
        BY <1>5, <2>1, <2>2 DEF Walk, Stack
    <2>3. CASE m = d + 1
        BY <1>1, <1>2, <1>5, <2>1, <2>3
    <2> QED
        BY <1>4, <2>2, <2>3
<1>9. \A m \in DOMAIN f : m # 1 => m - 1 \in DOMAIN f
    BY <1>1
<1>10. (d + 1) - 1 = d /\ 1 \in DOMAIN f /\ d + 1 # 1
    BY <1>1
<1>11. \A m \in DOMAIN g : m # 1 => c[m] \in Inner(c[m - 1])
    <2> SUFFICES ASSUME NEW m \in DOMAIN g, m # 1
                 PROVE  c[m] \in Inner(c[m - 1])
        OBVIOUS
    <2>1. CASE m \in DOMAIN f
        BY <1>5, <1>9, <2>1 DEF Walk, Stack
    <2>2. CASE m = d + 1
        BY <1>1, <1>5, <1>10, <2>2
    <2> QED
        BY <1>4, <2>1, <2>2
<1>12. \A m \in DOMAIN g : type(c[m]) = IF IsNode(g[m]) THEN "object" ELSE "array"
    <2>1. \A m \in DOMAIN f : type(c[m]) = IF IsNode(g[m]) THEN "object" ELSE "array"
        BY <1>5, <1>6 DEF Walk, Stack
    <2> QED
        BY <1>4, <1>5, <2>1
<1>13. IsNode(g[1]) /\ \A m \in DOMAIN g : m # 1 => (IsNode(g[m]) <=> ~IsNode(g[m - 1]))
    <2>1. IsNode(g[1])
        BY <1>6, <1>10 DEF Walk, Stack
    <2>2. ASSUME NEW m \in DOMAIN g, m # 1
          PROVE  IsNode(g[m]) <=> ~IsNode(g[m - 1])
        <3>1. CASE m \in DOMAIN f
            BY <1>6, <1>9, <2>2, <3>1 DEF Walk, Stack
        <3>2. CASE m = d + 1
            BY <1>1, <1>6, <1>10, <3>2
        <3> QED
            BY <1>4, <3>1, <3>2
    <2> QED
        BY <2>1, <2>2
<1>14. Stack(g, n2, c)
    <2>1. g # <<>>
        BY <1>4, <1>10
    <2>2. c[1] = 1
        BY <1>5, <1>10 DEF Walk, Stack
    <2> QED
        BY <1>5, <1>7, <1>8, <1>11, <1>12, <1>13, <2>1, <2>2 DEF Stack
<1>15. ASSUME NEW m \in DOMAIN g
       PROVE  g[m].nested = Cardinality(Ahead(c[m], n2))
    <2>1. CASE m \in DOMAIN f
        <3>1. f[m].nested = Cardinality(Ahead(b[m], n))
            BY <2>1 DEF Walk, Counting
        <3>2. m # d => Ahead(b[m], n2) = Ahead(b[m], n)
            BY <1>2, <2>1, Advance
        <3> QED
            BY <1>5, <2>1, <3>1, <3>2 DEF Taken
    <2>2. CASE m = d + 1
        <3>1. \A y \in Inner(x) : y >= n2
            BY <1>1, <1>2, InnerFacts
        <3>2. Ahead(x, n2) = Inner(x)
            BY <3>1 DEF Ahead
        <3> QED
            BY <1>2, <1>5, <2>2, <3>2, InnerFacts
    <2> QED
        BY <1>4, <2>1, <2>2
<1>16. ASSUME NEW j \in DOMAIN tokens, j < n2, \A m \in DOMAIN g : c[m] # j
       PROVE  Ahead(j, n2) = {}
    <2>1. j # x /\ \A m \in DOMAIN f : b[m] # j
        BY <1>4, <1>5, <1>16
    <2>2. j < n \/ (n <= j /\ j < x)
        BY <1>1, <1>2, <1>16, <2>1
    <2> QED
        BY <1>2, <2>1, <2>2, Advance
<1>17. Counting(g, n2, c)
    BY <1>15, <1>16 DEF Counting
<1>18. Keyed(g, c)
    <2> SUFFICES ASSUME NEW m \in DOMAIN g, ~IsNode(g[m])
                 PROVE  IsKey(c[m - 1], c[m] - 1) /\ type(c[m] - 1) = "children"
        BY DEF Keyed
    <2>1. CASE m \in DOMAIN f
        <3>1. m # 1
            BY <1>13
        <3> QED
            BY <1>5, <1>6, <1>9, <2>1, <3>1 DEF Walk, Keyed
    <2>2. CASE m = d + 1
        BY <1>1, <1>5, <1>10, <2>2
    <2> QED
        BY <1>4, <2>1, <2>2
<1> QED
    BY <1>14, <1>17, <1>18 DEF Walk, c

(* The end of a call that has nothing left. *)
Popped(f, b) == [m \in 1 .. Len(f) - 1 |-> b[m]]

LEMMA WalkPops ==
    ASSUME Ready, NEW f \in Seq(Frame), NEW n \in Nat \ {0}, NEW b, Walk(f, n, b),
           NEW g \in Seq(Frame), Len(f) # 1, Len(g) = Len(f) - 1,
           \A m \in DOMAIN g : g[m] = f[m],
           f[Len(f)].nested = 0
    PROVE  Walk(g, n, Popped(f, b))
<1> DEFINE d == Len(f)
           c == Popped(f, b)
<1>1. /\ d \in DOMAIN f /\ DOMAIN f = 1 .. d /\ d \in Nat \ {0} /\ d # 1
      /\ \A m \in DOMAIN f : b[m] \in DOMAIN tokens
    BY StackFacts DEF Walk
<1>2. DOMAIN g = 1 .. (d - 1) /\ 1 \in DOMAIN g
    BY <1>1
<1>3. \A m \in DOMAIN g : m \in DOMAIN f /\ (m # 1 => m - 1 \in DOMAIN g) /\ m # d
    BY <1>1, <1>2
<1>4. \A m \in DOMAIN f : m \in DOMAIN g \/ m = d
    BY <1>1, <1>2
<1>5. c \in [DOMAIN g -> DOMAIN tokens] /\ \A m \in DOMAIN g : c[m] = b[m]
    BY <1>1, <1>2, <1>3 DEF Popped
<1> HIDE DEF c
<1>6. Stack(g, n, c)
    BY <1>2, <1>3, <1>5 DEF Walk, Stack
<1>7. Ahead(b[d], n) = {}
    <2>1. Cardinality(Ahead(b[d], n)) = 0
        BY <1>1 DEF Walk, Counting
    <2>2. Ahead(b[d], n) \in SUBSET Inner(b[d])
        BY DEF Ahead
    <2> QED
        BY <1>1, <2>1, <2>2, InnerSubset
<1>8. Counting(g, n, c)
    <2>1. \A m \in DOMAIN g : g[m].nested = Cardinality(Ahead(c[m], n))
        BY <1>3, <1>5 DEF Walk, Counting
    <2>2. ASSUME NEW j \in DOMAIN tokens, j < n, \A m \in DOMAIN g : c[m] # j
          PROVE  Ahead(j, n) = {}
        <3>1. CASE j = b[d]
            BY <1>7, <3>1
        <3>2. CASE j # b[d]
            <4>1. \A m \in DOMAIN f : b[m] # j
                BY <1>4, <1>5, <2>2, <3>2
            <4> QED
                BY <2>2, <4>1 DEF Walk, Counting
        <3> QED
            BY <3>1, <3>2
    <2> QED
        BY <2>1, <2>2 DEF Counting
<1>9. Keyed(g, c)
    <2> SUFFICES ASSUME NEW m \in DOMAIN g, ~IsNode(g[m])
                 PROVE  IsKey(c[m - 1], c[m] - 1) /\ type(c[m] - 1) = "children"
        BY DEF Keyed
    <2>1. m # 1
        BY <1>6 DEF Stack
    <2> QED
        BY <1>3, <1>5, <2>1 DEF Walk, Keyed
<1> QED
    BY <1>6, <1>8, <1>9 DEF Walk, c

LEMMA SeenOn ==
    ASSUME Ready, NEW f \in Seq(Frame), NEW n \in Nat \ {0}, NEW b, Walk(f, n, b), Seen(n),
           NEW n2 \in Nat, n <= n2, Passed(f, n, n2, b),
           \A x \in DOMAIN tokens : n <= x /\ x < n2 =>
              /\ Rooted(x)
              /\ IsObject(x) => tokens[x].size % 2 = 0 /\ x + 1 = n2
              /\ ~IsNode(f[Len(f)]) => IsObject(x)
              /\ IsNode(f[Len(f)]) /\ IsKey(b[Len(f)], x) => GoodSoFar(b[Len(f)], x, n2)
    PROVE  Seen(n2)
<1> DEFINE t == b[Len(f)]
<1>1. /\ Len(f) \in DOMAIN f /\ t \in DOMAIN tokens /\ t \in Nat /\ t < n
      /\ \A m \in DOMAIN tokens : m \in Nat
      /\ IsNode(f[Len(f)]) <=> IsObject(t)
    <2>1. Len(f) \in DOMAIN f /\ t \in DOMAIN tokens /\ t \in Nat /\ t < n
        BY StackFacts DEF Walk
    <2>2. type(t) = IF IsNode(f[Len(f)]) THEN "object" ELSE "array"
        BY <2>1 DEF Walk, Stack
    <2> QED
        BY <2>1, <2>2, ReadyTokens DEF IsObject
<1> HIDE DEF t
<1>2. ASSUME NEW x \in DOMAIN tokens, n <= x, x < n2, NEW a \in DOMAIN tokens, a < n,
             x \in Inner(a)
      PROVE  a = t
    <2>1. PICK l \in DOMAIN tokens : x \in Inner(l) /\ (l = t \/ n <= l)
        BY <1>2 DEF Passed, t
    <2>2. l = a
        BY <1>2, <2>1, InnerOne
    <2> QED
        BY <1>1, <1>2, <2>1, <2>2
<1>3. ASSUME NEW j \in DOMAIN tokens, NEW k \in Inner(j), GoodSoFar(j, k, n)
      PROVE  GoodSoFar(j, k, n2)
    <2>1. k + 1 \in Inner(j) /\ k + 1 < n /\ k + 1 \in DOMAIN tokens /\ k + 1 < n2
        BY <1>1, <1>3, InnerFacts DEF GoodSoFar
    <2>2. ASSUME type(k + 1) = "array", NEW e \in Inner(k + 1), e < n2,
                 e < n => IsObject(e)
          PROVE  IsObject(e)
        <3>1. e \in DOMAIN tokens
            BY <2>1, InnerFacts
        <3>2. CASE e < n
            BY <2>2, <3>2
        <3>3. CASE ~(e < n)
            <4>1. n <= e
                BY <1>1, <3>1, <3>3
            <4>2. k + 1 = t
                BY <1>2, <2>1, <2>2, <3>1, <4>1
            <4>3. ~IsNode(f[Len(f)])
                BY <1>1, <2>2, <4>2 DEF IsObject
            <4> QED
                BY <2>2, <3>1, <4>1, <4>3
        <3> QED
            BY <3>2, <3>3
    <2>3. CASE \/ type(k) = "string" /\ IsLeaf(k + 1)
               \/ /\ type(k) = "string" /\ type(k + 1) = "array"
                  /\ Inner(k + 1) = k + 2 .. k + 1 + tokens[k + 1].size
                  /\ \A e \in Inner(k + 1) : IsLeaf(e)
        BY <2>1, <2>3 DEF GoodSoFar
    <2>4. CASE /\ type(k) = "children" /\ type(k + 1) = "array"
               /\ \A e \in Inner(k + 1) : e < n => IsObject(e)
        BY <2>1, <2>2, <2>4 DEF GoodSoFar
    <2> QED
        BY <1>3, <2>3, <2>4 DEF GoodSoFar
<1>4. ASSUME NEW j \in DOMAIN tokens, j < n2
      PROVE  /\ Rooted(j)
             /\ IsObject(j) =>
                   /\ tokens[j].size % 2 = 0
                   /\ \A k \in Inner(j) : k < n2 /\ IsKey(j, k) => GoodSoFar(j, k, n2)
    <2>1. CASE j < n
        <3>1. /\ Rooted(j)
              /\ IsObject(j) => tokens[j].size % 2 = 0
            BY <2>1 DEF Seen
        <3>2. ASSUME IsObject(j), NEW k \in Inner(j), k < n2, IsKey(j, k)
              PROVE  GoodSoFar(j, k, n2)
            <4>1. k \in DOMAIN tokens
                BY InnerFacts
            <4>2. CASE k < n
                <5>1. GoodSoFar(j, k, n)
                    BY <2>1, <3>2, <4>2 DEF Seen
                <5> QED
                    BY <1>3, <5>1
            <4>3. CASE ~(k < n)
                <5>1. n <= k
                    BY <1>1, <4>1, <4>3
                <5>2. j = t
                    BY <1>2, <2>1, <3>2, <4>1, <5>1
                <5> QED
                    BY <1>1, <3>2, <4>1, <5>1, <5>2 DEF t
            <4> QED
                BY <4>2, <4>3
        <3> QED
            BY <3>1, <3>2
    <2>2. CASE ~(j < n)
        <3>1. n <= j
            BY <1>1, <2>2
        <3>2. Rooted(j) /\ (IsObject(j) => tokens[j].size % 2 = 0 /\ j + 1 = n2)
            BY <1>4, <3>1
        <3>3. IsObject(j) => \A k \in Inner(j) : ~(k < n2)
            BY <1>1, <3>2, InnerFacts
        <3> QED
            BY <3>2, <3>3
    <2> QED
        BY <2>1, <2>2
<1> QED
    BY <1>4 DEF Seen

-----------------------------------------------------------------------------
(***************************************************************************)
(* The tree: a node for each object, by its number among them.             *)
(***************************************************************************)
Rank(S, k) == Cardinality({x \in S : x <= k})

Below(S, n) == Cardinality({x \in S : x < n})

LEMMA RankFacts ==
    ASSUME Ready, NEW S \in SUBSET DOMAIN tokens, NEW n \in Nat
    PROVE  /\ Below(S, n) \in Nat
           /\ \A k \in S : k < n => Rank(S, k) \in 1 .. Below(S, n)
           /\ n \in S => Rank(S, n) = Below(S, n) + 1
           /\ \A j, k \in S : Rank(S, j) = Rank(S, k) => j = k
<1>1. /\ IsFiniteSet(S) /\ \A x \in S : x \in Nat
    BY AtCard, ReadyTokens
<1>2. ASSUME NEW T \in SUBSET S
      PROVE  IsFiniteSet(T) /\ Cardinality(T) \in Nat
    BY <1>1, FS_Subset, FS_CardinalityType
<1>3. Below(S, n) \in Nat
    BY <1>2 DEF Below
<1>4. ASSUME NEW j \in S, NEW k \in S, j < k
      PROVE  Rank(S, j) # Rank(S, k)
    <2> DEFINE J == {x \in S : x <= j}
               K == {x \in S : x <= k}
    <2>1. J \in SUBSET K /\ k \in K /\ k \notin J
        BY <1>1, <1>4
    <2>2. IsFiniteSet(K)
        BY <1>2
    <2> HIDE DEF J, K
    <2>3. Cardinality(K) # Cardinality(J)
        BY <2>1, <2>2, FS_Subset
    <2> QED
        BY <2>3 DEF Rank, J, K
<1>5. ASSUME NEW k \in S, k < n
      PROVE  Rank(S, k) \in 1 .. Below(S, n)
    <2> DEFINE K == {x \in S : x <= k}
               B == {x \in S : x < n}
    <2>1. K \in SUBSET B /\ k \in K
        BY <1>1, <1>5
    <2>2. IsFiniteSet(B) /\ IsFiniteSet(K) /\ Cardinality(B) \in Nat /\ Cardinality(K) \in Nat
        BY <1>2
    <2> HIDE DEF B, K
    <2>3. Cardinality(K) <= Cardinality(B) /\ Cardinality(K) # 0
        BY <2>1, <2>2, FS_Subset, FS_EmptySet
    <2>4. Cardinality(K) \in 1 .. Cardinality(B)
        BY <2>2, <2>3
    <2> QED
        BY <2>4 DEF Rank, Below, B, K
<1>6. ASSUME n \in S
      PROVE  Rank(S, n) = Below(S, n) + 1
    <2> DEFINE B == {x \in S : x < n}
    <2>1. {x \in S : x <= n} = B \cup {n} /\ n \notin B
        BY <1>1, <1>6
    <2>2. IsFiniteSet(B)
        BY <1>2
    <2> HIDE DEF B
    <2>3. Cardinality(B \cup {n}) = Cardinality(B) + 1
        BY <2>1, <2>2, FS_AddElement
    <2> QED
        BY <2>1, <2>3 DEF Rank, Below, B
<1>7. \A j, k \in S : Rank(S, j) = Rank(S, k) => j = k
    <2> SUFFICES ASSUME NEW j \in S, NEW k \in S, Rank(S, j) = Rank(S, k), j # k
                 PROVE  FALSE
        OBVIOUS
    <2>1. j < k \/ k < j
        BY <1>1
    <2> QED
        BY <1>4, <2>1
<1> QED
    BY <1>3, <1>5, <1>6, <1>7

(* Counting on, past none or one more of the set. *)
LEMMA BelowOn ==
    ASSUME Ready, NEW S \in SUBSET DOMAIN tokens, NEW n \in Nat, NEW n2 \in Nat, n <= n2
    PROVE  /\ (\A x \in S : ~(n <= x /\ x < n2)) => Below(S, n2) = Below(S, n)
           /\ n \in S /\ (\A x \in S : n <= x /\ x < n2 => x = n) /\ n < n2 =>
                 Below(S, n2) = Below(S, n) + 1
<1>1. \A x \in S : x \in Nat
    BY ReadyTokens
<1>2. ASSUME \A x \in S : ~(n <= x /\ x < n2)
      PROVE  Below(S, n2) = Below(S, n)
    <2>1. {x \in S : x < n2} = {x \in S : x < n}
        BY <1>1, <1>2
    <2> QED
        BY <2>1 DEF Below
<1>3. ASSUME n \in S, \A x \in S : n <= x /\ x < n2 => x = n, n < n2
      PROVE  Below(S, n2) = Below(S, n) + 1
    <2>1. {x \in S : x < n2} = {x \in S : x <= n}
        BY <1>1, <1>3
    <2>2. Below(S, n2) = Rank(S, n)
        BY <2>1 DEF Below, Rank
    <2> QED
        BY <1>3, <2>2, RankFacts
<1> QED
    BY <1>2, <1>3

-----------------------------------------------------------------------------
AllObjects == {k \in DOMAIN tokens : IsObject(k)}

Number(k) == Rank(AllObjects, k)

StringKeys(j) == {k \in Inner(j) : IsKey(j, k) /\ type(k) = "string"}

NewProperty(k) == [key |-> tokens[k].at, data |-> Data(k + 1)]

Property == [key : Nat, data : Seq(Nat)]

TreeNode == [parent : Nat, properties : Seq(Property)]

Grown(j, n, ns) ==
    /\ j = 1 => ns[Number(j)].parent = 0
    /\ j # 1 => \E a, g \in DOMAIN tokens :
          j \in Inner(a) /\ a \in Inner(g) /\ IsObject(g) /\ ns[Number(j)].parent = Number(g)
    /\ Len(ns[Number(j)].properties) = Below(StringKeys(j), n)
    /\ \A k \in StringKeys(j) : k < n =>
          ns[Number(j)].properties[Rank(StringKeys(j), k)] = NewProperty(k)

Nodes(f) == {m \in DOMAIN f : IsNode(f[m])}

Growing(f, n, ns, c, b) ==
    /\ Len(ns) = Below(AllObjects, n)
    /\ \A m \in DOMAIN f : f[m].node = Number(IF IsNode(f[m]) THEN b[m] ELSE b[m - 1])
    /\ \A j \in AllObjects : j < n => Grown(j, n, ns)
    /\ c + Cardinality(Nodes(f)) = Len(ns)

LEMMA GrowFacts ==
    ASSUME Ready
    PROVE  /\ AllObjects \in SUBSET DOMAIN tokens
           /\ \A j \in DOMAIN tokens : StringKeys(j) \in SUBSET DOMAIN tokens
           /\ \A x \in DOMAIN tokens : x \in Nat \ {0}
BY InnerFacts, ReadyTokens DEF AllObjects, StringKeys

(* A node whose properties are as they were. *)
LEMMA GrownStays ==
    ASSUME Ready, NEW j \in DOMAIN tokens, NEW n \in Nat, NEW n2 \in Nat, n <= n2,
           NEW ns, NEW ns2, ns2[Number(j)] = ns[Number(j)], Grown(j, n, ns),
           \A x \in StringKeys(j) : ~(n <= x /\ x < n2)
    PROVE  Grown(j, n2, ns2)
<1>1. Below(StringKeys(j), n2) = Below(StringKeys(j), n)
    BY GrowFacts, BelowOn
<1>2. \A k \in StringKeys(j) : k < n2 => k < n
    BY GrowFacts
<1> QED
    BY <1>1, <1>2 DEF Grown

(* The next string key has its property appended. *)
LEMMA GrownMore ==
    ASSUME Ready, NEW j \in DOMAIN tokens, NEW n \in Nat, NEW n2 \in Nat, n < n2,
           n \in StringKeys(j), \A x \in StringKeys(j) : n <= x /\ x < n2 => x = n,
           NEW ns, NEW ns2, Grown(j, n, ns),
           ns[Number(j)].properties \in Seq(Property),
           NewProperty(n) \in Property,
           ns2[Number(j)].parent = ns[Number(j)].parent,
           ns2[Number(j)].properties = Append(ns[Number(j)].properties, NewProperty(n))
    PROVE  Grown(j, n2, ns2)
<1> DEFINE S == StringKeys(j)
           ps == ns[Number(j)].properties
           ps2 == ns2[Number(j)].properties
           new == NewProperty(n)
<1>1. /\ S \in SUBSET DOMAIN tokens /\ \A x \in S : x \in Nat
    BY GrowFacts
<1>2. /\ Below(S, n2) = Below(S, n) + 1 /\ Below(S, n) \in Nat
      /\ Rank(S, n) = Below(S, n) + 1
      /\ \A k \in S : k < n => Rank(S, k) \in 1 .. Below(S, n)
    <2>1. n \in S /\ \A x \in S : n <= x /\ x < n2 => x = n
        OBVIOUS
    <2> HIDE DEF S
    <2>2. Below(S, n2) = Below(S, n) + 1
        BY <1>1, <2>1, BelowOn
    <2> QED
        BY <1>1, <2>1, <2>2, RankFacts
<1>3. Len(ps) = Below(S, n) /\ ps \in Seq(Property)
    BY DEF Grown
<1>4. ps2 = Append(ps, new)
    OBVIOUS
<1> HIDE DEF ps, ps2, new
<1>5. /\ Len(ps2) = Below(S, n) + 1 /\ ps2[Below(S, n) + 1] = new
      /\ \A r \in 1 .. Below(S, n) : ps2[r] = ps[r]
    BY <1>2, <1>3, <1>4
<1>6. ASSUME NEW k \in S, k < n2
      PROVE  ps2[Rank(S, k)] = NewProperty(k)
    <2>1. CASE k = n
        BY <1>2, <1>5, <2>1 DEF new
    <2>2. CASE k # n
        <3>1. k < n
            BY <1>1, <1>6, <2>2
        <3>2. ps[Rank(S, k)] = NewProperty(k)
            BY <1>6, <3>1 DEF Grown, ps
        <3> QED
            BY <1>2, <1>5, <3>1, <3>2
    <2> QED
        BY <2>1, <2>2
<1> QED
    BY <1>2, <1>5, <1>6 DEF Grown, ps2

LEMMA NodesFinite ==
    ASSUME NEW f \in Seq(Frame)
    PROVE  IsFiniteSet(Nodes(f)) /\ Cardinality(Nodes(f)) \in Nat
<1>1. 1 \in Int /\ Len(f) \in Int /\ DOMAIN f = 1 .. Len(f)
    OBVIOUS
<1>2. IsFiniteSet(DOMAIN f)
    BY <1>1, FS_Interval
<1> QED
    BY <1>2, FS_Subset, FS_CardinalityType DEF Nodes

LEMMA NumberFacts ==
    ASSUME Ready, NEW n \in Nat, NEW ns, Len(ns) = Below(AllObjects, n)
    PROVE  /\ Len(ns) \in Nat
           /\ \A j \in AllObjects : j < n => Number(j) \in 1 .. Len(ns)
           /\ n \in AllObjects => Number(n) = Len(ns) + 1
           /\ \A j, k \in AllObjects : Number(j) = Number(k) => j = k
<1>1. AllObjects \in SUBSET DOMAIN tokens
    BY GrowFacts
<1> QED
    BY <1>1, RankFacts DEF Number

(* The node of a call, whose frames have taken something. *)
LEMMA NodeOfFrame ==
    ASSUME Ready, NEW f \in Seq(Frame), NEW n \in Nat \ {0}, NEW b, Stack(f, n, b),
           NEW m \in DOMAIN f
    PROVE  LET j == IF IsNode(f[m]) THEN b[m] ELSE b[m - 1] IN j \in AllObjects /\ j < n
<1> DEFINE j == IF IsNode(f[m]) THEN b[m] ELSE b[m - 1]
<1>1. /\ DOMAIN f = 1 .. Len(f) /\ Len(f) \in Nat
      /\ \A l \in DOMAIN f : b[l] \in DOMAIN tokens /\ b[l] < n
    BY StackFacts
<1>2. CASE IsNode(f[m])
    BY <1>1, <1>2 DEF Stack, AllObjects, IsObject
<1>3. CASE ~IsNode(f[m])
    <2>1. m # 1 /\ IsNode(f[m - 1])
        BY <1>3 DEF Stack
    <2>2. m - 1 \in DOMAIN f
        BY <1>1, <2>1
    <2>3. type(b[m - 1]) = "object"
        BY <2>1, <2>2 DEF Stack
    <2> QED
        BY <1>1, <1>3, <2>2, <2>3 DEF AllObjects, IsObject
<1> QED
    BY <1>2, <1>3

LEMMA GrowProperty ==
    ASSUME Ready, NEW f \in Seq(Frame), NEW n \in Nat \ {0}, NEW b, Stack(f, n, b),
           NEW ns \in Seq(TreeNode), NEW c \in Nat, Growing(f, n, ns, c, b),
           NEW n2 \in Nat, n < n2, NEW k \in Nat, NEW g \in Seq(Frame),
           Taken(f, g, k), DOMAIN g = DOMAIN f, IsNode(f[Len(f)]),
           n \in StringKeys(b[Len(f)]), NewProperty(n) \in Property,
           \A x \in DOMAIN tokens : n <= x /\ x < n2 => ~IsObject(x),
           \A j \in DOMAIN tokens : \A x \in StringKeys(j) :
              j < n /\ n <= x /\ x < n2 => j = b[Len(f)] /\ x = n,
           NEW ns2, ns2 = [ns EXCEPT ![f[Len(f)].node].properties = Append(@, NewProperty(n))]
    PROVE  Growing(g, n2, ns2, c, b)
<1> DEFINE t == b[Len(f)]
           u == Number(t)
           new == NewProperty(n)
           node == [ns[u] EXCEPT !.properties = Append(@, new)]
<1>1. /\ Len(f) \in DOMAIN f /\ t \in DOMAIN tokens /\ t < n
      /\ \A x \in DOMAIN tokens : x \in Nat
    BY StackFacts, ReadyTokens
<1>2. t \in AllObjects /\ f[Len(f)].node = u
    BY <1>1 DEF Stack, AllObjects, IsObject, Growing
<1>3. /\ Len(ns) \in Nat /\ u \in 1 .. Len(ns) /\ DOMAIN ns = 1 .. Len(ns)
      /\ \A j \in AllObjects : j < n => Number(j) \in 1 .. Len(ns)
      /\ \A j \in AllObjects : Number(j) = u => j = t
    BY <1>1, <1>2, NumberFacts DEF Growing
<1> HIDE DEF t, u, new
<1>4. ns[u] \in TreeNode
    BY <1>3
<1>5. /\ node.parent = ns[u].parent /\ node.properties = Append(ns[u].properties, new)
      /\ node \in TreeNode
    <2>1. new \in Property
        BY DEF new
    <2> DEFINE more == Append(ns[u].properties, new)
    <2>2. ns[u].properties \in Seq(Property)
        BY <1>4 DEF TreeNode
    <2>3. more \in Seq(Property)
        BY <2>1, <2>2
    <2> HIDE DEF more
    <2>4. node = [ns[u] EXCEPT !.properties = more]
        BY DEF more
    <2>5. node.parent = ns[u].parent /\ node.properties = more /\ node \in TreeNode
        BY <1>4, <2>3, <2>4 DEF TreeNode
    <2> QED
        BY <2>5 DEF more
<1>6. ns2 = [ns EXCEPT ![u] = node]
    BY <1>2 DEF new, t
<1> HIDE DEF node
<1>7. Len(ns2) = Len(ns) /\ ns2[u] = node
      /\ \A m \in 1 .. Len(ns) : m # u => ns2[m] = ns[m]
    <2>1. node \in TreeNode
        BY <1>5
    <2> DEFINE l == Len(ns)
    <2>2. ns \in [1 .. l -> TreeNode] /\ l \in Nat
        BY <1>3
    <2> HIDE DEF l
    <2>3. ns2 \in [1 .. l -> TreeNode]
        BY <1>6, <2>1, <2>2
    <2>4. Len(ns2) = l
        BY <2>2, <2>3
    <2>5. Len(ns2) = Len(ns)
        BY <2>4 DEF l
    <2> QED
        BY <1>3, <1>6, <2>5
<1>8. Len(ns2) = Below(AllObjects, n2)
    <2>1. \A x \in AllObjects : ~(n <= x /\ x < n2)
        BY DEF AllObjects
    <2>2. Below(AllObjects, n2) = Below(AllObjects, n)
        <3>1. n <= n2 /\ n \in Nat
            OBVIOUS
        <3> QED
            BY <2>1, <3>1, GrowFacts, BelowOn
    <2> QED
        BY <1>7, <2>2 DEF Growing
<1>9. \A m \in DOMAIN f : g[m].node = f[m].node /\ (IsNode(g[m]) <=> IsNode(f[m]))
    BY DEF Taken, IsNode
<1>10. \A m \in DOMAIN g : g[m].node = Number(IF IsNode(g[m]) THEN b[m] ELSE b[m - 1])
    BY <1>9 DEF Growing
<1>11. ASSUME NEW j \in AllObjects, j < n2
       PROVE  Grown(j, n2, ns2)
    <2>1. j \in DOMAIN tokens /\ IsObject(j)
        BY DEF AllObjects
    <2>2. j < n
        BY <1>1, <1>11, <2>1
    <2>3. Grown(j, n, ns)
        BY <2>2 DEF Growing
    <2>4. CASE j = t
        <3>1. \A x \in StringKeys(j) : n <= x /\ x < n2 => x = n
            BY <2>1, <2>2
        <3>2. ns[Number(j)].properties \in Seq(Property)
            BY <1>4, <2>4 DEF TreeNode, u
        <3>3. n \in StringKeys(j) /\ n \in Nat
            BY <2>4 DEF t
        <3>4. ns2[Number(j)].parent = ns[Number(j)].parent
              /\ ns2[Number(j)].properties = Append(ns[Number(j)].properties, NewProperty(n))
            BY <1>5, <1>7, <2>4 DEF u, new
        <3> QED
            BY <2>1, <2>3, <3>1, <3>2, <3>3, <3>4, GrownMore
    <2>5. CASE j # t
        <3>1. ns2[Number(j)] = ns[Number(j)]
            BY <1>3, <1>7, <2>2, <2>5
        <3>2. \A x \in StringKeys(j) : ~(n <= x /\ x < n2)
            BY <2>1, <2>2, <2>5 DEF t
        <3>3. n <= n2 /\ n \in Nat
            OBVIOUS
        <3> QED
            BY <2>1, <2>3, <3>1, <3>2, <3>3, GrownStays
    <2> QED
        BY <2>4, <2>5
<1>12. Nodes(g) = Nodes(f)
    BY <1>9 DEF Nodes
<1> QED
    BY <1>7, <1>8, <1>10, <1>11, <1>12 DEF Growing

(* walk_children's call: nothing is added to the tree. *)
LEMMA GrowWalks ==
    ASSUME Ready, NEW f \in Seq(Frame), NEW n \in Nat \ {0}, NEW b, Stack(f, n, b),
           NEW ns \in Seq(TreeNode), NEW c \in Nat, Growing(f, n, ns, c, b),
           NEW x \in Nat, n <= x, NEW k \in Nat, NEW g \in Seq(Frame),
           Taken(f, g, k), Len(g) = Len(f) + 1, IsNode(f[Len(f)]), ~IsNode(g[Len(g)]),
           g[Len(g)].node = f[Len(f)].node,
           \A y \in DOMAIN tokens : n <= y /\ y < x + 1 => ~IsObject(y) /\ type(y) # "string"
    PROVE  Growing(g, x + 1, ns, c, Pushed(f, b, x))
<1> DEFINE d == Len(f)
           p == Pushed(f, b, x)
           n2 == x + 1
<1>1. /\ d \in DOMAIN f /\ DOMAIN f = 1 .. d /\ d \in Nat \ {0} /\ n2 \in Nat /\ n <= n2 /\ n \in Nat
      /\ \A y \in DOMAIN tokens : y \in Nat
    BY StackFacts, ReadyTokens
<1>2. DOMAIN g = 1 .. (d + 1) /\ Len(g) = d + 1 /\ (d + 1) - 1 = d
    BY <1>1
<1>3. \A m : m \in DOMAIN g <=> m \in DOMAIN f \/ m = d + 1
    BY <1>1, <1>2, OneMore
<1>4. \A m \in DOMAIN f : p[m] = b[m] /\ m # d + 1
    <2>1. \A m \in DOMAIN f : m <= d /\ m # d + 1 /\ m \in 1 .. d + 1
        BY <1>1
    <2> QED
        BY <2>1 DEF Pushed
<1>5. \A m \in DOMAIN f : g[m].node = f[m].node /\ (IsNode(g[m]) <=> IsNode(f[m]))
    BY DEF Taken, IsNode
<1> HIDE DEF p
<1>6. ASSUME NEW m \in DOMAIN g
      PROVE  g[m].node = Number(IF IsNode(g[m]) THEN p[m] ELSE p[m - 1])
    <2>1. CASE m \in DOMAIN f
        <3>1. m - 1 \in DOMAIN f \/ m = 1
            BY <1>1, <2>1
        <3>2. IsNode(f[1])
            BY DEF Stack
        <3>3. f[m].node = Number(IF IsNode(f[m]) THEN b[m] ELSE b[m - 1])
            BY <2>1 DEF Growing
        <3>4. CASE IsNode(f[m])
            BY <1>4, <1>5, <2>1, <3>3, <3>4
        <3>5. CASE ~IsNode(f[m])
            <4>1. m - 1 \in DOMAIN f
                BY <3>1, <3>2, <3>5
            <4> QED
                BY <1>4, <1>5, <2>1, <3>3, <3>5, <4>1
        <3> QED
            BY <3>4, <3>5
    <2>2. CASE m = d + 1
        <3>1. f[d].node = Number(b[d])
            BY <1>1 DEF Growing
        <3> QED
            BY <1>1, <1>2, <1>4, <2>2, <3>1
    <2> QED
        BY <1>3, <2>1, <2>2
<1>7. Len(ns) = Below(AllObjects, n2)
    <2>1. \A y \in AllObjects : ~(n <= y /\ y < n2)
        BY DEF AllObjects
    <2>2. Below(AllObjects, n2) = Below(AllObjects, n)
        BY <1>1, <2>1, GrowFacts, BelowOn
    <2> QED
        BY <2>2 DEF Growing
<1>8. ASSUME NEW j \in AllObjects, j < n2
      PROVE  Grown(j, n2, ns)
    <2>1. j \in DOMAIN tokens /\ IsObject(j)
        BY DEF AllObjects
    <2>2. j < n
        BY <1>1, <1>8, <2>1
    <2>3. Grown(j, n, ns)
        BY <2>2 DEF Growing
    <2>4. \A y \in StringKeys(j) : ~(n <= y /\ y < n2)
        <3>1. \A y \in StringKeys(j) : y \in DOMAIN tokens /\ type(y) = "string"
            BY <2>1, GrowFacts DEF StringKeys
        <3> QED
            BY <3>1
    <2> QED
        BY <1>1, <2>1, <2>3, <2>4, GrownStays
<1>9. Nodes(g) = Nodes(f)
    BY <1>2, <1>3, <1>5 DEF Nodes
<1> QED
    BY <1>6, <1>7, <1>8, <1>9 DEF Growing, p

(* A node for the next object, under that of walk_children. *)
LEMMA GrowChild ==
    ASSUME Ready, NEW f \in Seq(Frame), NEW n \in Nat \ {0}, NEW b, Stack(f, n, b),
           NEW ns \in Seq(TreeNode), NEW c \in Nat, Growing(f, n, ns, c, b),
           NEW k \in Nat, NEW g \in Seq(Frame), Taken(f, g, k), Len(g) = Len(f) + 1,
           ~IsNode(f[Len(f)]), IsNode(g[Len(g)]), g[Len(g)].node = Len(ns) + 1,
           n \in Inner(b[Len(f)]), IsObject(n),
           NEW ns2, ns2 = Append(ns, Node(f[Len(f)].node)), f[Len(f)].node \in Nat
    PROVE  Growing(g, n + 1, ns2, c, Pushed(f, b, n))
<1> DEFINE d == Len(f)
           p == Pushed(f, b, n)
           n2 == n + 1
           new == Node(f[d].node)
<1>1. /\ d \in DOMAIN f /\ DOMAIN f = 1 .. d /\ d \in Nat \ {0} /\ n2 \in Nat /\ n <= n2
      /\ n \in Nat /\ n < n2
      /\ \A y \in DOMAIN tokens : y \in Nat
      /\ \A m \in DOMAIN f : b[m] \in DOMAIN tokens /\ b[m] \in Nat \ {0} /\ b[m] < n
    BY StackFacts, ReadyTokens
<1>2. DOMAIN g = 1 .. (d + 1) /\ Len(g) = d + 1 /\ (d + 1) - 1 = d
    BY <1>1
<1>3. \A m : m \in DOMAIN g <=> m \in DOMAIN f \/ m = d + 1
    BY <1>1, <1>2, OneMore
<1>4. p[d + 1] = n /\ \A m \in DOMAIN f : p[m] = b[m] /\ m # d + 1
    <2>1. \A m \in DOMAIN f : m <= d /\ m # d + 1 /\ m \in 1 .. d + 1
        BY <1>1
    <2>2. d + 1 \in 1 .. d + 1 /\ ~(d + 1 <= d)
        BY <1>1
    <2> QED
        BY <2>1, <2>2 DEF Pushed
<1>5. \A m \in DOMAIN f : g[m].node = f[m].node /\ (IsNode(g[m]) <=> IsNode(f[m]))
    BY DEF Taken, IsNode
<1>6. n \in DOMAIN tokens /\ n \in AllObjects
    BY <1>1, InnerFacts DEF AllObjects
<1>7. /\ Len(ns) \in Nat /\ Number(n) = Len(ns) + 1 /\ DOMAIN ns = 1 .. Len(ns)
      /\ \A j \in AllObjects : j < n => Number(j) \in 1 .. Len(ns)
    <2>1. Len(ns) = Below(AllObjects, n)
        BY DEF Growing
    <2>2. DOMAIN ns = 1 .. Len(ns)
        OBVIOUS
    <2> QED
        BY <1>1, <1>6, <2>1, <2>2, NumberFacts
<1> HIDE DEF p, new
<1>8. /\ Len(ns2) = Len(ns) + 1 /\ ns2[Len(ns) + 1] = new
      /\ \A m \in 1 .. Len(ns) : ns2[m] = ns[m]
    BY <1>7 DEF new
<1>9. ASSUME NEW m \in DOMAIN g
      PROVE  g[m].node = Number(IF IsNode(g[m]) THEN p[m] ELSE p[m - 1])
    <2>1. CASE m \in DOMAIN f
        <3>1. m - 1 \in DOMAIN f \/ m = 1
            BY <1>1, <2>1
        <3>2. IsNode(f[1])
            BY DEF Stack
        <3>3. f[m].node = Number(IF IsNode(f[m]) THEN b[m] ELSE b[m - 1])
            BY <2>1 DEF Growing
        <3>4. CASE IsNode(f[m])
            BY <1>4, <1>5, <2>1, <3>3, <3>4
        <3>5. CASE ~IsNode(f[m])
            <4>1. m - 1 \in DOMAIN f
                BY <3>1, <3>2, <3>5
            <4> QED
                BY <1>4, <1>5, <2>1, <3>3, <3>5, <4>1
        <3> QED
            BY <3>4, <3>5
    <2>2. CASE m = d + 1
        BY <1>2, <1>4, <1>7, <2>2
    <2> QED
        BY <1>3, <2>1, <2>2
<1>10. Len(ns2) = Below(AllObjects, n2)
    <2>1. \A y \in AllObjects : n <= y /\ y < n2 => y = n
        BY <1>1, GrowFacts
    <2>2. Below(AllObjects, n2) = Below(AllObjects, n) + 1
        BY <1>1, <1>6, <2>1, GrowFacts, BelowOn
    <2> QED
        BY <1>8, <2>2 DEF Growing
<1>11. ASSUME NEW j \in AllObjects, j < n
       PROVE  Grown(j, n2, ns2)
    <2>1. j \in DOMAIN tokens /\ IsObject(j)
        BY DEF AllObjects
    <2>2. Grown(j, n, ns)
        BY <1>11 DEF Growing
    <2>3. ns2[Number(j)] = ns[Number(j)]
        BY <1>7, <1>8, <1>11
    <2>4. \A y \in StringKeys(j) : ~(n <= y /\ y < n2)
        <3>1. \A y \in StringKeys(j) : y \in DOMAIN tokens /\ type(y) = "string" /\ y \in Nat
            BY <2>1, GrowFacts DEF StringKeys
        <3>2. type(n) # "string"
            BY DEF IsObject
        <3>3. \A y \in Nat : n <= y /\ y < n2 => y = n
            BY <1>1
        <3> QED
            BY <3>1, <3>2, <3>3
    <2> QED
        BY <1>1, <2>1, <2>2, <2>3, <2>4, GrownStays
<1>12. Grown(n, n2, ns2)
    <2>1. new.parent = f[d].node /\ new.properties = <<>>
        BY DEF new, Node
    <2>2. n # 1
        <3>1. b[d] < n /\ b[d] \in Nat \ {0}
            BY <1>1
        <3> QED
            BY <3>1
    <2>3. \E a, h \in DOMAIN tokens :
             n \in Inner(a) /\ a \in Inner(h) /\ IsObject(h) /\ new.parent = Number(h)
        <3>1. d # 1 /\ IsNode(f[d - 1])
            BY <1>1 DEF Stack
        <3>2. d - 1 \in DOMAIN f
            BY <1>1, <3>1
        <3>3. b[d] \in Inner(b[d - 1]) /\ type(b[d - 1]) = "object"
            BY <1>1, <3>1, <3>2 DEF Stack
        <3>4. f[d].node = Number(b[d - 1])
            BY <1>1 DEF Growing
        <3> QED
            BY <1>1, <2>1, <3>2, <3>3, <3>4 DEF IsObject
    <2>4. \A y \in StringKeys(n) : ~(y < n2)
        BY <1>1, <1>6, InnerFacts DEF StringKeys
    <2>5. Below(StringKeys(n), n2) = 0
        <3>1. {y \in StringKeys(n) : y < n2} = {}
            BY <2>4
        <3> QED
            BY <3>1, FS_EmptySet DEF Below
    <2>6. Len(new.properties) = 0
        BY <2>1
    <2>7. ns2[Number(n)] = new
        BY <1>7, <1>8
    <2> QED
        BY <2>2, <2>3, <2>4, <2>5, <2>6, <2>7 DEF Grown
<1>13. \A j \in AllObjects : j < n2 => j < n \/ j = n
    BY <1>1, GrowFacts
<1>14. Cardinality(Nodes(g)) = Cardinality(Nodes(f)) + 1
    <2>1. Nodes(g) = Nodes(f) \cup {d + 1} /\ d + 1 \notin Nodes(f)
        BY <1>2, <1>3, <1>4, <1>5 DEF Nodes
    <2> DEFINE N == Nodes(f)
               x == d + 1
    <2>2. IsFiniteSet(N) /\ x \notin N
        BY <2>1, NodesFinite
    <2> HIDE DEF N, x
    <2>3. Cardinality(N \cup {x}) = Cardinality(N) + 1
        BY <2>2, FS_AddElement
    <2> QED
        BY <2>1, <2>3 DEF N, x
<1>15. c + Cardinality(Nodes(g)) = Len(ns2)
    <2>1. c + Cardinality(Nodes(f)) = Len(ns) /\ Cardinality(Nodes(f)) \in Nat
        BY NodesFinite DEF Growing
    <2>2. Len(ns) \in Nat /\ Len(ns2) = Len(ns) + 1
        BY <1>7, <1>8
    <2>3. \A x, l \in Nat : c + x = l => c + (x + 1) = l + 1
        OBVIOUS
    <2> QED
        BY <1>14, <2>1, <2>2, <2>3
<1> QED
    BY <1>9, <1>10, <1>11, <1>12, <1>13, <1>15 DEF Growing, p

(* The end of a call. *)
LEMMA GrowPops ==
    ASSUME Ready, NEW f \in Seq(Frame), NEW n \in Nat \ {0}, NEW b, Stack(f, n, b),
           NEW ns \in Seq(TreeNode), NEW c \in Nat, Growing(f, n, ns, c, b),
           NEW g \in Seq(Frame), Len(f) # 1, Len(g) = Len(f) - 1,
           \A m \in DOMAIN g : g[m] = f[m]
    PROVE  Growing(g, n, ns, IF IsNode(f[Len(f)]) THEN c + 1 ELSE c, Popped(f, b))
<1> DEFINE d == Len(f)
           p == Popped(f, b)
<1>1. d \in DOMAIN f /\ DOMAIN f = 1 .. d /\ d \in Nat \ {0} /\ d # 1
    BY StackFacts
<1>2. DOMAIN g = 1 .. (d - 1)
    BY <1>1
<1>3. \A m \in DOMAIN g : m \in DOMAIN f /\ m # d /\ (m # 1 => m - 1 \in DOMAIN g)
    BY <1>1, <1>2
<1>4. \A m \in DOMAIN f : m \in DOMAIN g \/ m = d
    BY <1>1, <1>2
<1>5. \A m \in DOMAIN g : p[m] = b[m]
    BY <1>2 DEF Popped
<1> HIDE DEF p
<1>6. ASSUME NEW m \in DOMAIN g
      PROVE  g[m].node = Number(IF IsNode(g[m]) THEN p[m] ELSE p[m - 1])
    <2>1. f[m].node = Number(IF IsNode(f[m]) THEN b[m] ELSE b[m - 1])
        BY <1>3 DEF Growing
    <2>2. CASE IsNode(f[m])
        BY <1>5, <2>1, <2>2
    <2>3. CASE ~IsNode(f[m])
        <3>1. m # 1
            BY <2>3 DEF Stack
        <3> QED
            BY <1>3, <1>5, <2>1, <2>3, <3>1
    <2> QED
        BY <2>2, <2>3
<1>7. Nodes(g) = Nodes(f) \ {d} /\ (d \in Nodes(f) <=> IsNode(f[d]))
    BY <1>1, <1>3, <1>4 DEF Nodes
<1>8. Cardinality(Nodes(g)) = IF IsNode(f[d]) THEN Cardinality(Nodes(f)) - 1 ELSE Cardinality(Nodes(f))
    BY <1>7, NodesFinite, FS_RemoveElement
<1>9. (IF IsNode(f[d]) THEN c + 1 ELSE c) + Cardinality(Nodes(g)) = Len(ns)
    <2>1. c + Cardinality(Nodes(f)) = Len(ns) /\ Cardinality(Nodes(f)) \in Nat
        BY NodesFinite DEF Growing
    <2> QED
        BY <1>8, <2>1
<1> QED
    BY <1>6, <1>9 DEF Growing, p

-----------------------------------------------------------------------------
(***************************************************************************)
(* The steps of the builder.                                               *)
(***************************************************************************)
Shape(f, n, ns, c) ==
    /\ f \in Seq(Frame) /\ f # <<>>
    /\ n \in Nat \ {0} /\ ns \in Seq(TreeNode) /\ c \in Nat

(* A call of build_node whose count never reaches 0. *)
OddCount(f) == HasOdd /\ \E m \in DOMAIN f : IsNode(f[m]) /\ f[m].nested % 2 = 1

(* Otherwise a call's count is what is left in its bracket, all that was   *)
(* passed is well-formed so far, and the tree holds it.                    *)
Regular(f, n, ns, c) == Seen(n) /\ \E b : Walk(f, n, b) /\ Growing(f, n, ns, c, b)

Halfway(f, n, ns, c) == Shape(f, n, ns, c) /\ (OddCount(f) \/ Regular(f, n, ns, c))

LEMMA TopFrame ==
    ASSUME frames \in Seq(Frame), frames # <<>>
    PROVE  /\ Len(frames) \in Nat \ {0} /\ DOMAIN frames = 1 .. Len(frames)
           /\ Len(frames) \in DOMAIN frames /\ top = frames[Len(frames)] /\ top \in Frame
           /\ Front(frames) \in Seq(Frame) /\ Len(Front(frames)) = Len(frames) - 1
           /\ DOMAIN Front(frames) = 1 .. Len(frames) - 1
           /\ \A m \in DOMAIN Front(frames) : m \in DOMAIN frames /\ Front(frames)[m] = frames[m]
<1>1. Len(frames) \in Nat \ {0} /\ DOMAIN frames = 1 .. Len(frames)
    OBVIOUS
<1>2. Len(frames) \in DOMAIN frames /\ top = frames[Len(frames)] /\ top \in Frame
    BY <1>1 DEF top, Last
<1>3. /\ Front(frames) \in Seq(Frame) /\ Len(Front(frames)) = Len(frames) - 1
      /\ DOMAIN Front(frames) = 1 .. Len(frames) - 1
      /\ \A m \in DOMAIN Front(frames) : m \in DOMAIN frames /\ Front(frames)[m] = frames[m]
    BY <1>1 DEF Front
<1> QED
    BY <1>1, <1>2, <1>3

LEMMA Joined ==
    ASSUME NEW S, NEW s \in Seq(S), NEW t \in Seq(S)
    PROVE  /\ s \o t \in Seq(S) /\ Len(s \o t) = Len(s) + Len(t)
           /\ \A m \in 1 .. Len(s) : (s \o t)[m] = s[m]
           /\ \A m \in 1 .. Len(t) : (s \o t)[Len(s) + m] = t[m]
OBVIOUS

LEMMA TookFrames ==
    ASSUME frames \in Seq(Frame), frames # <<>>, NEW k \in Nat, NEW calls \in Seq(Frame)
    PROVE  /\ Took(k, calls) \in Seq(Frame) /\ Taken(frames, Took(k, calls), k)
           /\ Len(Took(k, calls)) = Len(frames) + Len(calls)
           /\ \A m \in 1 .. Len(calls) : Took(k, calls)[Len(frames) + m] = calls[m]
<1> DEFINE d == Len(frames)
           F == Front(frames)
           new == [top EXCEPT !.nested = @ - k]
           g == (F \o <<new>>) \o calls
<1>1. /\ d \in Nat \ {0} /\ DOMAIN frames = 1 .. d
      /\ top = frames[d] /\ top \in Frame
      /\ F \in Seq(Frame) /\ Len(F) = d - 1
      /\ \A m \in 1 .. d - 1 : F[m] = frames[m]
    BY TopFrame
<1>2. /\ new \in Frame /\ new.call = top.call /\ new.node = top.node
      /\ new.nested = top.nested - k
    <2> DEFINE less == top.nested - k
    <2>1. less \in Int
        BY <1>1 DEF Frame
    <2>2. new = [top EXCEPT !.nested = less]
        OBVIOUS
    <2> HIDE DEF less, new
    <2>3. /\ new \in Frame /\ new.call = top.call /\ new.node = top.node /\ new.nested = less
        BY <1>1, <2>1, <2>2 DEF Frame
    <2> QED
        BY <2>3 DEF less
<1>3. Took(k, calls) = g
    BY DEF Took
<1> HIDE DEF d, F, new
<1>4. /\ F \o <<new>> \in Seq(Frame) /\ Len(F \o <<new>>) = d
      /\ (F \o <<new>>)[d] = new
      /\ \A m \in 1 .. d - 1 : (F \o <<new>>)[m] = frames[m]
    BY <1>1, <1>2
<1> DEFINE h == F \o <<new>>
<1>5. h \in Seq(Frame) /\ Len(h) = d /\ h[d] = new /\ \A m \in 1 .. d - 1 : h[m] = frames[m]
    BY <1>4
<1> HIDE DEF h
<1>6. /\ h \o calls \in Seq(Frame) /\ Len(h \o calls) = d + Len(calls)
      /\ \A m \in 1 .. d : (h \o calls)[m] = h[m]
      /\ \A m \in 1 .. Len(calls) : (h \o calls)[d + m] = calls[m]
    <2>1. h \in Seq(Frame)
        BY <1>5
    <2>2. /\ h \o calls \in Seq(Frame) /\ Len(h \o calls) = Len(h) + Len(calls)
          /\ \A m \in 1 .. Len(h) : (h \o calls)[m] = h[m]
          /\ \A m \in 1 .. Len(calls) : (h \o calls)[Len(h) + m] = calls[m]
        BY <2>1, Joined
    <2> QED
        BY <1>5, <2>2, Zenon
<1>7. Took(k, calls) = h \o calls
    BY <1>3 DEF h
<1>8. Taken(frames, Took(k, calls), k)
    <2> SUFFICES ASSUME NEW m \in DOMAIN frames
                 PROVE  /\ m \in DOMAIN (h \o calls)
                        /\ (h \o calls)[m].call = frames[m].call
                        /\ (h \o calls)[m].node = frames[m].node
                        /\ (h \o calls)[m].nested = IF m = d THEN frames[m].nested - k
                                                    ELSE frames[m].nested
        BY <1>7 DEF Taken, d
    <2>1. m \in 1 .. d /\ (h \o calls)[m] = h[m]
        BY <1>1, <1>6
    <2>2. m \in DOMAIN (h \o calls)
        <3>1. Len(calls) \in Nat
            OBVIOUS
        <3>2. m \in 1 .. d + Len(calls)
            BY <1>1, <2>1, <3>1
        <3>3. DOMAIN (h \o calls) = 1 .. Len(h \o calls)
            BY <1>6
        <3> QED
            BY <1>6, <3>2, <3>3
    <2>3. CASE m = d
        BY <1>1, <1>2, <1>5, <2>1, <2>2, <2>3
    <2>4. CASE m # d
        <3>1. m \in 1 .. d - 1
            BY <1>1, <2>1, <2>4
        <3> QED
            BY <1>5, <2>1, <2>2, <2>4, <3>1
    <2> QED
        BY <2>3, <2>4
<1> QED
    BY <1>6, <1>7, <1>8 DEF d

(* No step makes an odd count even: an entry takes two, a child is taken   *)
(* from a count that is not a node's.                                      *)
LEMMA OddStays ==
    ASSUME NEW f \in Seq(Frame), OddCount(f), NEW k \in Nat, NEW g, Taken(f, g, k),
           k = 2 \/ ~IsNode(f[Len(f)])
    PROVE  OddCount(g)
<1>1. PICK m \in DOMAIN f : IsNode(f[m]) /\ f[m].nested % 2 = 1
    BY DEF OddCount
<1>2. f[m].nested \in Int
    <2>1. f[m] \in Frame
        OBVIOUS
    <2> QED
        BY <2>1 DEF Frame
<1>3. m \in DOMAIN g /\ IsNode(g[m])
    BY <1>1 DEF Taken, IsNode
<1>4. g[m].nested = f[m].nested \/ g[m].nested = f[m].nested - 2
    BY <1>1 DEF Taken
<1>5. \A x \in Int : x % 2 = 1 => (x - 2) % 2 = 1
    OBVIOUS
<1>6. g[m].nested % 2 = 1
    BY <1>1, <1>2, <1>4, <1>5
<1> QED
    BY <1>3, <1>6 DEF OddCount

LEMMA OddPopped ==
    ASSUME frames \in Seq(Frame), frames # <<>>, OddCount(frames),
           ~IsNode(top) \/ top.nested = 0
    PROVE  OddCount(Front(frames)) /\ Len(frames) # 1
<1>1. PICK m \in DOMAIN frames : IsNode(frames[m]) /\ frames[m].nested % 2 = 1
    BY DEF OddCount
<1>2. 0 % 2 # 1
    OBVIOUS
<1>3. m # Len(frames)
    BY <1>1, <1>2, TopFrame
<1>4. m \in DOMAIN Front(frames) /\ Front(frames)[m] = frames[m] /\ Len(frames) # 1
    BY <1>3, TopFrame
<1> QED
    BY <1>1, <1>4 DEF OddCount

-----------------------------------------------------------------------------
(* What the format says of an entry, in terms of tokens.                   *)
LEMMA GoodEntries ==
    ASSUME Ready, WellFormed(doc), 1 \in DOMAIN tokens,
           NEW j \in DOMAIN tokens, IsObject(j), Rooted(j),
           NEW k \in DOMAIN tokens, IsKey(j, k)
    PROVE  /\ type(k) \in {"string", "children"}
           /\ k + 1 \in Inner(j) =>
                 /\ type(k) = "string" /\ ~IsLeaf(k + 1) =>
                       type(k + 1) = "array" /\ \A e \in Inner(k + 1) : IsLeaf(e)
                 /\ type(k) = "children" =>
                       type(k + 1) = "array" /\ \A e \in Inner(k + 1) : IsObject(e)
<1> DEFINE p == tokens[j].at
           key == tokens[k].at
           v == ValueOf(doc, p, key)
<1>1. p \in Objects(doc)
    BY ObjectsAre DEF ObjectTokens, At
<1>2. key \in Keys(doc, p)
    BY KeysAre
<1>3. GoodEntry(doc, key, v)
    BY <1>1, <1>2 DEF WellFormed, GoodObject
<1> HIDE DEF v
<1>4. doc[key] = "S" \/ doc[key] = "@"
    BY <1>3 DEF GoodEntry
<1>5. type(k) \in {"string", "children"}
    BY <1>4, Kinds
<1>6. ASSUME k + 1 \in Inner(j)
      PROVE  /\ type(k) = "string" /\ ~IsLeaf(k + 1) =>
                   type(k + 1) = "array" /\ \A e \in Inner(k + 1) : IsLeaf(e)
             /\ type(k) = "children" =>
                   type(k + 1) = "array" /\ \A e \in Inner(k + 1) : IsObject(e)
    <2>1. k \in Inner(j)
        BY DEF IsKey
    <2>2. v = tokens[k + 1].at
        BY <1>6, <2>1, ValueIs DEF v
    <2> DEFINE w == k + 1
    <2>3. w \in DOMAIN tokens /\ v = tokens[w].at
        BY <1>6, <2>2, InnerFacts
    <2> HIDE DEF w, p, key
    <2>4. Inside(doc, v) = At(Inner(w))
        BY <2>3, InsideIs
    <2>5. \A e \in Inner(w) : e \in DOMAIN tokens /\ doc[tokens[e].at] \in Elements(doc, v)
        <3>1. \A e \in Inner(w) : e \in DOMAIN tokens /\ tokens[e].at \in Inside(doc, v)
            BY <2>3, <2>4, InnerFacts DEF At
        <3> QED
            BY <3>1 DEF Elements
    <2>6. ASSUME type(k) = "string", ~IsLeaf(w)
          PROVE  type(w) = "array" /\ \A e \in Inner(w) : IsLeaf(e)
        <3>1. doc[key] = "S"
            BY <2>6, Kinds DEF key
        <3>2. doc[v] \notin {"S", "P"}
            <4>1. doc[v] = "S" \/ doc[v] = "P" => IsLeaf(w)
                BY <2>3, Kinds DEF IsLeaf
            <4> QED
                BY <2>6, <4>1
        <3>3. doc[v] = "[" /\ Elements(doc, v) \subseteq {"S", "P"}
            BY <1>3, <3>1, <3>2 DEF GoodEntry
        <3>4. type(w) = "array"
            BY <2>3, <3>3, Kinds
        <3>5. \A e \in Inner(w) : IsLeaf(e)
            BY <2>5, <3>3, Kinds DEF IsLeaf
        <3> QED
            BY <3>4, <3>5
    <2>7. ASSUME type(k) = "children"
          PROVE  type(w) = "array" /\ \A e \in Inner(w) : IsObject(e)
        <3>1. doc[key] = "@"
            BY <2>7, Kinds DEF key
        <3>3. doc[v] = "[" /\ Elements(doc, v) \subseteq {"{"}
            BY <1>3, <3>1 DEF GoodEntry
        <3>4. type(w) = "array"
            BY <2>3, <3>3, Kinds
        <3>5. \A e \in Inner(w) : IsObject(e)
            BY <2>5, <3>3, Kinds DEF IsObject
        <3> QED
            BY <3>4, <3>5
    <2> QED
        BY <2>6, <2>7 DEF w
<1> QED
    BY <1>5, <1>6

(* Data is read from the tokens that are inside the value. *)
LEMMA DataRead ==
    ASSUME Ready, NEW v \in DOMAIN tokens, IsData(v)
    PROVE  /\ AfterValue(v) \in Nat /\ v < AfterValue(v)
           /\ Inner(v) \subseteq v + 1 .. AfterValue(v) - 1
           /\ type(v) = "array" => Inner(v) = v + 1 .. v + tokens[v].size
           /\ IsLeaf(v) \/ type(v) = "array"
           /\ \A e \in Inner(v) : IsLeaf(e)
           /\ \A x \in DOMAIN tokens : v <= x /\ x < AfterValue(v) => x = v \/ x \in Inner(v)
           /\ Data(v) \in Seq(Nat)
<1>1. /\ v \in Nat \ {0} /\ tokens[v].size \in Nat /\ tokens[v].at \in Nat
      /\ \A x \in DOMAIN tokens : x \in Nat /\ tokens[x].at \in Nat
    BY ReadyTokens
<1>2. CASE type(v) = "array"
    <2> DEFINE size == tokens[v].size
               n2 == v + size + 1
    <2>1. \A k \in v + 1 .. v + size : IsLeaf(k)
        BY <1>2 DEF IsData, ValueTokens, IsLeaf
    <2>2. \A k \in Inner(v) : k \in Nat /\ v < k
        BY <1>1, InnerFacts
    <2>3. \A k \in Inner(v) : k <= v + size => IsLeaf(k)
        <3>1. \A k \in Nat : v < k /\ k <= v + size => k \in v + 1 .. v + size
            BY <1>1
        <3> QED
            BY <2>1, <2>2, <3>1
    <2>4. Inner(v) = v + 1 .. v + size /\ v + size <= Len(tokens)
        BY <2>3, ElementsFollow
    <2>5. AfterValue(v) = n2
        BY <1>2 DEF AfterValue
    <2>6. n2 \in Nat /\ v < n2 /\ n2 - 1 = v + size
        BY <1>1
    <2>7. \A x \in Nat : v <= x /\ x < n2 => x = v \/ x \in v + 1 .. v + size
        BY <1>1
    <2>8. Data(v) \in Seq(Nat)
        <3>1. \A n \in 1 .. size : v + n \in Inner(v)
            <4>1. \A n \in 1 .. size : v + n \in v + 1 .. v + size
                BY <1>1
            <4> QED
                BY <2>4, <4>1
        <3>2. \A n \in 1 .. size : tokens[v + n].at \in Nat
            BY <1>1, <3>1, InnerFacts
        <3>3. Data(v) = [n \in 1 .. size |-> tokens[v + n].at]
            BY <1>2 DEF Data
        <3> HIDE DEF size
        <3>4. [n \in 1 .. size |-> tokens[v + n].at] \in [1 .. size -> Nat]
            BY <3>2
        <3>5. size \in Nat
            BY <1>1 DEF size
        <3>6. [n \in 1 .. size |-> tokens[v + n].at] \in Seq(Nat)
            BY <3>4, <3>5
        <3> QED
            BY <3>3, <3>6
    <2> HIDE DEF n2, size
    <2>9. Inner(v) \subseteq v + 1 .. n2 - 1
        BY <2>4, <2>6
    <2> QED
        BY <1>1, <1>2, <2>1, <2>4, <2>5, <2>6, <2>7, <2>8, <2>9 DEF size
<1>3. CASE type(v) # "array"
    <2>1. IsLeaf(v)
        BY <1>3 DEF IsData, ValueTokens, IsLeaf
    <2>2. Inner(v) = {}
        BY <1>3, <2>1, InnerFacts DEF IsLeaf, IsBracket
    <2>3. AfterValue(v) = v + 1
        BY <1>3 DEF AfterValue
    <2>4. v + 1 \in Nat /\ v < v + 1 /\ \A x \in Nat : v <= x /\ x < v + 1 => x = v
        BY <1>1
    <2>5. Data(v) \in Seq(Nat)
        BY <1>1, <1>3 DEF Data
    <2> QED
        BY <1>1, <1>3, <2>1, <2>2, <2>3, <2>4, <2>5
<1> QED
    BY <1>2, <1>3

(* The key and the value of an entry, seen from the top of the stack. *)
LEMMA EntryTokens ==
    ASSUME Ready, NEW f \in Seq(Frame), NEW n \in Nat \ {0}, NEW b, Walk(f, n, b), Seen(n),
           IsNode(f[Len(f)]), f[Len(f)].nested # 0, type(n) \in {"string", "children"}
    PROVE  LET t == b[Len(f)]
           IN  /\ t \in DOMAIN tokens /\ t \in Nat /\ t < n /\ IsObject(t) /\ Rooted(t)
               /\ n \in Inner(t) /\ n \in DOMAIN tokens /\ IsKey(t, n)
               /\ n + 1 \in Inner(t) /\ n + 1 \in DOMAIN tokens /\ ~IsKey(t, n + 1)
               /\ Cardinality(Ahead(t, n) \ {n, n + 1}) = Cardinality(Ahead(t, n)) - 2
               /\ Inner(n) = {} /\ ~IsObject(n) /\ Rooted(n) /\ Rooted(n + 1)
               /\ 1 \in DOMAIN tokens /\ IsObject(1)
<1> DEFINE t == b[Len(f)]
<1>1. Stack(f, n, b)
    BY DEF Walk
<1>2. /\ Len(f) \in DOMAIN f /\ t \in DOMAIN tokens /\ t \in Nat \ {0} /\ t < n
      /\ 1 \in DOMAIN tokens /\ IsObject(1)
    BY <1>1, StackFacts
<1>3. IsObject(t) /\ Rooted(t)
    BY <1>1, <1>2 DEF Stack, Seen, IsObject
<1>4. ~IsBracket(n) /\ ~IsObject(n)
    BY DEF IsBracket, IsObject
<1>5. /\ n \in Inner(t) /\ n \in DOMAIN tokens /\ IsKey(t, n)
      /\ n + 1 \in Inner(t) /\ n + 1 \in DOMAIN tokens /\ ~IsKey(t, n + 1)
      /\ Cardinality(Ahead(t, n) \ {n, n + 1}) = Cardinality(Ahead(t, n)) - 2
    BY <1>4, AtKey
<1> HIDE DEF t
<1>6. Inner(n) = {}
    BY <1>4, <1>5, InnerFacts
<1>7. Rooted(n) /\ Rooted(n + 1)
    <2>1. IsBracket(1) /\ 1 <= t
        BY <1>2 DEF IsBracket, IsObject
    <2> QED
        BY <1>2, <1>3, <1>5, <2>1, InsideMatch DEF Rooted
<1> QED
    BY <1>2, <1>3, <1>4, <1>5, <1>6, <1>7 DEF t

-----------------------------------------------------------------------------
LEMMA AddPropertyShape ==
    ASSUME Ready, Shape(frames, i, nodes, node_count), AddProperty
    PROVE  /\ Shape(frames', i', nodes', node_count')
           /\ i + 1 \in DOMAIN tokens /\ NewProperty(i) \in Property
           /\ frames' = Took(2, <<>>) /\ Taken(frames, frames', 2) /\ DOMAIN frames' = DOMAIN frames
<1>1. /\ frames \in Seq(Frame) /\ frames # <<>> /\ i \in Nat \ {0}
      /\ nodes \in Seq(TreeNode) /\ node_count \in Nat
    BY DEF Shape
<1>2. i + 1 \in DOMAIN tokens /\ i \in DOMAIN tokens
    <2>1. Known(i + 1)
        BY DEF AddProperty
    <2> QED
        BY <1>1, <2>1, ReadyTokens DEF Known
<1>3. IsData(i + 1)
    BY DEF AddProperty
<1>4. AfterValue(i + 1) \in Nat \ {0} /\ Data(i + 1) \in Seq(Nat)
    <2>1. i + 1 \in Nat /\ AfterValue(i + 1) \in Nat /\ i + 1 < AfterValue(i + 1)
        BY <1>1, <1>2, <1>3, DataRead
    <2> QED
        BY <1>2, <1>3, <2>1, DataRead
<1>5. NewProperty(i) \in Property
    BY <1>2, <1>4, ReadyTokens DEF NewProperty, Property
<1>6. frames' = Took(2, <<>>)
    BY DEF AddProperty, EntrySize
<1>7. /\ frames' \in Seq(Frame) /\ Taken(frames, frames', 2) /\ Len(frames') = Len(frames)
    <2> DEFINE none == <<>>
    <2>1. none \in Seq(Frame) /\ Len(none) = 0 /\ 2 \in Nat
        OBVIOUS
    <2>2. frames' = Took(2, none)
        BY <1>6
    <2> HIDE DEF none
    <2>3. /\ frames' \in Seq(Frame) /\ Taken(frames, frames', 2)
          /\ Len(frames') = Len(frames) + Len(none)
        BY <1>1, <2>1, <2>2, TookFrames
    <2>4. Len(frames) \in Nat
        BY <1>1
    <2> QED
        BY <2>1, <2>3, <2>4
<1>8. DOMAIN frames' = DOMAIN frames /\ frames' # <<>>
    BY <1>1, <1>7
<1>9. nodes' \in Seq(TreeNode)
    <2> DEFINE u == top.node
               ps == nodes[u].properties
               more == Append(ps, NewProperty(i))
               node == [nodes[u] EXCEPT !.properties = more]
               l == Len(nodes)
    <2>1. nodes' = [nodes EXCEPT ![u].properties = Append(@, NewProperty(i))]
        BY DEF AddProperty, NewProperty
    <2>2. nodes' = [nodes EXCEPT ![u] = node]
        BY <2>1
    <2>3. nodes \in [1 .. l -> TreeNode] /\ l \in Nat
        BY <1>1
    <2> HIDE DEF l, node, u
    <2>4. u \in 1 .. l => node \in TreeNode
        <3> SUFFICES ASSUME u \in 1 .. l
                     PROVE  node \in TreeNode
            OBVIOUS
        <3>1. nodes[u] \in TreeNode
            BY <2>3
        <3>2. ps \in Seq(Property)
            BY <3>1 DEF TreeNode
        <3>3. more \in Seq(Property)
            BY <1>5, <3>2
        <3> HIDE DEF more
        <3> QED
            BY <3>1, <3>3 DEF node, TreeNode
    <2>5. nodes' \in [1 .. l -> TreeNode]
        BY <2>2, <2>3, <2>4
    <2> QED
        BY <2>3, <2>5
<1>10. i' = AfterValue(i + 1) /\ node_count' = node_count
    BY DEF AddProperty
<1> QED
    BY <1>1, <1>2, <1>4, <1>5, <1>6, <1>7, <1>8, <1>9, <1>10 DEF Shape

LEMMA AddPropertyRegular ==
    ASSUME Ready, Shape(frames, i, nodes, node_count), AddProperty,
           Regular(frames, i, nodes, node_count)
    PROVE  Regular(frames', i', nodes', node_count')
<1> DEFINE f == frames
           d == Len(frames)
           n == i
           v == i + 1
           n2 == AfterValue(i + 1)
           g == Took(2, <<>>)
<1>1. Seen(n) /\ \E b : Walk(f, n, b) /\ Growing(f, n, nodes, node_count, b)
    BY DEF Regular
<1>2. PICK b : Walk(f, n, b) /\ Growing(f, n, nodes, node_count, b)
    BY <1>1
<1> DEFINE t == b[d]
<1>3. /\ f \in Seq(Frame) /\ f # <<>> /\ n \in Nat \ {0}
      /\ nodes \in Seq(TreeNode) /\ node_count \in Nat
    BY DEF Shape
<1>4. Stack(f, n, b)
    BY <1>2 DEF Walk
<1>5. /\ top = f[d] /\ IsNode(f[d]) /\ f[d].nested # 0 /\ type(n) = "string" /\ IsData(v)
    BY <1>3, TopFrame DEF AddProperty, In, IsNode
<1>6. /\ t \in DOMAIN tokens /\ t \in Nat /\ t < n /\ IsObject(t) /\ Rooted(t)
      /\ n \in Inner(t) /\ n \in DOMAIN tokens /\ IsKey(t, n)
      /\ v \in Inner(t) /\ v \in DOMAIN tokens /\ ~IsKey(t, v)
      /\ Cardinality(Ahead(t, n) \ {n, v}) = Cardinality(Ahead(t, n)) - 2
      /\ Inner(n) = {} /\ ~IsObject(n) /\ Rooted(n) /\ Rooted(v)
      /\ 1 \in DOMAIN tokens /\ IsObject(1)
    BY <1>1, <1>2, <1>3, <1>5, EntryTokens
<1>7. /\ n2 \in Nat /\ v < n2 /\ Inner(v) \subseteq v + 1 .. n2 - 1
      /\ IsLeaf(v) \/ type(v) = "array"
      /\ type(v) = "array" => Inner(v) = v + 1 .. v + tokens[v].size
      /\ \A e \in Inner(v) : IsLeaf(e)
      /\ \A x \in DOMAIN tokens : v <= x /\ x < n2 => x = v \/ x \in Inner(v)
    BY <1>5, <1>6, DataRead
<1>8. n \in Nat \ {0} /\ v \in Nat /\ v = n + 1
    BY <1>3
<1> HIDE DEF f, d, t, n2, g
<1> HIDE DEF v, n
<1>9. n < n2 /\ n < v /\ \A x \in Nat : n <= x /\ x < n2 => x = n \/ v <= x
    BY <1>7, <1>8
<1>10. \A x \in Inner(v) : x \in DOMAIN tokens /\ x < n2 /\ v < x
    <2>1. \A x \in v + 1 .. n2 - 1 : x < n2 /\ v < x
        BY <1>7, <1>8
    <2> QED
        BY <1>6, <1>7, <2>1, InnerFacts
<1>11. \A x \in DOMAIN tokens : n <= x /\ x < n2 => x = n \/ x = v \/ x \in Inner(v)
    BY <1>7, <1>9, ReadyTokens
<1>12. \A x \in Inner(v) : x \notin Inner(t)
    <2> SUFFICES ASSUME NEW x \in Inner(v), x \in Inner(t)
                 PROVE  FALSE
        OBVIOUS
    <2>1. t = v
        BY <1>6, InnerOne
    <2> QED
        BY <1>6, <1>8, <2>1
<1>13. Passed(f, n, n2, b)
    <2> SUFFICES ASSUME NEW x \in DOMAIN tokens, n <= x, x < n2
                 PROVE  \E l \in DOMAIN tokens : x \in Inner(l) /\ (l = b[Len(f)] \/ n <= l)
        BY DEF Passed
    <2>1. CASE x = n \/ x = v
        BY <1>6, <2>1 DEF t, d, f
    <2>2. CASE x \in Inner(v)
        <3>1. n <= v
            BY <1>8
        <3> QED
            BY <1>6, <2>2, <3>1
    <2> QED
        BY <1>11, <2>1, <2>2
<1>14. Ahead(t, n2) = Ahead(t, n) \ {n, v}
    <2> SUFFICES ASSUME NEW x \in Inner(t)
                 PROVE  x >= n2 <=> x >= n /\ x # n /\ x # v
        BY DEF Ahead
    <2>1. x \in DOMAIN tokens /\ x \in Nat
        BY <1>6, InnerFacts, ReadyTokens
    <2>2. x >= n /\ ~(x >= n2) => x = n \/ x = v
        BY <1>7, <1>8, <1>11, <1>12, <2>1
    <2>3. x >= n2 => x >= n /\ x # n /\ x # v
        BY <1>7, <1>8, <1>9, <2>1
    <2> QED
        BY <2>1, <2>2, <2>3
<1>15. \A x \in DOMAIN tokens : n <= x /\ x < n2 => Ahead(x, n2) = {}
    <2> SUFFICES ASSUME NEW x \in DOMAIN tokens, n <= x, x < n2
                 PROVE  Ahead(x, n2) = {}
        OBVIOUS
    <2>1. CASE x = n
        BY <1>6, <2>1 DEF Ahead
    <2>2. CASE x = v
        <3>1. \A y \in Inner(v) : ~(y >= n2)
            <4>1. \A y \in DOMAIN tokens : y \in Nat
                BY ReadyTokens
            <4> QED
                BY <1>7, <1>10, <4>1
        <3> QED
            BY <2>2, <3>1 DEF Ahead
    <2>3. CASE x \in Inner(v)
        <3>1. Inner(x) = {}
            BY <1>7, <2>3, InnerFacts DEF IsLeaf, IsBracket
        <3> QED
            BY <3>1 DEF Ahead
    <2> QED
        BY <1>11, <2>1, <2>2, <2>3
<1>16. /\ frames' = g /\ Taken(f, g, 2) /\ DOMAIN g = DOMAIN f /\ g \in Seq(Frame)
       /\ NewProperty(n) \in Property
    BY AddPropertyShape DEF g, f, Shape, n
<1>17. Walk(g, n2, b)
    <2>1. n <= n2
        BY <1>7, <1>8, <1>9
    <2>2. Cardinality(Ahead(b[Len(f)], n2)) = Cardinality(Ahead(b[Len(f)], n)) - 2
        BY <1>6, <1>14 DEF t, d, f
    <2>3. 2 \in Nat
        OBVIOUS
    <2> QED
        BY <1>2, <1>3, <1>7, <1>8, <1>13, <1>15, <1>16, <2>1, <2>2, <2>3, WalkKeeps
<1>18. \A x \in DOMAIN tokens : n <= x /\ x < n2 => Rooted(x) /\ ~IsObject(x)
    <2>1. Rooted(v) /\ ~IsObject(v)
        BY <1>6, <1>7 DEF IsLeaf, IsObject
    <2>2. \A x \in Inner(v) : Rooted(x)
        <3>1. IsBracket(1) /\ 1 <= v
            BY <1>6, <1>8 DEF IsBracket, IsObject
        <3> QED
            BY <1>6, <2>1, <3>1, InsideMatch DEF Rooted
    <2>3. \A x \in Inner(v) : ~IsObject(x)
        BY <1>7 DEF IsLeaf, IsObject
    <2> QED
        BY <1>6, <1>11, <2>1, <2>2, <2>3
<1>19. GoodSoFar(t, n, n2)
    <2>1. v = n + 1
        BY DEF n, v
    <2>2. type(v) = "array" => Inner(v) = n + 2 .. v + tokens[v].size
        <3>1. v + 1 = n + 2
            BY <1>8
        <3> QED
            BY <1>7, <3>1
    <2> QED
        BY <1>5, <1>6, <1>7, <2>1, <2>2 DEF GoodSoFar, n
<1>20. \A x \in DOMAIN tokens : n <= x /\ x < n2 /\ IsKey(t, x) => x = n
    BY <1>6, <1>11, <1>12 DEF IsKey
<1>21. Seen(n2)
    <2>1. n <= n2
        BY <1>7, <1>8, <1>9
    <2>2. \A x \in DOMAIN tokens : n <= x /\ x < n2 =>
               /\ Rooted(x)
               /\ IsObject(x) => tokens[x].size % 2 = 0 /\ x + 1 = n2
               /\ ~IsNode(f[Len(f)]) => IsObject(x)
               /\ IsNode(f[Len(f)]) /\ IsKey(b[Len(f)], x) => GoodSoFar(b[Len(f)], x, n2)
        BY <1>5, <1>18, <1>19, <1>20 DEF t, d, f
    <2> QED
        BY <1>1, <1>2, <1>3, <1>7, <1>8, <1>13, <2>1, <2>2, SeenOn
<1>22. \A j \in DOMAIN tokens : \A x \in StringKeys(j) :
              j < n /\ n <= x /\ x < n2 => j = t /\ x = n
    <2> SUFFICES ASSUME NEW j \in DOMAIN tokens, NEW x \in StringKeys(j), j < n, n <= x, x < n2
                 PROVE  j = t /\ x = n
        OBVIOUS
    <2>1. x \in Inner(j) /\ IsKey(j, x) /\ x \in DOMAIN tokens
        BY InnerFacts DEF StringKeys
    <2>2. CASE x = n
        BY <1>6, <2>1, <2>2, InnerOne
    <2>3. CASE x = v
        <3>1. j = t
            BY <1>6, <2>1, <2>3, InnerOne
        <3> QED
            BY <1>6, <2>1, <2>3, <3>1
    <2>4. CASE x \in Inner(v)
        <3>1. j = v
            BY <1>6, <2>1, <2>4, InnerOne
        <3>2. ~(v < n)
            BY <1>8
        <3> QED
            BY <3>1, <3>2
    <2> QED
        BY <1>11, <2>1, <2>2, <2>3, <2>4
<1>23. Growing(g, n2, nodes', node_count, b)
    <2>1. n \in StringKeys(b[Len(f)]) /\ IsNode(f[Len(f)])
        BY <1>5, <1>6 DEF StringKeys, t, d, f, n
    <2>2. nodes' = [nodes EXCEPT ![f[Len(f)].node].properties = Append(@, NewProperty(n))]
        BY <1>5 DEF AddProperty, NewProperty, n, d, f
    <2>3. 2 \in Nat
        OBVIOUS
    <2>4. \A x \in DOMAIN tokens : n <= x /\ x < n2 => ~IsObject(x)
        BY <1>18
    <2>5. \A j \in DOMAIN tokens : \A x \in StringKeys(j) :
              j < n /\ n <= x /\ x < n2 => j = b[Len(f)] /\ x = n
        BY <1>22 DEF t, d, f
    <2>6. f \in Seq(Frame) /\ n < n2
        BY <1>3, <1>9
    <2> QED
        BY <1>2, <1>3, <1>4, <1>7, <1>8, <1>16, <2>1, <2>2, <2>3, <2>4, <2>5, <2>6, GrowProperty
<1>24. frames' = g /\ i' = n2 /\ node_count' = node_count
    BY <1>16 DEF AddProperty, n2
<1> QED
    BY <1>17, <1>21, <1>23, <1>24 DEF Regular

-----------------------------------------------------------------------------
(* A call made: the frames below it, and its own. *)
LEMMA OneCall ==
    ASSUME frames \in Seq(Frame), frames # <<>>, NEW k \in Nat, NEW call \in Frame
    PROVE  /\ Took(k, <<call>>) \in Seq(Frame) /\ Took(k, <<call>>) # <<>>
           /\ Taken(frames, Took(k, <<call>>), k)
           /\ Len(Took(k, <<call>>)) = Len(frames) + 1
           /\ Len(frames) + 1 \in DOMAIN Took(k, <<call>>)
           /\ Took(k, <<call>>)[Len(frames) + 1] = call
<1> DEFINE one == <<call>>
<1>1. one \in Seq(Frame) /\ Len(one) = 1 /\ one[1] = call /\ 1 \in 1 .. Len(one)
    OBVIOUS
<1>2. Len(frames) \in Nat
    OBVIOUS
<1> HIDE DEF one
<1>3. /\ Took(k, one) \in Seq(Frame) /\ Taken(frames, Took(k, one), k)
      /\ Len(Took(k, one)) = Len(frames) + Len(one)
      /\ \A m \in 1 .. Len(one) : Took(k, one)[Len(frames) + m] = one[m]
    BY <1>1, TookFrames
<1>4. Took(k, one)[Len(frames) + 1] = call
    BY <1>1, <1>3
<1> DEFINE g == Took(k, one)
<1>5. g \in Seq(Frame) /\ Len(g) = Len(frames) + 1
    BY <1>1, <1>3
<1> HIDE DEF g
<1>6. Len(frames) + 1 \in DOMAIN g /\ g # <<>>
    BY <1>2, <1>5
<1> QED
    BY <1>3, <1>4, <1>5, <1>6 DEF one, g

LEMMA WalkChildrenShape ==
    ASSUME Ready, Shape(frames, i, nodes, node_count), WalkChildren
    PROVE  /\ Shape(frames', i', nodes', node_count')
           /\ i + 1 \in DOMAIN tokens
           /\ Taken(frames, frames', 2) /\ Len(frames') = Len(frames) + 1
           /\ ~IsNode(frames'[Len(frames) + 1])
           /\ frames'[Len(frames) + 1].node = top.node
           /\ frames'[Len(frames) + 1].nested = tokens[i + 1].size
<1>1. /\ frames \in Seq(Frame) /\ frames # <<>> /\ i \in Nat \ {0}
      /\ nodes \in Seq(TreeNode) /\ node_count \in Nat
    BY DEF Shape
<1>2. i + 1 \in DOMAIN tokens
    <2>1. Known(i + 1)
        BY DEF WalkChildren
    <2> QED
        BY <1>1, <2>1, ReadyTokens DEF Known
<1> DEFINE call == [call |-> "walk_children", node |-> top.node, nested |-> tokens[i + 1].size]
<1>3. call \in Frame
    <2>1. top.node \in Nat
        BY <1>1, TopFrame DEF Frame
    <2>2. tokens[i + 1].size \in Int
        BY <1>2, ReadyTokens
    <2> QED
        BY <2>1, <2>2 DEF Frame
<1>4. frames' = Took(2, <<call>>) /\ i' = i + 2 /\ nodes' = nodes /\ node_count' = node_count
    BY DEF WalkChildren, EntrySize
<1>5. ~IsNode(call) /\ call.node = top.node /\ call.nested = tokens[i + 1].size
    BY DEF IsNode
<1> HIDE DEF call
<1>6. /\ frames' \in Seq(Frame) /\ frames' # <<>>
      /\ Taken(frames, frames', 2) /\ Len(frames') = Len(frames) + 1
      /\ frames'[Len(frames) + 1] = call
    <2>1. 2 \in Nat
        OBVIOUS
    <2> QED
        BY <1>1, <1>3, <1>4, <2>1, OneCall
<1>7. i + 2 \in Nat \ {0}
    BY <1>1
<1> QED
    BY <1>1, <1>2, <1>4, <1>5, <1>6, <1>7 DEF Shape

LEMMA WalkChildrenRegular ==
    ASSUME Ready, Shape(frames, i, nodes, node_count), WalkChildren,
           Regular(frames, i, nodes, node_count)
    PROVE  Regular(frames', i', nodes', node_count')
<1> DEFINE f == frames
           d == Len(frames)
           n == i
           v == i + 1
           n2 == v + 1
           g == frames'
<1>1. Seen(n) /\ \E b : Walk(f, n, b) /\ Growing(f, n, nodes, node_count, b)
    BY DEF Regular
<1>2. PICK b : Walk(f, n, b) /\ Growing(f, n, nodes, node_count, b)
    BY <1>1
<1> DEFINE t == b[d]
<1>3. /\ f \in Seq(Frame) /\ f # <<>> /\ n \in Nat \ {0}
      /\ nodes \in Seq(TreeNode) /\ node_count \in Nat
    BY DEF Shape
<1>4. Stack(f, n, b)
    BY <1>2 DEF Walk
<1>5. /\ top = f[d] /\ IsNode(f[d]) /\ f[d].nested # 0 /\ type(n) = "children" /\ type(v) = "array"
    BY <1>3, TopFrame DEF WalkChildren, In, IsNode
<1>6. /\ t \in DOMAIN tokens /\ t \in Nat /\ t < n /\ IsObject(t) /\ Rooted(t)
      /\ n \in Inner(t) /\ n \in DOMAIN tokens /\ IsKey(t, n)
      /\ v \in Inner(t) /\ v \in DOMAIN tokens /\ ~IsKey(t, v)
      /\ Cardinality(Ahead(t, n) \ {n, v}) = Cardinality(Ahead(t, n)) - 2
      /\ Inner(n) = {} /\ ~IsObject(n) /\ Rooted(n) /\ Rooted(v)
      /\ 1 \in DOMAIN tokens /\ IsObject(1)
    BY <1>1, <1>2, <1>3, <1>5, EntryTokens
<1>7. /\ n \in Nat \ {0} /\ v \in Nat /\ v = n + 1 /\ v - 1 = n /\ n <= v /\ n <= n2 /\ n2 \in Nat
      /\ \A x \in Nat : n <= x /\ x < n2 => x = n \/ x = v
      /\ \A x \in Nat : n <= x /\ x < v => x = n
    BY <1>3
<1>8. /\ g \in Seq(Frame) /\ Taken(f, g, 2) /\ Len(g) = d + 1
      /\ ~IsNode(g[d + 1]) /\ g[d + 1].node = f[d].node /\ g[d + 1].nested = tokens[v].size
      /\ i' = n2 /\ nodes' = nodes /\ node_count' = node_count
    <2>1. i' = i + 2 /\ nodes' = nodes /\ node_count' = node_count
        BY DEF WalkChildren
    <2>2. i + 2 = (i + 1) + 1
        BY <1>3
    <2> QED
        BY <1>5, <2>1, <2>2, WalkChildrenShape DEF Shape
<1> HIDE DEF f, d, t, g
<1> HIDE DEF v, n
<1>9. \A x \in DOMAIN tokens : x \in Nat
    BY ReadyTokens
<1>10. Passed(f, n, n2, b)
    <2> SUFFICES ASSUME NEW x \in DOMAIN tokens, n <= x, x < n2
                 PROVE  \E l \in DOMAIN tokens : x \in Inner(l) /\ (l = b[Len(f)] \/ n <= l)
        BY DEF Passed
    <2>1. x = n \/ x = v
        BY <1>7, <1>9
    <2> QED
        BY <1>6, <2>1 DEF t, d, f
<1>11. Ahead(t, n2) = Ahead(t, n) \ {n, v}
    <2> SUFFICES ASSUME NEW x \in Inner(t)
                 PROVE  x >= n2 <=> x >= n /\ x # n /\ x # v
        BY DEF Ahead
    <2>1. x \in Nat
        BY <1>6, <1>9, InnerFacts
    <2> QED
        BY <1>7, <2>1
<1>12. Walk(g, n2, Pushed(f, b, v))
    <2>1. Cardinality(Ahead(b[Len(f)], n2)) = Cardinality(Ahead(b[Len(f)], n)) - 2
        BY <1>6, <1>11 DEF t, d, f
    <2>2. \A y \in DOMAIN tokens : n <= y /\ y < v => Ahead(y, n2) = {}
        BY <1>6, <1>7, <1>9 DEF Ahead
    <2>3. v \in Inner(b[Len(f)]) /\ IsKey(b[Len(f)], v - 1) /\ type(v - 1) = "children"
        BY <1>5, <1>6, <1>7 DEF t, d, f, n
    <2>4. /\ Len(g) = Len(f) + 1 /\ g[Len(g)].nested = tokens[v].size
          /\ IsNode(g[Len(g)]) <=> ~IsNode(f[Len(f)])
          /\ type(v) = IF IsNode(g[Len(g)]) THEN "object" ELSE "array"
        BY <1>5, <1>8 DEF d, f, v
    <2>5. 2 \in Nat
        OBVIOUS
    <2> QED
        BY <1>2, <1>3, <1>7, <1>8, <1>10, <2>1, <2>2, <2>3, <2>4, <2>5, WalkPushes
<1>13. GoodSoFar(t, n, n2)
    <2>1. v = n + 1
        BY DEF n, v
    <2>2. v < n2 /\ \A e \in Inner(v) : ~(e < n2)
        <3>1. \A e \in Inner(v) : e \in Nat /\ v < e
            BY <1>6, <1>9, InnerFacts
        <3> QED
            BY <1>7, <3>1
    <2> QED
        BY <1>5, <1>6, <2>1, <2>2 DEF GoodSoFar, n
<1>14. Seen(n2)
    <2>1. \A x \in DOMAIN tokens : n <= x /\ x < n2 =>
               /\ Rooted(x)
               /\ IsObject(x) => tokens[x].size % 2 = 0 /\ x + 1 = n2
               /\ ~IsNode(f[Len(f)]) => IsObject(x)
               /\ IsNode(f[Len(f)]) /\ IsKey(b[Len(f)], x) => GoodSoFar(b[Len(f)], x, n2)
        <3>1. ~IsObject(v)
            BY <1>5 DEF IsObject
        <3> QED
            BY <1>5, <1>6, <1>7, <1>9, <1>13, <3>1 DEF t, d, f
    <2> QED
        BY <1>1, <1>2, <1>3, <1>7, <1>10, <2>1, SeenOn
<1>15. Growing(g, n2, nodes, node_count, Pushed(f, b, v))
    <2>1. \A y \in DOMAIN tokens : n <= y /\ y < n2 => ~IsObject(y) /\ type(y) # "string"
        <3>1. ~IsObject(v) /\ type(v) # "string" /\ type(n) # "string"
            BY <1>5 DEF IsObject
        <3> QED
            BY <1>6, <1>7, <1>9, <3>1
    <2>2. Len(g) = Len(f) + 1 /\ ~IsNode(g[Len(g)]) /\ g[Len(g)].node = f[Len(f)].node
        BY <1>8 DEF d, f
    <2>3. 2 \in Nat /\ IsNode(f[Len(f)])
        BY <1>5 DEF d, f
    <2> QED
        BY <1>2, <1>3, <1>4, <1>7, <1>8, <2>1, <2>2, <2>3, GrowWalks
<1> QED
    BY <1>8, <1>12, <1>14, <1>15 DEF Regular, g

LEMMA AddChildShape ==
    ASSUME Ready, Shape(frames, i, nodes, node_count), AddChild, Known(i), IsObject(i)
    PROVE  /\ Shape(frames', i', nodes', node_count')
           /\ i \in DOMAIN tokens
           /\ Taken(frames, frames', 1) /\ Len(frames') = Len(frames) + 1
           /\ Len(frames) + 1 \in DOMAIN frames'
           /\ IsNode(frames'[Len(frames) + 1])
           /\ frames'[Len(frames) + 1].node = Len(nodes) + 1
           /\ frames'[Len(frames) + 1].nested = tokens[i].size
<1>1. /\ frames \in Seq(Frame) /\ frames # <<>> /\ i \in Nat \ {0}
      /\ nodes \in Seq(TreeNode) /\ node_count \in Nat
    BY DEF Shape
<1>2. i \in DOMAIN tokens
    BY <1>1, ReadyTokens DEF Known
<1> DEFINE call == [call |-> "build_node", node |-> Len(nodes) + 1, nested |-> tokens[i].size]
<1>3. call \in Frame
    <2>1. Len(nodes) + 1 \in Nat /\ tokens[i].size \in Int
        BY <1>1, <1>2, ReadyTokens
    <2> QED
        BY <2>1 DEF Frame
<1>4. /\ frames' = Took(1, <<call>>) /\ i' = i + 1 /\ nodes' = Append(nodes, Node(top.node))
      /\ node_count' = node_count
    BY DEF AddChild, IsObject
<1>5. IsNode(call) /\ call.node = Len(nodes) + 1 /\ call.nested = tokens[i].size
    BY DEF IsNode
<1> HIDE DEF call
<1>6. /\ frames' \in Seq(Frame) /\ frames' # <<>>
      /\ Taken(frames, frames', 1) /\ Len(frames') = Len(frames) + 1
      /\ Len(frames) + 1 \in DOMAIN frames'
      /\ frames'[Len(frames) + 1] = call
    <2>1. 1 \in Nat
        OBVIOUS
    <2> QED
        BY <1>1, <1>3, <1>4, <2>1, OneCall
<1>7. i + 1 \in Nat \ {0}
    BY <1>1
<1>8. nodes' \in Seq(TreeNode)
    <2> DEFINE new == Node(top.node)
    <2>1. new \in TreeNode
        <3>1. top.node \in Nat
            BY <1>1, TopFrame DEF Frame
        <3>2. <<>> \in Seq(Property)
            OBVIOUS
        <3> QED
            BY <3>1, <3>2 DEF Node, TreeNode
    <2> HIDE DEF new
    <2>2. Append(nodes, new) \in Seq(TreeNode)
        BY <1>1, <2>1
    <2> QED
        BY <1>4, <2>2 DEF new
<1> QED
    BY <1>1, <1>2, <1>4, <1>5, <1>6, <1>7, <1>8 DEF Shape

-----------------------------------------------------------------------------
(* walk_children's array, seen from the top of the stack. *)
LEMMA ChildToken ==
    ASSUME Ready, NEW f \in Seq(Frame), NEW n \in Nat \ {0}, NEW b, Walk(f, n, b), Seen(n),
           ~IsNode(f[Len(f)]), f[Len(f)].nested # 0
    PROVE  LET t == b[Len(f)]
               j == b[Len(f) - 1]
           IN  /\ t \in DOMAIN tokens /\ t \in Nat /\ t < n
               /\ n \in Inner(t) /\ n \in DOMAIN tokens /\ Rooted(n)
               /\ 1 \in DOMAIN tokens /\ IsObject(1)
               /\ j \in DOMAIN tokens /\ IsObject(j) /\ Rooted(j)
               /\ t - 1 \in DOMAIN tokens /\ IsKey(j, t - 1) /\ type(t - 1) = "children"
               /\ t - 1 + 1 \in Inner(j) /\ t - 1 + 1 = t
<1> DEFINE t == b[Len(f)]
           j == b[Len(f) - 1]
<1>1. Stack(f, n, b)
    BY DEF Walk
<1>2. /\ Len(f) \in DOMAIN f /\ t \in DOMAIN tokens /\ t \in Nat \ {0} /\ t < n
      /\ 1 \in DOMAIN tokens /\ IsObject(1) /\ DOMAIN f = 1 .. Len(f) /\ Len(f) \in Nat \ {0}
    BY <1>1, StackFacts
<1>3. n \in Inner(t) /\ n \in DOMAIN tokens
    BY NextToken
<1>4. Rooted(t)
    BY <1>2 DEF Seen
<1>5. Len(f) # 1 /\ IsNode(f[Len(f) - 1]) /\ Len(f) - 1 \in DOMAIN f
    <2>1. Len(f) # 1 /\ IsNode(f[Len(f) - 1])
        BY <1>1, <1>2 DEF Stack
    <2>2. Len(f) - 1 \in 1 .. Len(f)
        BY <1>2, <2>1
    <2> QED
        BY <1>2, <2>1, <2>2
<1>6. j \in DOMAIN tokens /\ j < n /\ IsObject(j) /\ t \in Inner(j)
    BY <1>1, <1>2, <1>5, StackFacts DEF Stack, IsObject
<1>7. Rooted(j)
    BY <1>6 DEF Seen
<1>8. IsKey(j, t - 1) /\ type(t - 1) = "children"
    BY <1>2 DEF Walk, Keyed
<1>9. t - 1 \in DOMAIN tokens /\ t - 1 + 1 = t
    BY <1>2, <1>6, <1>8, InnerFacts DEF IsKey
<1>10. Rooted(n)
    <2>1. IsBracket(1) /\ 1 <= t
        BY <1>2 DEF IsBracket, IsObject
    <2> QED
        BY <1>2, <1>3, <1>4, <2>1, InsideMatch DEF Rooted
<1> QED
    BY <1>2, <1>3, <1>4, <1>6, <1>7, <1>8, <1>9, <1>10

LEMMA AddChildRegular ==
    ASSUME Ready, Shape(frames, i, nodes, node_count), AddChild, Known(i), IsObject(i),
           Regular(frames, i, nodes, node_count)
    PROVE  OddCount(frames') \/ Regular(frames', i', nodes', node_count')
<1> DEFINE f == frames
           d == Len(frames)
           n == i
           n2 == i + 1
           g == frames'
<1>1. Seen(n) /\ \E b : Walk(f, n, b) /\ Growing(f, n, nodes, node_count, b)
    BY DEF Regular
<1>2. PICK b : Walk(f, n, b) /\ Growing(f, n, nodes, node_count, b)
    BY <1>1
<1> DEFINE t == b[d]
<1>3. /\ f \in Seq(Frame) /\ f # <<>> /\ n \in Nat \ {0}
      /\ nodes \in Seq(TreeNode) /\ node_count \in Nat
    BY DEF Shape
<1>4. Stack(f, n, b)
    BY <1>2 DEF Walk
<1>5. /\ top = f[d] /\ ~IsNode(f[d]) /\ f[d].nested # 0 /\ top.node \in Nat
    <2>1. top = f[d] /\ top \in Frame
        BY <1>3, TopFrame
    <2>2. top.node \in Nat
        BY <2>1 DEF Frame
    <2> QED
        BY <2>1, <2>2 DEF AddChild, In, IsNode
<1>6. /\ t \in DOMAIN tokens /\ t \in Nat /\ t < n /\ n \in Inner(t) /\ n \in DOMAIN tokens
      /\ Rooted(n) /\ 1 \in DOMAIN tokens
    BY <1>1, <1>2, <1>3, <1>5, ChildToken
<1>7. /\ n \in Nat /\ n <= n /\ n <= n2 /\ n2 \in Nat /\ n2 = n + 1
      /\ \A x \in Nat : n <= x /\ x < n2 => x = n
      /\ \A x \in Nat : ~(n <= x /\ x < n)
    BY <1>3
<1>8. /\ g \in Seq(Frame) /\ Taken(f, g, 1) /\ Len(g) = d + 1 /\ d + 1 \in DOMAIN g
      /\ IsNode(g[d + 1]) /\ g[d + 1].node = Len(nodes) + 1 /\ g[d + 1].nested = tokens[n].size
      /\ i' = n2 /\ nodes' = Append(nodes, Node(f[d].node)) /\ node_count' = node_count
    <2>1. i' = i + 1 /\ nodes' = Append(nodes, Node(top.node)) /\ node_count' = node_count
        BY DEF AddChild, IsObject
    <2> QED
        BY <1>5, <2>1, AddChildShape DEF Shape
<1>9. CASE tokens[n].size % 2 = 1
    <2>1. HasOdd
        BY <1>6, <1>9, OddObject
    <2> QED
        BY <1>8, <1>9, <2>1 DEF OddCount
<1>10. CASE tokens[n].size % 2 = 0
    <2> HIDE DEF f, d, t, g
    <2> HIDE DEF n
    <2>1. \A x \in DOMAIN tokens : x \in Nat
        BY ReadyTokens
    <2>2. Passed(f, n, n2, b)
        <3> SUFFICES ASSUME NEW x \in DOMAIN tokens, n <= x, x < n2
                     PROVE  \E l \in DOMAIN tokens : x \in Inner(l) /\ (l = b[Len(f)] \/ n <= l)
            BY DEF Passed
        <3>1. x = n
            BY <1>7, <2>1
        <3> QED
            BY <1>6, <3>1 DEF t, d, f
    <2>3. Cardinality(Ahead(t, n2)) = Cardinality(Ahead(t, n)) - 1
        <3>1. Ahead(t, n2) = Ahead(t, n) \ {n}
            <4> SUFFICES ASSUME NEW x \in Inner(t)
                         PROVE  x >= n2 <=> x >= n /\ x # n
                BY DEF Ahead
            <4>1. x \in Nat
                BY <1>6, <2>1, InnerFacts
            <4> QED
                BY <1>7, <4>1
        <3>2. n \in Ahead(t, n)
            BY <1>6, <1>7 DEF Ahead
        <3>3. IsFiniteSet(Ahead(t, n))
            <4>1. Ahead(t, n) \in SUBSET Inner(t)
                BY DEF Ahead
            <4> QED
                BY <1>6, <4>1, InnerSubset
        <3> QED
            BY <3>1, <3>2, <3>3, FS_RemoveElement
    <2>4. n \in Nat \ {0} /\ IsObject(n)
        BY <1>3 DEF n
    <2>5. /\ Len(g) = Len(f) + 1 /\ g[Len(g)].nested = tokens[n].size
          /\ g[Len(g)].node = Len(nodes) + 1
          /\ IsNode(g[Len(g)]) /\ ~IsNode(f[Len(f)])
          /\ type(n) = "object" /\ 1 \in Nat
        BY <1>5, <1>8, <2>4 DEF d, f, IsObject
    <2>6. Walk(g, n + 1, Pushed(f, b, n))
        <3>1. Cardinality(Ahead(b[Len(f)], n + 1)) = Cardinality(Ahead(b[Len(f)], n)) - 1
            BY <1>7, <2>3 DEF t, d, f
        <3>2. \A y \in DOMAIN tokens : n <= y /\ y < n => Ahead(y, n + 1) = {}
            BY <1>7, <2>1
        <3>3. n \in Inner(b[Len(f)]) /\ Passed(f, n, n + 1, b)
            BY <1>6, <1>7, <2>2 DEF t, d, f
        <3> QED
            BY <1>2, <1>3, <1>7, <1>8, <2>4, <2>5, <3>1, <3>2, <3>3, WalkPushes
    <2>7. Seen(n2)
        <3>1. \A x \in DOMAIN tokens : n <= x /\ x < n2 =>
                   /\ Rooted(x)
                   /\ IsObject(x) => tokens[x].size % 2 = 0 /\ x + 1 = n2
                   /\ ~IsNode(f[Len(f)]) => IsObject(x)
                   /\ IsNode(f[Len(f)]) /\ IsKey(b[Len(f)], x) => GoodSoFar(b[Len(f)], x, n2)
            BY <1>6, <1>7, <1>10, <2>1, <2>4, <2>5
        <3>2. Seen(n)
            BY <1>1 DEF n
        <3> QED
            BY <1>2, <1>3, <1>7, <2>2, <2>4, <3>1, <3>2, SeenOn
    <2>8. Growing(g, n + 1, nodes', node_count, Pushed(f, b, n))
        <3>1. n \in Inner(b[Len(f)])
            BY <1>6 DEF t, d, f
        <3>2. nodes' = Append(nodes, Node(f[Len(f)].node)) /\ f[Len(f)].node \in Nat
            BY <1>5, <1>8 DEF d, f
        <3> QED
            BY <1>2, <1>3, <1>4, <1>8, <2>4, <2>5, <3>1, <3>2, GrowChild
    <2>9. Regular(g, n2, nodes', node_count)
        BY <1>7, <2>6, <2>7, <2>8 DEF Regular
    <2> QED
        BY <1>8, <2>9 DEF g
<1>11. tokens[n].size \in Nat
    BY <1>6, ReadyTokens
<1>12. tokens[n].size % 2 = 0 \/ tokens[n].size % 2 = 1
    BY <1>11
<1> QED
    BY <1>9, <1>10, <1>12

(* A child that is not an object, or an entry that is not one of a node,   *)
(* is refused: the document is not well-formed.                            *)
LEMMA BadChild ==
    ASSUME Ready, Shape(frames, i, nodes, node_count), Regular(frames, i, nodes, node_count),
           In("walk_children"), top.nested # 0, ~(Known(i) /\ IsObject(i))
    PROVE  Known(i) /\ ~WellFormed(doc)
<1>1. PICK b : Seen(i) /\ Walk(frames, i, b)
    BY DEF Regular
<1>2. /\ frames \in Seq(Frame) /\ frames # <<>> /\ i \in Nat \ {0}
    BY DEF Shape
<1>3. ~IsNode(frames[Len(frames)]) /\ frames[Len(frames)].nested # 0
    BY <1>2, TopFrame DEF In, IsNode
<1> DEFINE t == b[Len(frames)]
           j == b[Len(frames) - 1]
           k == t - 1
<1>4. /\ t \in DOMAIN tokens /\ i \in Inner(t) /\ i \in DOMAIN tokens /\ 1 \in DOMAIN tokens
      /\ j \in DOMAIN tokens /\ IsObject(j) /\ Rooted(j)
      /\ k \in DOMAIN tokens /\ IsKey(j, k) /\ type(k) = "children"
      /\ k + 1 \in Inner(j) /\ k + 1 = t
    BY <1>1, <1>2, <1>3, ChildToken
<1> HIDE DEF k, j, t
<1>5. Known(i)
    BY <1>2, <1>4, ReadyTokens DEF Known
<1>6. WellFormed(doc) => \A e \in Inner(k + 1) : IsObject(e)
    BY <1>4, GoodEntries
<1>7. i \in Inner(k + 1)
    BY <1>4
<1> QED
    BY <1>5, <1>6, <1>7

LEMMA BadEntries ==
    ASSUME Ready, Shape(frames, i, nodes, node_count), Regular(frames, i, nodes, node_count),
           In("build_node"), top.nested # 0
    PROVE  ~EntryOverrun /\ (BadEntry => ~WellFormed(doc))
<1>1. PICK b : Seen(i) /\ Walk(frames, i, b)
    BY DEF Regular
<1>2. /\ frames \in Seq(Frame) /\ frames # <<>> /\ i \in Nat \ {0}
    BY DEF Shape
<1>3. IsNode(frames[Len(frames)]) /\ frames[Len(frames)].nested # 0
    BY <1>2, TopFrame DEF In, IsNode
<1> DEFINE t == b[Len(frames)]
           v == i + 1
<1>4. /\ t \in DOMAIN tokens /\ t < i /\ IsObject(t) /\ 1 \in DOMAIN tokens
    BY <1>1, <1>2, <1>3, StackFacts DEF Walk, Stack, IsObject
<1>5. i \in Inner(t) /\ i \in DOMAIN tokens /\ IsKey(t, i) /\ Rooted(t)
    BY <1>1, <1>2, <1>3, <1>4, AtKey DEF Seen
<1>6. Known(i)
    BY <1>2, <1>5, ReadyTokens DEF Known
<1>7. ASSUME type(i) \in {"string", "children"}
      PROVE  v \in DOMAIN tokens /\ v \in Inner(t) /\ Known(v)
    <2>1. v \in DOMAIN tokens /\ v \in Inner(t)
        BY <1>1, <1>2, <1>3, <1>7, EntryTokens
    <2> HIDE DEF v
    <2> QED
        BY <2>1, ReadyTokens DEF Known
<1>8. ~EntryOverrun
    BY <1>6, <1>7 DEF EntryOverrun
<1>9. ASSUME BadEntry, WellFormed(doc)
      PROVE  FALSE
    <2>1. type(i) \in {"string", "children"}
        BY <1>4, <1>5, <1>9, GoodEntries
    <2>2. v \in DOMAIN tokens /\ v \in Inner(t)
        BY <1>7, <2>1
    <2>3. /\ type(i) = "string" /\ ~IsLeaf(v) =>
                type(v) = "array" /\ \A e \in Inner(v) : IsLeaf(e)
          /\ type(i) = "children" => type(v) = "array"
        BY <1>4, <1>5, <1>9, <2>2, GoodEntries
    <2>4. type(i) = "string" /\ ~IsData(v)
        BY <1>9, <2>1, <2>3 DEF BadEntry
    <2> HIDE DEF v
    <2>5. ~IsLeaf(v)
        BY <2>4 DEF IsData, ValueTokens, IsLeaf
    <2>6. \A e \in Inner(v) : IsLeaf(e)
        BY <2>3, <2>4, <2>5
    <2>7. Inner(v) = v + 1 .. v + tokens[v].size
        BY <2>2, <2>6, ElementsFollow
    <2>8. IsData(v)
        BY <2>3, <2>4, <2>5, <2>6, <2>7 DEF IsData, ValueTokens, IsLeaf
    <2> QED
        BY <2>4, <2>8
<1> QED
    BY <1>8, <1>9

-----------------------------------------------------------------------------
(* The end of a call that is not the outermost. *)
LEMMA CallEnds ==
    ASSUME Ready, Shape(frames, i, nodes, node_count), top.nested = 0, Len(frames) # 1,
           OddCount(frames) \/ Regular(frames, i, nodes, node_count)
    PROVE  LET c == IF IsNode(top) THEN node_count + 1 ELSE node_count
           IN  /\ Shape(Front(frames), i, nodes, c)
               /\ OddCount(Front(frames)) \/ Regular(Front(frames), i, nodes, c)
<1> DEFINE c == IF IsNode(top) THEN node_count + 1 ELSE node_count
           g == Front(frames)
<1>1. /\ frames \in Seq(Frame) /\ frames # <<>> /\ i \in Nat \ {0}
      /\ nodes \in Seq(TreeNode) /\ node_count \in Nat
    BY DEF Shape
<1>2. c \in Nat
    BY <1>1
<1>3. /\ g \in Seq(Frame) /\ Len(g) = Len(frames) - 1 /\ top = frames[Len(frames)]
      /\ \A m \in DOMAIN g : g[m] = frames[m]
      /\ Len(frames) \in Nat \ {0}
    BY <1>1, TopFrame
<1> HIDE DEF g, c
<1>4. g # <<>>
    BY <1>3
<1>5. Shape(g, i, nodes, c)
    BY <1>1, <1>2, <1>3, <1>4 DEF Shape
<1>6. ASSUME OddCount(frames)
      PROVE  OddCount(g)
    BY <1>1, <1>6, OddPopped DEF g
<1>7. ASSUME Regular(frames, i, nodes, node_count)
      PROVE  Regular(g, i, nodes, c)
    <2>1. PICK b : Walk(frames, i, b) /\ Growing(frames, i, nodes, node_count, b)
        BY <1>7 DEF Regular
    <2>2. frames[Len(frames)].nested = 0
        BY <1>3
    <2>3. Walk(g, i, Popped(frames, b))
        BY <1>1, <1>3, <2>1, <2>2, WalkPops
    <2>4. Growing(g, i, nodes, IF IsNode(frames[Len(frames)]) THEN node_count + 1 ELSE node_count,
                  Popped(frames, b))
        <3>1. Stack(frames, i, b)
            BY <2>1 DEF Walk
        <3> QED
            BY <1>1, <1>3, <2>1, <3>1, GrowPops
    <2>5. c = IF IsNode(frames[Len(frames)]) THEN node_count + 1 ELSE node_count
        BY <1>3 DEF c
    <2>6. Growing(g, i, nodes, c, Popped(frames, b))
        BY <2>4, <2>5
    <2> QED
        BY <1>7, <2>3, <2>6 DEF Regular
<1> QED
    BY <1>5, <1>6, <1>7 DEF g, c

(* walk_children is never the outermost call. *)
LEMMA OuterIsNode ==
    ASSUME Ready, Shape(frames, i, nodes, node_count), ~IsNode(top),
           OddCount(frames) \/ Regular(frames, i, nodes, node_count)
    PROVE  Len(frames) # 1
<1>1. frames \in Seq(Frame) /\ frames # <<>> /\ i \in Nat \ {0}
    BY DEF Shape
<1>2. top = frames[Len(frames)] /\ DOMAIN frames = 1 .. Len(frames)
    BY <1>1, TopFrame
<1>3. OddCount(frames) => Len(frames) # 1
    BY <1>1, OddPopped
<1>4. Regular(frames, i, nodes, node_count) => IsNode(frames[1])
    BY DEF Regular, Walk, Stack
<1> QED
    BY <1>2, <1>3, <1>4

-----------------------------------------------------------------------------
(* The end of the root: all the tokens in it have been passed. *)
AllPassed(n) ==
    /\ 1 \in DOMAIN tokens /\ IsObject(1) /\ Seen(n)
    /\ \A k \in DOMAIN tokens : Rooted(k) <=> k < n

LEMMA RootEnds ==
    ASSUME Ready, Shape(frames, i, nodes, node_count), top.nested = 0, Len(frames) = 1,
           NEW b, Walk(frames, i, b), Seen(i)
    PROVE  AllPassed(i)
<1>1. frames \in Seq(Frame) /\ i \in Nat \ {0} /\ frames[1].nested = 0
    BY TopFrame DEF Shape
<1>2. /\ b[1] = 1 /\ 1 < i /\ 1 \in DOMAIN tokens /\ IsObject(1)
      /\ DOMAIN frames = {1}
    <2>1. b[1] = 1 /\ 1 \in DOMAIN frames /\ b[1] < i
        BY <1>1 DEF Walk, Stack
    <2> QED
        BY <1>1, <2>1, StackFacts DEF Walk
<1>3. \A l \in DOMAIN tokens : l < i => Ahead(l, i) = {}
    <2>1. frames[1].nested = Cardinality(Ahead(b[1], i))
        BY <1>2 DEF Walk, Counting
    <2>2. Ahead(1, i) = {}
        <3>1. Ahead(1, i) \in SUBSET Inner(1)
            BY DEF Ahead
        <3> QED
            BY <1>1, <1>2, <2>1, <3>1, InnerSubset
    <2> QED
        BY <1>2, <2>2 DEF Walk, Counting
<1>4. ASSUME NEW k \in DOMAIN tokens, Rooted(k), ~(k < i)
      PROVE  FALSE
    <2>1. k \in Nat /\ i <= k /\ i \in Nat /\ IsBracket(1)
        BY <1>1, <1>2, <1>4, ReadyTokens DEF IsBracket, IsObject
    <2>2. /\ i \in DOMAIN tokens
          /\ \E l \in DOMAIN tokens : 1 <= l /\ l < i /\ i \in Inner(l)
        BY <1>2, <1>4, <2>1, Nest DEF Rooted
    <2>3. PICK l \in DOMAIN tokens : l < i /\ i \in Inner(l)
        BY <2>2
    <2>4. i \in Ahead(l, i)
        BY <2>1, <2>3 DEF Ahead
    <2> QED
        BY <1>3, <2>3, <2>4
<1> QED
    BY <1>2, <1>4 DEF AllPassed, Seen

LEMMA KeysPassed ==
    ASSUME Ready, NEW n \in Nat, AllPassed(n), NEW j \in DOMAIN tokens, IsObject(j), Rooted(j)
    PROVE  /\ tokens[j].size % 2 = 0
           /\ \A k \in Inner(j) : k \in DOMAIN tokens /\ Rooted(k) /\ k < n
           /\ \A k \in Inner(j) : IsKey(j, k) =>
                 /\ GoodSoFar(j, k, n) /\ k + 1 \in Inner(j)
                 /\ \A e \in Inner(k + 1) : e \in DOMAIN tokens /\ e < n
<1>1. IsBracket(1) /\ \A k \in DOMAIN tokens : 1 <= k
    BY ReadyTokens DEF AllPassed, IsBracket, IsObject
<1>2. \A k \in DOMAIN tokens : Rooted(k) => \A e \in Inner(k) : e \in DOMAIN tokens /\ Rooted(e)
    BY <1>1, InnerFacts, InsideMatch DEF Rooted, AllPassed
<1>3. \A k \in Inner(j) : k \in DOMAIN tokens /\ Rooted(k) /\ k < n
    BY <1>2 DEF AllPassed
<1>4. /\ tokens[j].size % 2 = 0
      /\ \A k \in Inner(j) : IsKey(j, k) => GoodSoFar(j, k, n)
    BY <1>3 DEF AllPassed, Seen
<1>5. ASSUME NEW k \in Inner(j), IsKey(j, k)
      PROVE  /\ k + 1 \in Inner(j)
             /\ \A e \in Inner(k + 1) : e \in DOMAIN tokens /\ e < n
    <2>1. k + 1 \in Inner(j)
        BY <1>4, <1>5 DEF GoodSoFar
    <2>2. k + 1 \in DOMAIN tokens /\ Rooted(k + 1)
        BY <1>3, <2>1
    <2> QED
        BY <1>2, <2>1, <2>2 DEF AllPassed
<1> QED
    BY <1>3, <1>4, <1>5

LEMMA LoadedWellFormed ==
    ASSUME Ready, NEW n \in Nat, AllPassed(n)
    PROVE  WellFormed(doc)
<1>1. 1 \in DOMAIN tokens /\ IsObject(1) /\ tokens # <<>>
    BY ReadyTokens DEF AllPassed
<1>2. Inside(doc, 0) # {} /\ doc[Root(doc)] = "{"
    BY <1>1, RootIs, Kinds DEF IsObject
<1>3. ASSUME NEW p \in Objects(doc)
      PROVE  GoodObject(doc, p)
    <2>1. PICK j \in ObjectTokens : p = tokens[j].at
        BY <1>1, ObjectsAre DEF At
    <2>2. j \in DOMAIN tokens /\ IsObject(j) /\ Rooted(j)
        BY DEF ObjectTokens
    <2>3. Cardinality(Inside(doc, p)) % 2 = 0
        BY <2>1, <2>2, InsideCard, KeysPassed
    <2>4. ASSUME NEW key \in Keys(doc, p)
          PROVE  GoodEntry(doc, key, ValueOf(doc, p, key))
        <3>1. PICK k \in Inner(j) : key = tokens[k].at
            BY <2>1, <2>2, KeysAre
        <3>2. k \in DOMAIN tokens
            BY <2>2, KeysPassed
        <3>3. IsKey(j, k)
            BY <2>1, <2>2, <2>4, <3>1, <3>2, KeysAre
        <3> DEFINE w == k + 1
                   v == tokens[w].at
        <3>4. w \in Inner(j) /\ GoodSoFar(j, k, n) /\ \A e \in Inner(w) : e \in DOMAIN tokens /\ e < n
            BY <2>2, <3>3, KeysPassed
        <3>5. ValueOf(doc, p, key) = v
            BY <2>1, <2>2, <3>1, <3>4, ValueIs
        <3>6. w \in DOMAIN tokens
            BY <2>2, <3>4, KeysPassed
        <3>7. \/ type(k) = "string" /\ IsLeaf(w)
              \/ type(k) = "string" /\ type(w) = "array" /\ \A e \in Inner(w) : IsLeaf(e)
              \/ type(k) = "children" /\ type(w) = "array" /\ \A e \in Inner(w) : IsObject(e)
            BY <3>4 DEF GoodSoFar
        <3> HIDE DEF w, v
        <3>8. ASSUME NEW x \in Elements(doc, v)
              PROVE  \E e \in Inner(w) : e \in DOMAIN tokens /\ x = doc[tokens[e].at]
            <4>1. Inside(doc, v) = At(Inner(w))
                BY <3>6, InsideIs DEF v
            <4> QED
                BY <3>4, <3>8, <4>1 DEF Elements, At
        <3>9. CASE type(k) = "string" /\ IsLeaf(w)
            <4>1. doc[key] = "S"
                BY <3>1, <3>2, <3>9, Kinds
            <4>2. doc[v] = "S" \/ doc[v] = "P"
                BY <3>6, <3>9, Kinds DEF IsLeaf, v
            <4> QED
                BY <3>5, <4>1, <4>2 DEF GoodEntry
        <3>10. CASE type(k) = "string" /\ type(w) = "array" /\ \A e \in Inner(w) : IsLeaf(e)
            <4>1. doc[key] = "S"
                BY <3>1, <3>2, <3>10, Kinds
            <4>2. doc[v] = "["
                BY <3>6, <3>10, Kinds DEF v
            <4>3. Elements(doc, v) \subseteq {"S", "P"}
                BY <3>8, <3>10, Kinds DEF IsLeaf
            <4> QED
                BY <3>5, <4>1, <4>2, <4>3 DEF GoodEntry
        <3>11. CASE type(k) = "children" /\ type(w) = "array" /\ \A e \in Inner(w) : IsObject(e)
            <4>1. doc[key] = "@"
                BY <3>1, <3>2, <3>11, Kinds
            <4>2. doc[v] = "["
                BY <3>6, <3>11, Kinds DEF v
            <4>3. Elements(doc, v) \subseteq {"{"}
                BY <3>8, <3>11, Kinds DEF IsObject
            <4> QED
                BY <3>5, <4>1, <4>2, <4>3 DEF GoodEntry
        <3> QED
            BY <3>7, <3>9, <3>10, <3>11
    <2> QED
        BY <2>3, <2>4 DEF GoodObject
<1> QED
    BY <1>2, <1>3, ReadyBalanced DEF WellFormed

-----------------------------------------------------------------------------
(* The data of a value is what is inside it, in the order of the text. *)
LEMMA DataInOrder ==
    ASSUME Ready, NEW w \in DOMAIN tokens,
           IsLeaf(w) \/ (type(w) = "array" /\ Inner(w) = w + 1 .. w + tokens[w].size)
    PROVE  InOrderOf(Data(w), IF doc[tokens[w].at] = "[" THEN Inside(doc, tokens[w].at)
                              ELSE {tokens[w].at})
<1> DEFINE v == tokens[w].at
           size == tokens[w].size
<1>1. w \in Nat /\ size \in Nat /\ v \in Nat
    BY ReadyTokens
<1>2. CASE type(w) = "array"
    <2>1. Inner(w) = w + 1 .. w + size
        BY <1>2 DEF IsLeaf
    <2>2. doc[v] = "[" /\ Inside(doc, v) = At(Inner(w))
        BY <1>2, Kinds, InsideIs
    <2>3. Data(w) = [n \in 1 .. size |-> tokens[w + n].at]
        BY <1>2 DEF Data
    <2>4. /\ Inner(w) \in SUBSET DOMAIN tokens /\ Cardinality(Inner(w)) = size
        BY InnerFacts
    <2>5. Cardinality(At(Inner(w))) = size
        BY <2>4, AtCard
    <2> HIDE DEF size, v
    <2>6. Len(Data(w)) = size
        <3>1. DOMAIN Data(w) = 1 .. size
            BY <2>3
        <3>2. \A n \in 1 .. size : tokens[w + n].at \in Nat
            <4>1. \A n \in 1 .. size : w + n \in w + 1 .. w + size
                BY <1>1
            <4> QED
                BY <2>1, <2>4, <4>1, ReadyTokens
        <3>3. Data(w) \in [1 .. size -> Nat]
            BY <2>3, <3>2
        <3> QED
            BY <1>1, <3>3
    <2>7. ASSUME NEW q \in At(Inner(w))
          PROVE  Data(w)[Place(At(Inner(w)), q)] = q
        <3>1. PICK x \in Inner(w) : q = tokens[x].at
            BY DEF At
        <3>2. x \in w + 1 .. w + size /\ x \in DOMAIN tokens
            BY <2>1, <2>4
        <3>3. Place(At(Inner(w)), q) = Cardinality({y \in Inner(w) : y <= x})
            BY <2>4, <3>1, <3>2, AtPlace
        <3>4. {y \in Inner(w) : y <= x} = w + 1 .. x
            <4>1. \A y : y \in w + 1 .. w + size /\ y <= x <=> y \in w + 1 .. x
                BY <1>1, <3>2
            <4> QED
                BY <2>1, <4>1
        <3>5. Cardinality(w + 1 .. x) = x - w
            <4>1. w + 1 \in Int /\ x \in Int /\ w + 1 <= x
                BY <1>1, <3>2
            <4>2. Cardinality(w + 1 .. x) = IF w + 1 > x THEN 0 ELSE x - (w + 1) + 1
                BY <4>1, FS_Interval
            <4> QED
                BY <1>1, <4>1, <4>2
        <3>6. x - w \in 1 .. size /\ w + (x - w) = x
            BY <1>1, <3>2
        <3> DEFINE m == x - w
        <3>7. Place(At(Inner(w)), q) = m /\ m \in 1 .. size /\ w + m = x
            BY <3>3, <3>4, <3>5, <3>6
        <3> HIDE DEF m
        <3>8. Data(w)[m] = tokens[w + m].at
            BY <2>3, <3>7
        <3> QED
            BY <3>1, <3>7, <3>8
    <2> QED
        BY <2>2, <2>5, <2>6, <2>7 DEF InOrderOf, v
<1>3. CASE type(w) # "array"
    <2>1. doc[v] # "["
        BY <1>3, Kinds
    <2>2. Data(w) = <<v>>
        BY <1>3 DEF Data
    <2> HIDE DEF v, size
    <2>3. InOrderOf(Data(w), {v})
        <3>1. {x \in {v} : x <= v} = {v}
            BY <1>1
        <3>2. Cardinality({v}) = 1
            BY FS_Singleton
        <3>3. Place({v}, v) = 1
            BY <3>1, <3>2 DEF Place
        <3>4. Len(<<v>>) = 1 /\ <<v>>[1] = v
            OBVIOUS
        <3> QED
            BY <2>2, <3>2, <3>3, <3>4 DEF InOrderOf
    <2> QED
        BY <2>1, <2>3 DEF v
<1> QED
    BY <1>2, <1>3

(* An object's number is its place among the objects of the format. *)
LEMMA NumberPlace ==
    ASSUME Ready, NEW n \in Nat, AllPassed(n)
    PROVE  /\ Below(AllObjects, n) = Cardinality(Objects(doc))
           /\ \A j \in ObjectTokens : Place(Objects(doc), tokens[j].at) = Number(j)
<1>1. Objects(doc) = At(ObjectTokens) /\ ObjectTokens \in SUBSET DOMAIN tokens
    BY ObjectsAre DEF AllPassed, ObjectTokens
<1>2. {x \in AllObjects : x < n} = ObjectTokens
    BY DEF AllPassed, AllObjects, ObjectTokens
<1>3. Below(AllObjects, n) = Cardinality(Objects(doc))
    BY <1>1, <1>2, AtCard DEF Below
<1>4. ASSUME NEW j \in ObjectTokens
      PROVE  Place(Objects(doc), tokens[j].at) = Number(j)
    <2>1. j \in DOMAIN tokens /\ j < n /\ j \in Nat /\ \A x \in DOMAIN tokens : x \in Nat
        BY <1>1, ReadyTokens DEF AllPassed, ObjectTokens
    <2>2. Place(Objects(doc), tokens[j].at) = Cardinality({x \in ObjectTokens : x <= j})
        BY <1>1, <2>1, AtPlace
    <2>3. \A x \in AllObjects : x <= j => x \in ObjectTokens
        <3>1. \A x \in AllObjects : x <= j => x < n /\ x \in DOMAIN tokens
            BY <2>1 DEF AllObjects
        <3> QED
            BY <3>1 DEF AllObjects, ObjectTokens, AllPassed
    <2>4. {x \in ObjectTokens : x <= j} = {x \in AllObjects : x <= j}
        BY <2>3 DEF AllObjects, ObjectTokens
    <2> QED
        BY <2>2, <2>4 DEF Number, Rank
<1> QED
    BY <1>3, <1>4

LEMMA LoadedNode ==
    ASSUME Ready, NEW n \in Nat, AllPassed(n), NEW ns,
           NEW j \in ObjectTokens, Grown(j, n, ns)
    PROVE  NodeOf(doc, tokens[j].at, ns[Number(j)])
<1> DEFINE p == tokens[j].at
           node == ns[Number(j)]
           S == StringKeys(j)
<1>1. j \in DOMAIN tokens /\ IsObject(j) /\ Rooted(j)
    BY DEF ObjectTokens
<1>2. Root(doc) = tokens[1].at /\ 1 \in DOMAIN tokens
    BY RootIs DEF AllPassed
<1>3. node.parent = IF p = Root(doc) THEN 0 ELSE Place(Objects(doc), Around(doc, Around(doc, p)))
    <2>1. p = Root(doc) <=> j = 1
        BY <1>1, <1>2, ReadyTokens
    <2>2. CASE j = 1
        BY <2>1, <2>2 DEF Grown
    <2>3. CASE j # 1
        <3>1. PICK a, g \in DOMAIN tokens :
                 j \in Inner(a) /\ a \in Inner(g) /\ IsObject(g) /\ node.parent = Number(g)
            BY <2>3 DEF Grown
        <3>2. Around(doc, p) = tokens[a].at /\ Around(doc, tokens[a].at) = tokens[g].at
            BY <3>1 DEF Inner
        <3>3. g < j /\ \A k \in DOMAIN tokens : k \in Nat
            <4>1. g < a /\ a < j
                BY <3>1, InnerFacts
            <4>2. \A k \in DOMAIN tokens : k \in Nat
                BY ReadyTokens
            <4> QED
                BY <1>1, <4>1, <4>2
        <3>4. j < n
            BY <1>1 DEF AllPassed
        <3>5. g < n
            BY <1>1, <3>3, <3>4
        <3>6. g \in ObjectTokens
            BY <3>1, <3>5 DEF AllPassed, ObjectTokens
        <3> QED
            BY <2>1, <2>3, <3>1, <3>2, <3>6, NumberPlace
    <2> QED
        BY <2>2, <2>3
<1>4. S \in SUBSET DOMAIN tokens /\ \A k \in S : k \in Inner(j) /\ IsKey(j, k) /\ type(k) = "string"
    BY <1>1, GrowFacts DEF StringKeys
<1>5. Strings(doc, p) = At(S)
    <2>1. ASSUME NEW q \in Strings(doc, p)
          PROVE  q \in At(S)
        <3>1. PICK k \in Inner(j) : q = tokens[k].at
            BY <1>1, KeysAre DEF Strings
        <3>2. k \in DOMAIN tokens
            BY <1>1, InnerFacts
        <3>3. IsKey(j, k)
            BY <1>1, <3>1, <3>2, KeysAre DEF Strings
        <3>4. type(k) = "string"
            BY <3>1, <3>2, Kinds DEF Strings
        <3> QED
            BY <3>1, <3>3, <3>4 DEF At, StringKeys
    <2>2. ASSUME NEW k \in S
          PROVE  tokens[k].at \in Strings(doc, p)
        <3>1. tokens[k].at \in Keys(doc, p)
            BY <1>1, <1>4, KeysAre
        <3>2. doc[tokens[k].at] = "S"
            BY <1>4, Kinds
        <3> QED
            BY <3>1, <3>2 DEF Strings
    <2> QED
        BY <2>1, <2>2 DEF At
<1>6. \A k \in S : k < n
    BY <1>1, <1>4, KeysPassed
<1>7. Len(node.properties) = Cardinality(Strings(doc, p))
    <2>1. {x \in S : x < n} = S
        BY <1>6
    <2>2. Below(S, n) = Cardinality(S)
        BY <2>1 DEF Below
    <2> QED
        BY <1>4, <1>5, <2>2, AtCard DEF Grown
<1>8. ASSUME NEW key \in Strings(doc, p)
      PROVE  PropertyOf(doc, p, key, node.properties[Place(Strings(doc, p), key)])
    <2>1. PICK k \in S : key = tokens[k].at
        BY <1>5 DEF At
    <2>2. k \in DOMAIN tokens /\ k \in Inner(j) /\ IsKey(j, k) /\ type(k) = "string"
        BY <1>4
    <2>3. Place(Strings(doc, p), key) = Rank(S, k)
        BY <1>4, <1>5, <2>1, <2>2, AtPlace DEF Rank
    <2>4. node.properties[Rank(S, k)] = NewProperty(k)
        BY <1>6 DEF Grown
    <2> DEFINE w == k + 1
    <2>5. GoodSoFar(j, k, n) /\ w \in Inner(j)
        BY <1>1, <2>2, KeysPassed
    <2>6. ValueOf(doc, p, key) = tokens[w].at
        BY <1>1, <2>1, <2>2, <2>5, ValueIs
    <2>7. w \in DOMAIN tokens
        BY <1>1, <2>5, InnerFacts
    <2>8. IsLeaf(w) \/ (type(w) = "array" /\ Inner(w) = w + 1 .. w + tokens[w].size)
        <3>1. k + 2 = w + 1
            BY <2>2, ReadyTokens
        <3> QED
            BY <2>2, <2>5, <3>1 DEF GoodSoFar
    <2> HIDE DEF w
    <2>9. InOrderOf(Data(w), IF doc[tokens[w].at] = "[" THEN Inside(doc, tokens[w].at)
                             ELSE {tokens[w].at})
        BY <2>7, <2>8, DataInOrder
    <2>10. NewProperty(k).key = key /\ NewProperty(k).data = Data(w)
        BY <2>1 DEF NewProperty, w
    <2> QED
        BY <2>3, <2>4, <2>6, <2>9, <2>10 DEF PropertyOf
<1> QED
    BY <1>3, <1>7, <1>8 DEF NodeOf

LEMMA LoadedTree ==
    ASSUME Ready, NEW n \in Nat, AllPassed(n), NEW ns,
           Len(ns) = Below(AllObjects, n), \A j \in AllObjects : j < n => Grown(j, n, ns)
    PROVE  IsTree(doc, ns)
<1>1. Objects(doc) = At(ObjectTokens)
    BY ObjectsAre DEF AllPassed
<1>2. \A j \in ObjectTokens : Grown(j, n, ns)
    BY DEF AllPassed, ObjectTokens, AllObjects
<1>3. ASSUME NEW p \in Objects(doc)
      PROVE  NodeOf(doc, p, ns[Place(Objects(doc), p)])
    <2>1. PICK j \in ObjectTokens : p = tokens[j].at
        BY <1>1 DEF At
    <2>2. NodeOf(doc, p, ns[Number(j)])
        BY <1>2, <2>1, LoadedNode
    <2> QED
        BY <2>1, <2>2, NumberPlace
<1>4. Len(ns) = Cardinality(Objects(doc))
    BY NumberPlace
<1> QED
    BY <1>3, <1>4 DEF IsTree

(* The tree is complete when the root's call ends. *)
LEMMA RootLoads ==
    ASSUME Ready, Shape(frames, i, nodes, node_count), top.nested = 0, Len(frames) = 1,
           IsNode(top), OddCount(frames) \/ Regular(frames, i, nodes, node_count)
    PROVE  WellFormed(doc) /\ IsTree(doc, nodes) /\ node_count + 1 = Len(nodes)
<1>1. frames \in Seq(Frame) /\ frames # <<>> /\ i \in Nat
    BY DEF Shape
<1>2. Regular(frames, i, nodes, node_count)
    BY <1>1, OddPopped
<1>3. PICK b : Walk(frames, i, b) /\ Growing(frames, i, nodes, node_count, b)
    BY <1>2 DEF Regular
<1>4. AllPassed(i)
    BY <1>2, <1>3, RootEnds DEF Regular
<1>5. WellFormed(doc)
    BY <1>1, <1>4, LoadedWellFormed
<1>6. IsTree(doc, nodes)
    BY <1>1, <1>3, <1>4, LoadedTree DEF Growing
<1>7. node_count + 1 = Len(nodes)
    <2>1. Nodes(frames) = {1}
        BY <1>1, TopFrame DEF Nodes
    <2>2. node_count + Cardinality(Nodes(frames)) = Len(nodes)
        BY <1>3 DEF Growing
    <2> QED
        BY <2>1, <2>2, FS_Singleton
<1> QED
    BY <1>5, <1>6, <1>7

-----------------------------------------------------------------------------
(* What is known of the tokens stays so while the builder reads them. *)
LEMMA SameReading ==
    ASSUME UNCHANGED jsmn_vars
    PROVE  /\ Reading => Reading'
           /\ Ready => Ready'
           /\ Tokenized => Tokenized'
<1>1. UNCHANGED <<doc, parser, tokens, token_cnt, err>>
    BY DEF jsmn_vars
<1>2. Scan => Scan'
    BY <1>1 DEF Scan, Types, InOrder, BracketsKnown, DepthCounts, Unmatched, Counted, Inner
<1>3. Lexed => Lexed'
    BY <1>1 DEF Lexed
<1>4. Paired => Paired'
    BY <1>1 DEF Paired
<1>5. Reading => Reading'
    BY <1>2, <1>3, <1>4 DEF Reading
<1>6. Ready => Ready'
    BY <1>1, <1>5 DEF Ready, Unmatched
<1>7. char' = char
    BY <1>1 DEF char
<1>8. Tokenized => Tokenized'
    BY <1>1, <1>5, <1>6, <1>7 DEF Tokenized
<1> QED
    BY <1>5, <1>6, <1>8

LEMMA SameTokens ==
    ASSUME UNCHANGED jsmn_vars
    PROVE  /\ \A k : type(k)' = type(k) /\ Inner(k)' = Inner(k)
           /\ \A k : (IsObject(k)' <=> IsObject(k)) /\ (IsLeaf(k)' <=> IsLeaf(k))
           /\ \A k : Rooted(k)' <=> Rooted(k)
           /\ \A k, n : Ahead(k, n)' = Ahead(k, n)
           /\ \A j, k : IsKey(j, k)' <=> IsKey(j, k)
<1>1. doc' = doc /\ tokens' = tokens
    BY DEF jsmn_vars
<1>2. \A k : type(k)' = type(k) /\ Inner(k)' = Inner(k)
    BY <1>1 DEF type, Inner
<1>3. \A k : (IsObject(k)' <=> IsObject(k)) /\ (IsLeaf(k)' <=> IsLeaf(k))
    BY <1>2 DEF IsObject, IsLeaf
<1>4. \A k : Rooted(k)' <=> Rooted(k)
    BY <1>1 DEF Rooted
<1>5. \A k, n : Ahead(k, n)' = Ahead(k, n)
    BY <1>2 DEF Ahead
<1>6. \A j, k : IsKey(j, k)' <=> IsKey(j, k)
    BY <1>2 DEF IsKey, Upto
<1> QED
    BY <1>2, <1>3, <1>4, <1>5, <1>6

LEMMA SameTree ==
    ASSUME UNCHANGED jsmn_vars
    PROVE  /\ AllObjects' = AllObjects
           /\ \A j : Number(j)' = Number(j) /\ StringKeys(j)' = StringKeys(j)
           /\ \A k : NewProperty(k)' = NewProperty(k)
<1>1. doc' = doc /\ tokens' = tokens
    BY DEF jsmn_vars
<1>2. AllObjects' = AllObjects
    BY <1>1, SameTokens DEF AllObjects
<1>3. \A j : StringKeys(j)' = StringKeys(j)
    BY SameTokens DEF StringKeys
<1>4. \A j : Number(j)' = Number(j)
    BY <1>2 DEF Number
<1>5. \A k : NewProperty(k)' = NewProperty(k)
    BY <1>1 DEF NewProperty, Data, type
<1> QED
    BY <1>2, <1>3, <1>4, <1>5

LEMMA SameHalfway ==
    ASSUME UNCHANGED jsmn_vars, NEW f, NEW n, NEW ns, NEW c, Halfway(f, n, ns, c)
    PROVE  Halfway(f, n, ns, c)'
<1>1. doc' = doc /\ tokens' = tokens
    BY DEF jsmn_vars
<1>2. ASSUME NEW b, Walk(f, n, b)
      PROVE  Walk(f, n, b)'
    <2>1. Stack(f, n, b)'
        BY <1>1, <1>2, SameTokens DEF Walk, Stack
    <2>2. Counting(f, n, b)'
        BY <1>1, <1>2, SameTokens DEF Walk, Counting
    <2>3. Keyed(f, b)'
        BY <1>2, SameTokens DEF Walk, Keyed
    <2> QED
        BY <2>1, <2>2, <2>3 DEF Walk
<1>3. ASSUME Seen(n)
      PROVE  Seen(n)'
    <2>1. \A j, k : GoodSoFar(j, k, n) => GoodSoFar(j, k, n)'
        BY <1>1, SameTokens DEF GoodSoFar
    <2> QED
        BY <1>1, <1>3, <2>1, SameTokens DEF Seen
<1>4. ASSUME NEW b, Growing(f, n, ns, c, b)
      PROVE  Growing(f, n, ns, c, b)'
    <2>1. \A j : Grown(j, n, ns) => Grown(j, n, ns)'
        BY <1>1, SameTokens, SameTree DEF Grown
    <2> QED
        BY <1>4, <2>1, SameTree DEF Growing
<1>5. Regular(f, n, ns, c) => Regular(f, n, ns, c)'
    BY <1>2, <1>3, <1>4 DEF Regular
<1>6. OddCount(f) => OddCount(f)'
    BY <1>1 DEF OddCount, HasOdd
<1> QED
    BY <1>5, <1>6 DEF Halfway, Shape

-----------------------------------------------------------------------------
(***************************************************************************)
(* The inductive invariant of the parse.  The frames, the index and the    *)
(* tree are taken as values, since a step changes them and not the tokens. *)
(***************************************************************************)
AtWork(f, n, ns, c) == frames = f /\ i = n /\ nodes = ns /\ node_count = c

Building ==
    /\ err = "success" /\ Ready
    /\ \E f, n, ns, c : AtWork(f, n, ns, c) /\ Halfway(f, n, ns, c)

Outcome == LoadsTheDocument /\ RefusesOnlyMalformed /\ OverrunNeedsOddObject

Parse ==
    /\ doc \in Docs
    /\ phase \in {"tokenize", "build", "loaded", "malformed", "parse error", "undefined"}
    /\ phase = "tokenize" => Tokenized /\ node_count = 0
    /\ phase = "build" => Building
    /\ Outcome

LEMMA BuildingOn ==
    ASSUME UNCHANGED jsmn_vars, err = "success", Ready,
           Halfway(frames', i', nodes', node_count')
    PROVE  Building'
<1>1. PICK f, n, ns, c : f = frames' /\ n = i' /\ ns = nodes' /\ c = node_count'
    OBVIOUS
<1>2. Halfway(f, n, ns, c)
    BY <1>1
<1>3. Halfway(f, n, ns, c)'
    BY <1>2, SameHalfway
<1>4. AtWork(f, n, ns, c)'
    BY <1>1 DEF AtWork
<1>5. Ready' /\ err' = "success"
    BY SameReading DEF jsmn_vars
<1> QED
    BY <1>3, <1>4, <1>5 DEF Building

LEMMA BuildingNow ==
    ASSUME Building
    PROVE  Halfway(frames, i, nodes, node_count) /\ Ready /\ err = "success"
BY DEF Building, AtWork

(* Where no outcome is reached, nothing is claimed of it. *)
LEMMA StillParsing ==
    ASSUME phase' \in {"tokenize", "build"}
    PROVE  Outcome'
BY DEF Outcome, LoadsTheDocument, RefusesOnlyMalformed, OverrunNeedsOddObject

-----------------------------------------------------------------------------
(* An attempt starts with no tokens. *)
LEMMA StartReading ==
    ASSUME doc \in Docs, tokens = <<>>, parser = jsmn_init
    PROVE  Reading
<1>1. Scan
    BY StartScan
<1>2. parser.pos = 0 /\ DOMAIN tokens = {}
    BY DEF jsmn_init
<1>3. \A q : q \notin 1 .. parser.pos
    BY <1>2
<1>4. \A c \in Closes(doc) : ~(c <= parser.pos)
    <2>1. \A c \in Closes(doc) : c \in 1 .. Len(doc)
        BY Brackets
    <2> QED
        BY <1>2, <2>1
<1>5. \A p \in Opens(doc) : ~(Match(doc, p) <= parser.pos)
    <2>1. \A p \in Opens(doc) : Match(doc, p) \in Nat /\ p \in Nat /\ Match(doc, p) > p
        BY Brackets, MatchFacts, Positions
    <2> QED
        BY <1>2, <2>1
<1>6. Lexed /\ Paired
    BY <1>2, <1>3, <1>4, <1>5 DEF Lexed, Paired
<1> QED
    BY <1>1, <1>6 DEF Reading

(* The same of the state a retry ends in. *)
LEMMA RestartReading ==
    (doc \in Docs /\ tokens = <<>> /\ parser = jsmn_init)' => Reading'
<1>1. doc \in Docs /\ tokens = <<>> /\ parser = jsmn_init => Reading
    BY StartReading
<1> QED
    BY <1>1, PTL

LEMMA StartParse ==
    ASSUME Init
    PROVE  Parse
<1>1. doc \in Docs /\ tokens = <<>> /\ parser = jsmn_init /\ err = "none"
    BY DEF Init, JsmnInit
<1>2. Reading
    BY <1>1, StartReading
<1> QED
    BY <1>1, <1>2 DEF Init, Parse, Tokenized, Outcome, LoadsTheDocument,
       RefusesOnlyMalformed, OverrunNeedsOddObject

LEMMA TokenizeParse ==
    ASSUME Parse, Tokenize \/ ParseAgain
    PROVE  Parse'
<1>1. phase = "tokenize" /\ phase' = "tokenize" /\ node_count' = node_count
    BY DEF Tokenize, ParseAgain, build_vars
<1>2. doc \in Docs /\ Tokenized /\ node_count = 0
    BY <1>1 DEF Parse
<1>3. ASSUME Tokenize
      PROVE  Tokenized' /\ doc' = doc
    BY <1>2, <1>3, TokenizeTokenized DEF Tokenize
<1>4. ASSUME ParseAgain
      PROVE  Tokenized' /\ doc' = doc
    <2>1. doc' \in Docs /\ tokens' = <<>> /\ parser' = jsmn_init /\ err' = "none" /\ doc' = doc
        BY <1>2, <1>4 DEF ParseAgain
    <2>2. Reading'
        BY <2>1, RestartReading
    <2> QED
        BY <2>1, <2>2 DEF Tokenized
<1>5. Tokenized' /\ doc' = doc
    BY <1>3, <1>4
<1> QED
    BY <1>1, <1>2, <1>5, StillParsing DEF Parse

(* A step that ends the parse. *)
LEMMA ParseOver ==
    ASSUME Parse, UNCHANGED jsmn_vars,
           phase' \in {"malformed", "parse error", "undefined"}, ~WellFormed(doc),
           phase' = "undefined" =>
              IF err = "undefined" THEN char = "/" ELSE Inside(doc, 0) = {} \/ HasOdd
    PROVE  Parse'
<1>1. doc' = doc /\ err' = err /\ char' = char /\ doc \in Docs
    BY DEF jsmn_vars, char, Parse
<1>2. RefusesOnlyMalformed'
    BY <1>1 DEF RefusesOnlyMalformed
<1>3. OverrunNeedsOddObject'
    BY <1>1 DEF OverrunNeedsOddObject, HasOdd
<1>4. LoadsTheDocument'
    BY DEF LoadsTheDocument
<1> QED
    BY <1>1, <1>2, <1>3, <1>4 DEF Parse, Outcome

LEMMA TokenizerParse ==
    ASSUME Parse, TokenizerFails \/ TokenizerOverruns
    PROVE  Parse'
<1>1. UNCHANGED jsmn_vars /\ phase = "tokenize"
    BY DEF TokenizerFails, TokenizerOverruns, Ends
<1>2. Tokenized
    BY <1>1 DEF Parse
<1>3. CASE TokenizerFails
    <2>1. phase' = "parse error" /\ err \in {"inval", "part"}
        BY <1>3 DEF TokenizerFails, Ends
    <2> QED
        BY <1>1, <1>2, <2>1, ParseOver DEF Tokenized, WellFormed
<1>4. CASE TokenizerOverruns
    <2>1. phase' = "undefined" /\ err = "undefined"
        BY <1>4 DEF TokenizerOverruns, Ends
    <2> QED
        BY <1>1, <1>2, <2>1, ParseOver DEF Tokenized, WellFormed
<1> QED
    BY <1>3, <1>4

(* The root's call, before anything but its first token has been looked at.*)
LEMMA RootFrame ==
    ASSUME Ready, Known(1), IsObject(1),
           NEW f, f = <<[call |-> "build_node", node |-> 1, nested |-> tokens[1].size]>>,
           NEW ns, ns = <<Node(0)>>
    PROVE  Halfway(f, 2, ns, 0)
<1>1. 1 \in DOMAIN tokens /\ tokens[1].size \in Nat /\ \A k \in DOMAIN tokens : k \in Nat \ {0}
    BY ReadyTokens DEF Known
<1> DEFINE size == tokens[1].size
           frame == [call |-> "build_node", node |-> 1, nested |-> size]
<1>2. frame \in Frame /\ IsNode(frame) /\ frame.node = 1 /\ frame.nested = size
    BY <1>1 DEF Frame, IsNode
<1> HIDE DEF size, frame
<1>3. f = <<frame>>
    BY DEF frame, size
<1>4. f \in Seq(Frame) /\ f # <<>> /\ Len(f) = 1 /\ DOMAIN f = {1} /\ f[1] = frame
    BY <1>2, <1>3
<1> DEFINE new == Node(0)
<1>5. new \in TreeNode /\ new.parent = 0 /\ Len(new.properties) = 0
    <2>1. <<>> \in Seq(Property)
        OBVIOUS
    <2> QED
        BY <2>1 DEF Node, TreeNode
<1> HIDE DEF new
<1>6. ns = <<new>>
    BY DEF new
<1>7. ns \in Seq(TreeNode) /\ Len(ns) = 1 /\ ns[1] = new
    BY <1>5, <1>6
<1> HIDE <1>6
<1>8. Shape(f, 2, ns, 0)
    BY <1>4, <1>7 DEF Shape
<1>9. CASE size % 2 = 1
    <2>1. Rooted(1)
        BY <1>1, BracketToken, Kinds, ReadyTokens DEF Rooted, IsBracket, IsObject
    <2>2. HasOdd
        BY <1>1, <1>9, <2>1, OddObject DEF size
    <2> QED
        BY <1>2, <1>4, <1>8, <1>9, <2>2 DEF Halfway, OddCount
<1>10. CASE size % 2 = 0
    <2> DEFINE b == [m \in {1} |-> 1]
    <2>1. \A x \in Inner(1) : x \in Nat /\ x >= 2 /\ ~(x < 2)
        BY <1>1, InnerFacts
    <2>2. \A j \in DOMAIN tokens : j < 2 <=> j = 1
        BY <1>1
    <2>3. Stack(f, 2, b)
        BY <1>1, <1>2, <1>4, <2>2 DEF Stack, IsObject
    <2>4. Counting(f, 2, b)
        <3>1. Ahead(1, 2) = Inner(1)
            BY <2>1 DEF Ahead
        <3>2. Cardinality(Ahead(1, 2)) = size
            BY <1>1, <3>1, InnerFacts DEF size
        <3> QED
            BY <1>2, <1>4, <2>2, <3>2 DEF Counting
    <2>5. Keyed(f, b)
        BY <1>2, <1>4 DEF Keyed
    <2>6. Seen(2)
        <3>1. Rooted(1)
            BY <1>1, BracketToken, Kinds, ReadyTokens DEF Rooted, IsBracket, IsObject
        <3> QED
            BY <1>10, <2>1, <2>2, <3>1 DEF Seen, size
    <2>7. 1 \in AllObjects /\ \A j \in AllObjects : j < 2 <=> j = 1
        BY <1>1, <2>2 DEF AllObjects
    <2>8. Below(AllObjects, 2) = 1 /\ Number(1) = 1
        <3>1. {x \in AllObjects : x < 2} = {1} /\ {x \in AllObjects : x <= 1} = {1}
            <4>1. \A j \in AllObjects : j <= 1 <=> j = 1
                BY <1>1 DEF AllObjects
            <4> QED
                BY <2>7, <4>1
        <3> QED
            BY <3>1, FS_Singleton DEF Below, Number, Rank
    <2>9. Grown(1, 2, ns)
        <3>1. \A k \in StringKeys(1) : ~(k < 2)
            BY <2>1 DEF StringKeys
        <3>2. {x \in StringKeys(1) : x < 2} = {}
            BY <3>1
        <3>3. Below(StringKeys(1), 2) = 0
            BY <3>2, FS_EmptySet DEF Below
        <3> QED
            BY <1>5, <1>7, <2>8, <3>1, <3>3 DEF Grown
    <2>10. 0 + Cardinality(Nodes(f)) = 1
        <3>1. Nodes(f) = {1}
            BY <1>2, <1>4 DEF Nodes
        <3>2. Cardinality(Nodes(f)) = 1
            BY <3>1, FS_Singleton
        <3> QED
            BY <3>2
    <2>11. Growing(f, 2, ns, 0, b)
        BY <1>2, <1>4, <1>7, <2>7, <2>8, <2>9, <2>10 DEF Growing
    <2> QED
        BY <1>8, <2>3, <2>4, <2>5, <2>6, <2>11 DEF Halfway, Regular, Walk
<1>11. size % 2 = 0 \/ size % 2 = 1
    BY <1>1 DEF size
<1> QED
    BY <1>9, <1>10, <1>11

LEMMA BuildStartParse ==
    ASSUME Parse, BuildStart
    PROVE  Parse'
<1>1. /\ UNCHANGED jsmn_vars /\ phase = "tokenize" /\ err = "success" /\ node_count' = node_count
      /\ nodes' = <<Node(0)>>
    BY DEF BuildStart
<1>2. Ready /\ node_count = 0 /\ doc \in Docs /\ doc' = doc
    BY <1>1 DEF Parse, Tokenized, jsmn_vars
<1>3. CASE Known(1) /\ IsObject(1)
    <2>1. /\ phase' = "build" /\ i' = 2
          /\ frames' = <<[call |-> "build_node", node |-> 1, nested |-> tokens[1].size]>>
        BY <1>3 DEF BuildStart, IsObject
    <2>2. Halfway(frames', i', nodes', node_count')
        BY <1>1, <1>2, <1>3, <2>1, RootFrame
    <2>3. Building'
        BY <1>1, <1>2, <2>2, BuildingOn
    <2> QED
        BY <1>2, <2>1, <2>3, StillParsing DEF Parse
<1>4. CASE ~(Known(1) /\ IsObject(1))
    <2>1. phase' = IF Known(1) THEN "malformed" ELSE "undefined"
        BY <1>4 DEF BuildStart, IsObject
    <2>2. Known(1) <=> tokens # <<>>
        BY <1>2, ReadyTokens DEF Known
    <2>3. CASE Known(1)
        <3>1. doc[Root(doc)] # "{"
            BY <1>2, <1>4, <2>2, <2>3, RootIs, Kinds DEF IsObject
        <3> QED
            BY <1>1, <2>1, <2>3, <3>1, ParseOver DEF WellFormed
    <2>4. CASE ~Known(1)
        <3>1. Inside(doc, 0) = {}
            BY <1>2, <2>2, <2>4, RootIs
        <3> QED
            BY <1>1, <2>1, <2>4, <3>1, ParseOver DEF WellFormed
    <2> QED
        BY <2>3, <2>4
<1> QED
    BY <1>3, <1>4

-----------------------------------------------------------------------------
(* A step of the builder starts from a parse that is half-way. *)
LEMMA Builds ==
    ASSUME Parse, phase = "build"
    PROVE  /\ Ready /\ err = "success" /\ doc \in Docs
           /\ Shape(frames, i, nodes, node_count)
           /\ OddCount(frames) \/ Regular(frames, i, nodes, node_count)
           /\ frames \in Seq(Frame) /\ frames # <<>>
           /\ IsNode(top) <=> top.call = "build_node"
           /\ ~IsNode(top) <=> top.call = "walk_children"
<1>1. /\ Ready /\ err = "success" /\ doc \in Docs
      /\ Shape(frames, i, nodes, node_count)
      /\ OddCount(frames) \/ Regular(frames, i, nodes, node_count)
    BY BuildingNow DEF Parse, Halfway
<1>2. frames \in Seq(Frame) /\ frames # <<>>
    BY <1>1 DEF Shape
<1>3. top \in Frame
    BY <1>2, TopFrame
<1>4. /\ IsNode(top) <=> top.call = "build_node"
      /\ ~IsNode(top) <=> top.call = "walk_children"
    BY <1>3 DEF Frame, IsNode
<1> QED
    BY <1>1, <1>2, <1>4

LEMMA GoesOn ==
    ASSUME Parse, phase = "build", phase' = "build", UNCHANGED jsmn_vars,
           Shape(frames', i', nodes', node_count'),
           OddCount(frames') \/ Regular(frames', i', nodes', node_count')
    PROVE  Parse'
<1>1. Halfway(frames', i', nodes', node_count')
    BY DEF Halfway
<1>2. Building'
    BY <1>1, Builds, BuildingOn
<1>3. Outcome'
    BY StillParsing
<1>4. doc' \in Docs
    BY DEF jsmn_vars, Parse
<1> QED
    BY <1>2, <1>3, <1>4 DEF Parse

LEMMA AddPropertyParse ==
    ASSUME Parse, AddProperty
    PROVE  Parse'
<1>1. phase = "build" /\ phase' = "build" /\ UNCHANGED jsmn_vars
    BY DEF AddProperty, In
<1>2. /\ Ready /\ Shape(frames, i, nodes, node_count) /\ frames \in Seq(Frame)
      /\ OddCount(frames) \/ Regular(frames, i, nodes, node_count)
    BY <1>1, Builds
<1>3. Shape(frames', i', nodes', node_count') /\ Taken(frames, frames', 2)
    BY <1>2, AddPropertyShape
<1>4. OddCount(frames) => OddCount(frames')
    <2>1. 2 \in Nat
        OBVIOUS
    <2> QED
        BY <1>2, <1>3, <2>1, OddStays
<1>5. Regular(frames, i, nodes, node_count) => Regular(frames', i', nodes', node_count')
    BY <1>2, AddPropertyRegular
<1> QED
    BY <1>1, <1>2, <1>3, <1>4, <1>5, GoesOn

LEMMA WalkChildrenParse ==
    ASSUME Parse, WalkChildren
    PROVE  Parse'
<1>1. phase = "build" /\ phase' = "build" /\ UNCHANGED jsmn_vars
    BY DEF WalkChildren, In
<1>2. /\ Ready /\ Shape(frames, i, nodes, node_count) /\ frames \in Seq(Frame)
      /\ OddCount(frames) \/ Regular(frames, i, nodes, node_count)
    BY <1>1, Builds
<1>3. Shape(frames', i', nodes', node_count') /\ Taken(frames, frames', 2)
    BY <1>2, WalkChildrenShape
<1>4. OddCount(frames) => OddCount(frames')
    <2>1. 2 \in Nat
        OBVIOUS
    <2> QED
        BY <1>2, <1>3, <2>1, OddStays
<1>5. Regular(frames, i, nodes, node_count) => Regular(frames', i', nodes', node_count')
    BY <1>2, WalkChildrenRegular
<1> QED
    BY <1>1, <1>2, <1>3, <1>4, <1>5, GoesOn

LEMMA AddChildParse ==
    ASSUME Parse, AddChild
    PROVE  Parse'
<1>1. phase = "build" /\ UNCHANGED jsmn_vars /\ In("walk_children") /\ top.nested # 0
    BY DEF AddChild, In
<1>2. /\ Ready /\ Shape(frames, i, nodes, node_count) /\ frames \in Seq(Frame) /\ frames # <<>>
      /\ OddCount(frames) \/ Regular(frames, i, nodes, node_count)
      /\ ~IsNode(top) /\ err = "success"
    BY <1>1, Builds DEF In
<1>3. ASSUME Known(i) /\ IsObject(i)
      PROVE  Parse'
    <2>1. phase' = "build"
        BY <1>1, <1>3 DEF AddChild, IsObject
    <2>2. Shape(frames', i', nodes', node_count') /\ Taken(frames, frames', 1)
        BY <1>2, <1>3, AddChildShape
    <2>3. OddCount(frames) => OddCount(frames')
        <3>1. 1 \in Nat /\ ~IsNode(frames[Len(frames)])
            BY <1>2, TopFrame
        <3> QED
            BY <1>2, <2>2, <3>1, OddStays
    <2>4. Regular(frames, i, nodes, node_count) =>
             OddCount(frames') \/ Regular(frames', i', nodes', node_count')
        BY <1>2, <1>3, AddChildRegular
    <2> QED
        BY <1>1, <1>2, <2>1, <2>2, <2>3, <2>4, GoesOn
<1>4. ASSUME ~(Known(i) /\ IsObject(i))
      PROVE  Parse'
    <2>1. phase' = IF Known(i) THEN "malformed" ELSE "undefined"
        BY <1>4 DEF AddChild, IsObject
    <2>2. ~WellFormed(doc) /\ (phase' = "undefined" => HasOdd)
        <3>1. OddCount(frames) => ~WellFormed(doc) /\ HasOdd
            BY OddMalformed DEF OddCount
        <3>2. Regular(frames, i, nodes, node_count) => ~WellFormed(doc) /\ Known(i)
            BY <1>1, <1>2, <1>4, BadChild
        <3> QED
            BY <1>2, <2>1, <3>1, <3>2
    <2> QED
        BY <1>1, <1>2, <2>1, <2>2, ParseOver
<1> QED
    BY <1>3, <1>4

LEMMA BadEntryParse ==
    ASSUME Parse, BadEntry \/ EntryOverrun
    PROVE  Parse'
<1>1. phase = "build" /\ UNCHANGED jsmn_vars /\ In("build_node") /\ top.nested # 0
    BY DEF BadEntry, EntryOverrun, In, Ends
<1>2. /\ Ready /\ Shape(frames, i, nodes, node_count)
      /\ OddCount(frames) \/ Regular(frames, i, nodes, node_count)
      /\ err = "success"
    BY <1>1, Builds
<1>3. OddCount(frames) => ~WellFormed(doc) /\ HasOdd
    BY OddMalformed DEF OddCount
<1>4. Regular(frames, i, nodes, node_count) =>
         ~EntryOverrun /\ (BadEntry => ~WellFormed(doc))
    BY <1>1, <1>2, BadEntries
<1>5. CASE BadEntry
    <2>1. phase' = "malformed"
        BY <1>5 DEF BadEntry, Ends
    <2> QED
        BY <1>1, <1>2, <1>3, <1>4, <1>5, <2>1, ParseOver
<1>6. CASE EntryOverrun
    <2>1. phase' = "undefined"
        BY <1>6 DEF EntryOverrun, Ends
    <2> QED
        BY <1>1, <1>2, <1>3, <1>4, <1>6, <2>1, ParseOver
<1> QED
    BY <1>5, <1>6

LEMMA CallEndsParse ==
    ASSUME Parse, ChildrenEnd \/ NodeEnd
    PROVE  Parse'
<1>1. phase = "build" /\ UNCHANGED jsmn_vars /\ top.nested = 0
    BY DEF ChildrenEnd, NodeEnd, In
<1>2. /\ Ready /\ Shape(frames, i, nodes, node_count)
      /\ OddCount(frames) \/ Regular(frames, i, nodes, node_count)
      /\ err = "success" /\ doc \in Docs /\ node_count \in Nat
    BY <1>1, Builds DEF Shape
<1>3. /\ frames' = Front(frames) /\ i' = i /\ nodes' = nodes
      /\ node_count' = IF IsNode(top) THEN node_count + 1 ELSE node_count
      /\ phase' = IF IsNode(top) /\ Len(frames) = 1 THEN "loaded" ELSE "build"
    <2>1. CASE ChildrenEnd
        <3>1. ~IsNode(top)
            BY <2>1 DEF ChildrenEnd, In, IsNode
        <3> QED
            BY <1>1, <2>1, <3>1 DEF ChildrenEnd
    <2>2. CASE NodeEnd
        <3>1. IsNode(top)
            BY <2>2 DEF NodeEnd, In, IsNode
        <3> QED
            BY <1>1, <2>2, <3>1 DEF NodeEnd
    <2> QED
        BY <2>1, <2>2
<1>4. ASSUME Len(frames) # 1
      PROVE  Parse'
    <2>1. /\ Shape(frames', i', nodes', node_count')
          /\ OddCount(frames') \/ Regular(frames', i', nodes', node_count')
        BY <1>1, <1>2, <1>3, <1>4, CallEnds
    <2> QED
        BY <1>1, <1>3, <1>4, <2>1, GoesOn
<1>5. ASSUME Len(frames) = 1
      PROVE  Parse'
    <2>1. IsNode(top)
        BY <1>2, <1>5, OuterIsNode
    <2>2. WellFormed(doc) /\ IsTree(doc, nodes) /\ node_count + 1 = Len(nodes)
        BY <1>1, <1>2, <1>5, <2>1, RootLoads
    <2>3. phase' = "loaded" /\ node_count' = Len(nodes) /\ nodes' = nodes /\ doc' = doc
        BY <1>1, <1>3, <1>5, <2>1, <2>2 DEF jsmn_vars
    <2>4. LoadsTheDocument'
        BY <2>2, <2>3 DEF LoadsTheDocument
    <2>5. RefusesOnlyMalformed' /\ OverrunNeedsOddObject'
        BY <2>3 DEF RefusesOnlyMalformed, OverrunNeedsOddObject
    <2> QED
        BY <1>2, <2>3, <2>4, <2>5 DEF Parse, Outcome
<1> QED
    BY <1>4, <1>5

LEMMA ParseStays ==
    ASSUME Parse, UNCHANGED vars
    PROVE  Parse'
<1>1. /\ UNCHANGED jsmn_vars /\ doc' = doc /\ err' = err
      /\ phase' = phase /\ frames' = frames /\ i' = i /\ nodes' = nodes
      /\ node_count' = node_count
    BY DEF vars, jsmn_vars, build_vars
<1>2. char' = char
    BY <1>1 DEF jsmn_vars, char
<1>3. Outcome'
    <2>1. LoadsTheDocument'
        BY <1>1 DEF Parse, Outcome, LoadsTheDocument
    <2>2. RefusesOnlyMalformed'
        BY <1>1 DEF Parse, Outcome, RefusesOnlyMalformed
    <2>3. OverrunNeedsOddObject'
        BY <1>1, <1>2 DEF Parse, Outcome, OverrunNeedsOddObject
    <2> QED
        BY <2>1, <2>2, <2>3 DEF Outcome
<1>4. Tokenized => Tokenized'
    BY <1>1, SameReading
<1>5. phase = "build" => Building'
    <2> SUFFICES ASSUME phase = "build"
                 PROVE  Building'
        OBVIOUS
    <2>1. Halfway(frames', i', nodes', node_count') /\ Ready /\ err = "success"
        BY <1>1, BuildingNow DEF Parse
    <2> QED
        BY <1>1, <2>1, BuildingOn
<1> QED
    BY <1>1, <1>3, <1>4, <1>5 DEF Parse

LEMMA ParseStep ==
    ASSUME Parse, [Next]_vars
    PROVE  Parse'
<1>1. CASE Tokenize \/ ParseAgain
    BY <1>1, TokenizeParse
<1>2. CASE TokenizerFails \/ TokenizerOverruns
    BY <1>2, TokenizerParse
<1>3. CASE BuildStart
    BY <1>3, BuildStartParse
<1>4. CASE AddProperty
    BY <1>4, AddPropertyParse
<1>5. CASE WalkChildren
    BY <1>5, WalkChildrenParse
<1>6. CASE BadEntry \/ EntryOverrun
    BY <1>6, BadEntryParse
<1>7. CASE AddChild
    BY <1>7, AddChildParse
<1>8. CASE ChildrenEnd \/ NodeEnd
    BY <1>8, CallEndsParse
<1>9. CASE UNCHANGED vars
    BY <1>9, ParseStays
<1> QED
    BY <1>1, <1>2, <1>3, <1>4, <1>5, <1>6, <1>7, <1>8, <1>9 DEF Next

(* The inductive invariant of the parse: the tokens are the lexemes of the *)
(* document and the frames the brackets around the index, each with what   *)
(* is left in it, until the parse ends with the outcome the document has.  *)
THEOREM ParseCorrect == Spec => []Parse
<1>1. Init => Parse
    BY StartParse
<1> QED
    BY <1>1, ParseStep, PTL DEF Spec

(* A document that is loaded is well-formed, and the tree is the one it    *)
(* describes, however many nodes, keys and elements it has and however     *)
(* deep they are nested.                                                   *)
THEOREM TreeIsTheDocuments == Spec => []LoadsTheDocument
<1>1. Parse => LoadsTheDocument
    BY DEF Parse, Outcome
<1> QED
    BY <1>1, ParseCorrect, PTL

(* A well-formed document of any size is never refused, and never makes    *)
(* the parser read past its tokens, whatever the number of retries.        *)
THEOREM WellFormedNotRefused == Spec => []RefusesOnlyMalformed
<1>1. Parse => RefusesOnlyMalformed
    BY DEF Parse, Outcome
<1> QED
    BY <1>1, ParseCorrect, PTL

(* The tokens are left only on a document with an object that has a key    *)
(* without a value or on one without tokens, the text only on a comment    *)
(* that is not closed.                                                     *)
THEOREM OverrunIsOdd == Spec => []OverrunNeedsOddObject
<1>1. Parse => OverrunNeedsOddObject
    BY DEF Parse, Outcome
<1> QED
    BY <1>1, ParseCorrect, PTL
=============================================================================
