------------------------------ MODULE StoresProofs ------------------------------
(***************************************************************************)
(* Proofs about the components of MCStores, for any bounds: the two        *)
(* connections to a database, the intern, the stream_socket, the lru and   *)
(* the csv parser.  Each but the last has an inductive invariant about     *)
(* what two sides have of the same things: the client and the server, two  *)
(* tables, a buffer and the peer, a map and its index.  What the parser    *)
(* reads is what was written because the reader is where the writer was:   *)
(* functions of the positions of a text are followed piece by piece.       *)
(* A recursive function is a CHOOSE: it has its values once one function   *)
(* is shown to solve its equation.  The other components are in DataProofs.*)
(***************************************************************************)
EXTENDS MCStores, Integers, Sequences, FiniteSetTheorems, SequenceTheorems, WellFoundedInduction, TLAPS

-----------------------------------------------------------------------------
(* Induction, over sets of numbers: the theorems of the library about      *)
(* predicates cannot be instantiated, the one about least elements can.    *)

\* There is a well-founded relation in which smaller numbers are below greater ones.
LEMMA NaturalOrder == \E R : IsWellFoundedOn(R, Nat) /\ \A m, n \in Nat : m < n => <<m, n>> \in R
<1> DEFINE R == OpToRel(<, Nat)
<1>1. IsWellFoundedOn(R, Nat) BY NatLessThanWellFounded
<1>2. ASSUME NEW m \in Nat, NEW n \in Nat, m < n PROVE <<m, n>> \in R
  BY <1>2 DEF OpToRel
<1> QED BY <1>1, <1>2

\* A set of numbers that is not empty has a least one.
LEMMA LeastOf ==
  ASSUME NEW T, T \subseteq Nat, T # {}
  PROVE  \E m \in T : \A n \in T : m <= n
<1>1. PICK R : IsWellFoundedOn(R, Nat) /\ \A m, n \in Nat : m < n => <<m, n>> \in R BY NaturalOrder
<1>2. PICK m \in T : \A n \in T : ~ (<<n, m>> \in R) BY <1>1, WFMin, ZenonT(40)
<1>3. ASSUME NEW n \in T PROVE m <= n
  <2>1. m \in Nat /\ n \in Nat OBVIOUS
  <2>2. ~ (n < m) BY <1>1, <1>2, <2>1
  <2> QED BY <2>1, <2>2
<1> QED BY <1>3

\* Numbers that are in T if all the smaller ones are, are in T.
LEMMA FromSmaller ==
  ASSUME NEW T, \A n \in Nat : (\A m \in Nat : m < n => m \in T) => n \in T
  PROVE  \A n \in Nat : n \in T
<1> SUFFICES ASSUME Nat \ T # {} PROVE FALSE OBVIOUS
<1>1. PICK m \in Nat \ T : \A n \in Nat \ T : m <= n BY LeastOf, Nat \ T \subseteq Nat
<1>2. \A n \in Nat : n < m => n \in T BY <1>1
<1> QED BY <1>1, <1>2

\* ... if the one before is, and 0 is.
LEMMA FromBefore ==
  ASSUME NEW T, 0 \in T, \A n \in Nat : n \in T => n + 1 \in T
  PROVE  \A n \in Nat : n \in T
<1> SUFFICES ASSUME Nat \ T # {} PROVE FALSE OBVIOUS
<1>1. PICK m \in Nat \ T : \A n \in Nat \ T : m <= n BY LeastOf, Nat \ T \subseteq Nat
<1>2. m - 1 \in Nat BY <1>1
<1>3. m - 1 \in T BY <1>1, <1>2
<1> QED BY <1>1, <1>2, <1>3

-----------------------------------------------------------------------------
(* Recursion                                                               *)

\* A function that goes on from a first value by a given one
RecOf(first, next, f) == [n \in Nat |-> IF n = 0 THEN first ELSE next[f[n - 1]]]

RecUpTo(first, next, n, f) == \A m \in Nat : m < n => f[m] = RecOf(first, next, f)[m]

\* It can be followed up to any number.
LEMMA RecursionBelow ==
  ASSUME NEW first, NEW next
  PROVE  \A n \in Nat : \E g : RecUpTo(first, next, n, g)
<1> DEFINE T == {n \in Nat : \E g : RecUpTo(first, next, n, g)}
<1>1. 0 \in T BY DEF RecUpTo
<1>2. ASSUME NEW n \in Nat, n \in T PROVE n + 1 \in T
  <2>1. PICK g : RecUpTo(first, next, n, g) BY <1>2
  <2> DEFINE gg == [m \in Nat |-> IF m = n THEN RecOf(first, next, g)[n] ELSE g[m]]
  <2>2. ASSUME NEW m \in Nat, m < n + 1 PROVE gg[m] = RecOf(first, next, gg)[m]
    <3>1. gg[m] = RecOf(first, next, g)[m] BY <2>1, <2>2 DEF RecUpTo
    <3>2. CASE m = 0
      <4> HIDE DEF gg
      <4> QED BY <3>1, <3>2 DEF RecOf
    <3>3. CASE m # 0
      <4>1. m - 1 \in Nat /\ m - 1 # n BY <2>2, <3>3
      <4>2. gg[m - 1] = g[m - 1] BY <4>1
      <4> HIDE DEF gg
      <4> QED BY <3>1, <3>3, <4>2 DEF RecOf
    <3> QED BY <3>2, <3>3
  <2> HIDE DEF gg
  <2>3. RecUpTo(first, next, n + 1, gg) BY <2>2 DEF RecUpTo
  <2> QED BY <2>3
<1> HIDE DEF T
<1>3. \A n \in Nat : n \in T BY <1>1, <1>2, FromBefore
<1> QED BY <1>3 DEF T

\* Two functions that follow it up to a number are the same there.
LEMMA RecursionSame ==
  ASSUME NEW first, NEW next, NEW n \in Nat, NEW f, NEW g,
         RecUpTo(first, next, n, f), RecUpTo(first, next, n, g)
  PROVE  \A m \in Nat : m < n => f[m] = g[m]
<1> DEFINE T == {m \in Nat : m < n => f[m] = g[m]}
<1>1. 0 \in T BY DEF RecOf, RecUpTo
<1>2. ASSUME NEW m \in Nat, m \in T PROVE m + 1 \in T
  <2> SUFFICES ASSUME m + 1 < n PROVE f[m + 1] = g[m + 1] OBVIOUS
  <2>1. m + 1 \in Nat /\ m + 1 # 0 /\ (m + 1) - 1 = m OBVIOUS
  <2>2. f[m + 1] = next[f[m]] /\ g[m + 1] = next[g[m]] BY <2>1 DEF RecOf, RecUpTo
  <2> QED BY <2>2, <1>2
<1> HIDE DEF T
<1>3. \A m \in Nat : m \in T BY <1>1, <1>2, FromBefore
<1> QED BY <1>3 DEF T

\* There is one.
LEMMA Recursion ==
  ASSUME NEW first, NEW next
  PROVE  \E f : f = RecOf(first, next, f)
<1> DEFINE G(n) == CHOOSE g : RecUpTo(first, next, n + 1, g)
<1> DEFINE f == [n \in Nat |-> G(n)[n]]
<1>1. ASSUME NEW n \in Nat PROVE RecUpTo(first, next, n + 1, G(n))
  <2>1. \E g : RecUpTo(first, next, n + 1, g) BY RecursionBelow, n + 1 \in Nat
  <2> QED BY <2>1
<1> HIDE DEF G
<1>2. ASSUME NEW n \in Nat PROVE f[n] = RecOf(first, next, f)[n]
  <2>1. f[n] = RecOf(first, next, G(n))[n] BY <1>1 DEF RecUpTo
  <2>2. CASE n = 0 BY <2>1, <2>2 DEF RecOf
  <2>3. CASE n # 0
    <3> DEFINE m == n - 1
    <3> DEFINE gm == G(m)
    <3> DEFINE gn == G(n)
    <3>1. m \in Nat /\ m < n /\ m + 1 = n BY <2>3
    <3>2. RecUpTo(first, next, n, gm) /\ RecUpTo(first, next, n, gn) /\ m < n
      <4>1. RecUpTo(first, next, n, gm) BY <1>1, <3>1
      <4>2. RecUpTo(first, next, n + 1, gn) BY <1>1
      <4>3. RecUpTo(first, next, n, gn) BY <4>2 DEF RecUpTo
      <4> QED BY <4>1, <4>3, <3>1
    <3>3. f[m] = gm[m] BY <3>1
    <3> HIDE DEF gm, gn, m, f
    <3>4. gm[m] = gn[m] BY <3>1, <3>2, RecursionSame
    <3>5. f[n] = next[gn[n - 1]] BY <2>1, <2>3 DEF RecOf, gn
    <3> QED BY <2>3, <3>1, <3>3, <3>4, <3>5 DEF RecOf, m
  <2> QED BY <2>2, <2>3
<1>3. f = RecOf(first, next, f) BY <1>2 DEF RecOf
<1> QED BY <1>3

-----------------------------------------------------------------------------
(* Folds of sequences, as the library defines them                         *)

FoldOf(first, next, s, g, set) ==
  IF set = {} THEN first ELSE next[<<g[set \ {Q!Max(set)}], s[Q!Max(set)]>>]
FoldsOf(first, next, s, g) == [set \in SUBSET DOMAIN s |-> FoldOf(first, next, s, g, set)]

\* Positions of a sequence that are not none have a last one.
LEMMA LastOf ==
  ASSUME NEW n \in Nat, NEW set \in SUBSET (1..n), set # {}
  PROVE  Q!Max(set) \in set /\ \A i \in set : Q!Max(set) >= i
<1> DEFINE T == {n - i : i \in set}
<1>a. PICK e \in set : TRUE OBVIOUS
<1>b. n - e \in T OBVIOUS
<1>1. T \subseteq Nat OBVIOUS
<1>2. PICK m \in T : \A l \in T : m <= l BY <1>1, <1>b, LeastOf
<1>3. PICK k \in set : m = n - k OBVIOUS
<1>4. \A i \in set : k >= i
  <2> TAKE i \in set
  <2>1. n - i \in T OBVIOUS
  <2>2. m <= n - i BY <1>2, <2>1
  <2>3. i \in Int /\ k \in Int OBVIOUS
  <2> QED BY <1>3, <2>2, <2>3
<1> QED BY <1>3, <1>4 DEF Q!Max

\* The recursion has a solution for the sets of less than m positions, for every m.
LEMMA FoldsBelow ==
  ASSUME NEW first, NEW next, NEW s, NEW n \in Nat, DOMAIN s = 1..n
  PROVE  \A m \in Nat : \E g : \A set \in SUBSET (1..n) :
           Cardinality(set) < m => g[set] = FoldOf(first, next, s, g, set)
<1> DEFINE T == {m \in Nat : \E g : \A set \in SUBSET (1..n) :
                    Cardinality(set) < m => g[set] = FoldOf(first, next, s, g, set)}
<1>a. IsFiniteSet(1..n) BY FS_Interval
<1>0. \A set \in SUBSET (1..n) : IsFiniteSet(set) /\ Cardinality(set) \in Nat
  BY <1>a, FS_Subset, FS_CardinalityType
<1>1. 0 \in T BY <1>0
<1>2. ASSUME NEW m \in Nat, m \in T PROVE m + 1 \in T
  <2>1. PICK g : \A set \in SUBSET (1..n) : Cardinality(set) < m => g[set] = FoldOf(first, next, s, g, set) BY <1>2
  <2> DEFINE gg == [set \in SUBSET (1..n) |-> IF Cardinality(set) = m THEN FoldOf(first, next, s, g, set) ELSE g[set]]
  <2>2. ASSUME NEW set \in SUBSET (1..n), Cardinality(set) < m + 1 PROVE gg[set] = FoldOf(first, next, s, gg, set)
    <3>a. Cardinality(set) \in Nat BY <1>0
    <3>b. Cardinality(set) = m \/ Cardinality(set) < m BY <2>2, <3>a
    <3>1. gg[set] = FoldOf(first, next, s, g, set) BY <2>1, <3>b
    <3>2. CASE set = {} BY <3>1, <3>2 DEF FoldOf
    <3>3. CASE set # {}
      <4> DEFINE x == Q!Max(set)
      <4>1. x \in set BY <3>3, LastOf
      <4> HIDE DEF x
      <4> DEFINE t == set \ {x}
      <4>2. t \in SUBSET (1..n) OBVIOUS
      <4>3. Cardinality(t) = Cardinality(set) - 1 BY <4>1, <1>0, FS_RemoveElement
      <4>4. Cardinality(t) # m BY <1>0, <2>2, <4>3
      <4>5. gg[t] = g[t] BY <4>2, <4>4
      <4> HIDE DEF gg
      <4> QED BY <3>1, <3>3, <4>5 DEF FoldOf, x
    <3> QED BY <3>2, <3>3
  <2>3. \E h : \A set \in SUBSET (1..n) : Cardinality(set) < m + 1 => h[set] = FoldOf(first, next, s, h, set) BY <2>2
  <2> QED BY <2>3
<1> HIDE DEF T
<1>3. \A m \in Nat : m \in T BY <1>1, <1>2, FromBefore
<1> QED BY <1>3 DEF T

\* The recursion has a solution.
LEMMA FoldsExist ==
  ASSUME NEW first, NEW next, NEW s, NEW n \in Nat, DOMAIN s = 1..n
  PROVE  \E g : g = FoldsOf(first, next, s, g)
<1>a. IsFiniteSet(1..n) /\ Cardinality(1..n) \in Nat BY FS_Interval, FS_CardinalityType
<1> DEFINE m == Cardinality(1..n) + 1
<1>b. m \in Nat BY <1>a
<1>c. \A k \in Nat : \E g : \A set \in SUBSET (1..n) :
        Cardinality(set) < k => g[set] = FoldOf(first, next, s, g, set)
  BY FoldsBelow
<1> HIDE DEF m
<1>1. PICK g : \A set \in SUBSET (1..n) : Cardinality(set) < m => g[set] = FoldOf(first, next, s, g, set)
  BY <1>b, <1>c
<1>2. \A set \in SUBSET (1..n) : g[set] = FoldOf(first, next, s, g, set)
  <2> TAKE set \in SUBSET (1..n)
  <2>1. Cardinality(set) \in Nat /\ Cardinality(set) <= Cardinality(1..n)
    BY <1>a, FS_Subset, FS_CardinalityType
  <2>2. Cardinality(set) < m BY <1>a, <2>1 DEF m
  <2> QED BY <1>1, <2>2
<1> DEFINE h == [set \in SUBSET (1..n) |-> g[set]]
<1>3. ASSUME NEW set \in SUBSET (1..n) PROVE h[set] = FoldOf(first, next, s, h, set)
  <2>1. h[set] = FoldOf(first, next, s, g, set) BY <1>2
  <2>2. set \ {Q!Max(set)} \in SUBSET (1..n) OBVIOUS
  <2>3. h[set \ {Q!Max(set)}] = g[set \ {Q!Max(set)}] BY <2>2
  <2> HIDE DEF h
  <2> QED BY <2>1, <2>3 DEF FoldOf
<1>4. h = FoldsOf(first, next, s, h)
  <2> HIDE DEF h
  <2>1. h = [set \in SUBSET (1..n) |-> h[set]] BY DEF h
  <2> QED BY <1>3, <2>1 DEF FoldsOf
<1> QED BY <1>4

\* If next stays in Accs, so does the fold, which goes through the positions from the first on.
Folding(first, next, Accs, Items, n, s, g) ==
  /\ first \in Accs /\ next \in [Accs \X Items -> Accs] /\ n \in Nat /\ s \in [1..n -> Items]
  /\ g = FoldsOf(first, next, s, g)

LEMMA FoldIs ==
  ASSUME NEW first, NEW next, NEW Accs, NEW Items, NEW n, NEW s, NEW g, Folding(first, next, Accs, Items, n, s, g)
  PROVE  /\ \A set \in SUBSET (1..n) : g[set] \in Accs
         /\ g[1..0] = first
         /\ \A k \in 1..n : g[1..k] = next[<<g[1..(k - 1)], s[k]>>]
<1> USE DEF Folding
<1>a. IsFiniteSet(1..n) BY FS_Interval
<1>0. \A set \in SUBSET (1..n) : IsFiniteSet(set) /\ Cardinality(set) \in Nat
  BY <1>a, FS_Subset, FS_CardinalityType
<1>b. \A set \in SUBSET (1..n) : g[set] = FoldOf(first, next, s, g, set)
  <2>1. DOMAIN s = 1..n OBVIOUS
  <2> QED BY <2>1 DEF FoldsOf
<1> DEFINE T == {m \in Nat : \A set \in SUBSET (1..n) : Cardinality(set) = m => g[set] \in Accs}
<1>1. 0 \in T
  <2> SUFFICES ASSUME NEW set \in SUBSET (1..n), Cardinality(set) = 0 PROVE g[set] \in Accs OBVIOUS
  <2>1. set = {} BY <1>0, FS_EmptySet
  <2> QED BY <1>b, <2>1 DEF FoldOf
<1>2. ASSUME NEW m \in Nat, m \in T PROVE m + 1 \in T
  <2> SUFFICES ASSUME NEW set \in SUBSET (1..n), Cardinality(set) = m + 1 PROVE g[set] \in Accs OBVIOUS
  <2>1. set # {}
    <3>1. m + 1 # 0 OBVIOUS
    <3> QED BY <3>1, FS_EmptySet
  <2> DEFINE x == Q!Max(set)
  <2>2. x \in set BY <2>1, LastOf
  <2> HIDE DEF x
  <2>3. Cardinality(set \ {x}) = m BY <1>0, <2>2, FS_RemoveElement
  <2>4. g[set \ {x}] \in Accs BY <1>2, <2>3
  <2>5. s[x] \in Items BY <2>2
  <2>6. g[set] = next[<<g[set \ {x}], s[x]>>] BY <1>b, <2>1 DEF FoldOf, x
  <2> QED BY <2>4, <2>5, <2>6
<1> HIDE DEF T
<1>3. \A m \in Nat : m \in T BY <1>1, <1>2, FromBefore
<1>4. \A set \in SUBSET (1..n) : g[set] \in Accs BY <1>0, <1>3 DEF T
<1>5. g[1..0] = first
  <2>1. 1..0 = {} OBVIOUS
  <2> QED BY <1>b, <2>1 DEF FoldOf
<1>6. ASSUME NEW k \in 1..n PROVE g[1..k] = next[<<g[1..(k - 1)], s[k]>>]
  <2>1. 1..k \in SUBSET (1..n) /\ k \in 1..k OBVIOUS
  <2>2. Q!Max(1..k) \in 1..k /\ Q!Max(1..k) >= k BY <2>1, LastOf
  <2>3. Q!Max(1..k) = k BY <2>2
  <2>4. (1..k) \ {k} = 1..(k - 1) OBVIOUS
  <2> QED BY <1>b, <2>1, <2>3, <2>4 DEF FoldOf
<1> QED BY <1>4, <1>5, <1>6

-----------------------------------------------------------------------------
(* Mysql                                                                   *)

\* What a sequence has, and that it has nothing twice
Stored(s) == {s[i] : i \in DOMAIN s}
Once(s) == \A i, j \in DOMAIN s : s[i] = s[j] => i = j

MyKept(s) == Stored(s.kept)
MyPending(s) == Stored(s.pending)

\* What is kept, and what the open transaction has, at a server
MyRecords == [open : BOOLEAN, pending : Seq(Nat), kept : Seq(Nat)]
MyServers ==
  {s \in MyRecords :
     /\ Once(s.kept) /\ Once(s.pending) /\ MyKept(s) \cap MyPending(s) = {}
     /\ ~s.open => s.pending = <<>>}

\* The types of the state
MyTypes ==
  /\ conn \in {"null", "live", "lost"}
  /\ server \in MyServers
  /\ call \in [at : {"idle", "query", "requery", "connect", "prepare", "reprepare", "execute", "terminated"},
               command : {"none", "BEGIN", "COMMIT", "ROLLBACK", "run", "prepare", "held"},
               statement : Nat, attempt : Nat]
  /\ block \in [state : {"none", "inside", "committing", "committed", "unwinding", "rolled back"},
                ran : SUBSET Nat, broken : BOOLEAN]
  /\ calls \in Nat

\* A transaction is open only while the connection the library knows of is alive.
MySession == conn # "live" => ~server.open

\* Statements at the server are ones that were asked for, and the one of the call that is on
\* its way is not there yet.
MyNumbered ==
  /\ MyKept(server) \cup MyPending(server) \cup block.ran \subseteq 1..calls
  /\ call.at \in {"connect", "prepare", "reprepare", "execute"} /\ call.command \in {"run", "held"} =>
       call.statement \in (1..calls) \ (MyKept(server) \cup MyPending(server) \cup block.ran)

\* What a call does under way, by the state of its block
MyCalled ==
  /\ call.at \in {"query", "requery"} =>
       \/ call.command = "BEGIN" /\ block.state = "none"
       \/ call.command = "COMMIT" /\ block.state = "committing"
       \/ call.command = "ROLLBACK" /\ block.state = "unwinding"
  /\ block.state = "committing" => call.at \in {"query", "requery"}
  /\ block.state = "unwinding" => call.at \in {"query", "requery", "terminated"}
  /\ call.at \in {"connect", "prepare", "reprepare"} => call.command \in {"run", "prepare"}
  /\ call.at = "execute" => call.command \in {"run", "held"}

\* A block that began and kept its session has its statements in the open transaction until
\* it commits, then all or none of them kept; after a refused COMMIT all of them may be in
\* a transaction that is still open, with statements that came behind the block.
MyBlocked ==
  ~block.broken =>
    /\ block.state = "inside" => server.open /\ block.ran = MyPending(server)
    /\ block.state = "committing" =>
         \/ block.ran = MyPending(server) /\ MyKept(server) \cap block.ran = {}
         \/ MyPending(server) = {} /\ MyKept(server) \cap block.ran \in {{}, block.ran}
    /\ block.state = "committed" =>
         \/ block.ran \subseteq MyPending(server) /\ MyKept(server) \cap block.ran = {}
         \/ MyPending(server) \cap block.ran = {} /\ MyKept(server) \cap block.ran \in {{}, block.ran}
    /\ block.state = "unwinding" => MyKept(server) \cap block.ran = {}
    /\ block.state = "rolled back" => MyKept(server) \cap block.ran = {} /\ MyPending(server) \cap block.ran = {}

\* The inductive invariant
MyInv == MyTypes /\ MySession /\ MyNumbered /\ MyCalled /\ MyBlocked

\* Two sequences without anything twice, joined
LEMMA ConcatOnce ==
  ASSUME NEW E, NEW s \in Seq(E), NEW t \in Seq(E)
  PROVE /\ s \o t \in Seq(E)
        /\ Stored(s \o t) = Stored(s) \cup Stored(t)
        /\ Once(s \o t) <=> Once(s) /\ Once(t) /\ Stored(s) \cap Stored(t) = {}
  <1> DEFINE q == s \o t
             n == Len(s)
  <1>1. /\ q \in Seq(E)
        /\ \A i \in DOMAIN s : i \in DOMAIN q /\ q[i] = s[i] /\ i \in 1..n
        /\ \A i \in DOMAIN t : i + n \in DOMAIN q /\ q[i + n] = t[i] /\ i > 0 /\ i \in Int
        /\ \A i \in DOMAIN q : \/ i \in DOMAIN s /\ q[i] = s[i]
                               \/ i - n \in DOMAIN t /\ q[i] = t[i - n] /\ i \in Int
        /\ n \in Nat
    <2>1. q \in Seq(E) /\ n \in Nat /\ Len(q) = n + Len(t)
      OBVIOUS
    <2>2. DOMAIN s = 1..n /\ DOMAIN t = 1..Len(t) /\ DOMAIN q = 1..(n + Len(t)) /\ Len(t) \in Nat
      BY <2>1
    <2>3. \A i \in 1..(n + Len(t)) : q[i] = IF i <= n THEN s[i] ELSE t[i - n]
      OBVIOUS
    <2> HIDE DEF q, n
    <2>4. \A i \in 1..n : i \in 1..(n + Len(t)) /\ q[i] = s[i]
      BY <2>1, <2>2, <2>3
    <2>5. ASSUME NEW i \in 1..Len(t) PROVE i + n \in 1..(n + Len(t)) /\ q[i + n] = t[i]
      <3>1. i + n \in 1..(n + Len(t)) /\ ~(i + n <= n) /\ (i + n) - n = i
        BY <2>1, <2>2
      <3>2. QED
        BY <2>3, <3>1
    <2>6. ASSUME NEW i \in 1..(n + Len(t))
          PROVE \/ i \in 1..n /\ q[i] = s[i]
                \/ i - n \in 1..Len(t) /\ q[i] = t[i - n]
      <3>1. CASE i <= n
        BY <2>1, <2>2, <2>4, <3>1
      <3>2. CASE ~(i <= n)
        <4>1. q[i] = t[i - n]
          BY <2>3, <3>2
        <4>2. i - n \in 1..Len(t)
          BY <2>1, <2>2, <3>2
        <4>3. QED
          BY <4>1, <4>2
      <3>3. QED
        BY <3>1, <3>2
    <2>7. \A i \in DOMAIN s : i \in DOMAIN q /\ q[i] = s[i] /\ i \in 1..n
      BY <2>2, <2>4
    <2>8. \A i \in DOMAIN t : i + n \in DOMAIN q /\ q[i + n] = t[i] /\ i > 0 /\ i \in Int
      BY <2>2, <2>5
    <2>9. \A i \in DOMAIN q : \/ i \in DOMAIN s /\ q[i] = s[i]
                              \/ i - n \in DOMAIN t /\ q[i] = t[i - n] /\ i \in Int
      <3>1. n + Len(t) \in Int /\ DOMAIN q = 1..(n + Len(t)) /\ DOMAIN s = 1..n /\ DOMAIN t = 1..Len(t)
        BY <2>1, <2>2
      <3>2. \A i \in 1..(n + Len(t)) : i \in Int
        BY <3>1
      <3>3. QED
        BY <2>6, <3>1, <3>2
    <2>10. QED
      BY <2>1, <2>7, <2>8, <2>9
  <1> HIDE DEF q, n
  <1>2. Stored(q) = Stored(s) \cup Stored(t)
    <2>1. ASSUME NEW x \in Stored(q) PROVE x \in Stored(s) \cup Stored(t)
      <3>1. PICK i \in DOMAIN q : x = q[i]
        BY <2>1 DEF Stored
      <3>2. QED
        BY <1>1, <3>1 DEF Stored
    <2>2. ASSUME NEW x \in Stored(s) PROVE x \in Stored(q)
      BY <1>1, <2>2 DEF Stored
    <2>3. ASSUME NEW x \in Stored(t) PROVE x \in Stored(q)
      <3>1. PICK i \in DOMAIN t : x = t[i]
        BY <2>3 DEF Stored
      <3>2. i + n \in DOMAIN q /\ x = q[i + n]
        BY <1>1, <3>1
      <3>3. QED
        BY <3>2 DEF Stored
    <2>4. QED
      BY <2>1, <2>2, <2>3
  <1>3. ASSUME Once(q) PROVE Once(s) /\ Once(t) /\ Stored(s) \cap Stored(t) = {}
    <2>1. Once(s)
      BY <1>1, <1>3 DEF Once
    <2>2. ASSUME NEW i \in DOMAIN t, NEW j \in DOMAIN t, t[i] = t[j] PROVE i = j
      <3>1. q[i + n] = q[j + n] /\ i + n \in DOMAIN q /\ j + n \in DOMAIN q
        BY <1>1, <2>2
      <3>2. i + n = j + n
        BY <1>3, <3>1 DEF Once
      <3>3. QED
        BY <1>1, <3>2
    <2>3. ASSUME NEW x \in Stored(s), x \in Stored(t) PROVE FALSE
      <3>1. PICK i \in DOMAIN s : x = s[i]
        BY <2>3 DEF Stored
      <3>2. PICK j \in DOMAIN t : x = t[j]
        BY <2>3 DEF Stored
      <3>3. q[i] = q[j + n] /\ i \in DOMAIN q /\ j + n \in DOMAIN q
        BY <1>1, <3>1, <3>2
      <3>4. i = j + n
        BY <1>3, <3>3 DEF Once
      <3>5. QED
        BY <1>1, <3>4
    <2>4. QED
      BY <2>1, <2>2, <2>3 DEF Once
  <1>4. ASSUME Once(s), Once(t), Stored(s) \cap Stored(t) = {} PROVE Once(q)
    <2> SUFFICES ASSUME NEW i \in DOMAIN q, NEW j \in DOMAIN q, q[i] = q[j] PROVE i = j
      BY DEF Once
    <2>1. \A k \in {i, j} : \/ k \in DOMAIN s /\ q[k] = s[k] /\ q[k] \in Stored(s)
                            \/ k - n \in DOMAIN t /\ q[k] = t[k - n] /\ q[k] \in Stored(t) /\ k \in Int
      BY <1>1 DEF Stored
    <2>2. QED
      BY <1>1, <1>4, <2>1 DEF Once
  <1>5. QED
    BY <1>1, <1>2, <1>3, <1>4 DEF q

\* One more at the end
LEMMA AppendOnce ==
  ASSUME NEW E, NEW s \in Seq(E), NEW x \in E
  PROVE /\ Append(s, x) \in Seq(E)
        /\ Stored(Append(s, x)) = Stored(s) \cup {x}
        /\ Once(s) /\ x \notin Stored(s) => Once(Append(s, x))
  <1>1. /\ Append(s, x) \in Seq(E) /\ Len(s) \in Nat
        /\ \A i \in DOMAIN s : i \in DOMAIN Append(s, x) /\ Append(s, x)[i] = s[i]
        /\ Len(s) + 1 \in DOMAIN Append(s, x) /\ Append(s, x)[Len(s) + 1] = x
        /\ \A i \in DOMAIN Append(s, x) : \/ i \in DOMAIN s /\ Append(s, x)[i] = s[i]
                                          \/ i = Len(s) + 1 /\ Append(s, x)[i] = x
    OBVIOUS
  <1>2. Stored(Append(s, x)) = Stored(s) \cup {x}
    BY <1>1 DEF Stored
  <1>3. ASSUME Once(s), x \notin Stored(s) PROVE Once(Append(s, x))
    BY <1>1, <1>3 DEF Once, Stored
  <1>4. QED
    BY <1>1, <1>2, <1>3

\* The empty sequence
LEMMA NothingStored == Stored(<<>>) = {} /\ Once(<<>>) /\ \A E : <<>> \in Seq(E)
  BY DEF Stored, Once

\* What the server keeps, and what its open transaction has, after a command.
LEMMA MyCommands ==
  ASSUME NEW s \in MyServers, NEW x
  PROVE /\ LET r == M!Processed(s, "BEGIN", x)
           IN r \in MyServers /\ r.open /\ MyKept(r) = MyKept(s) \cup MyPending(s) /\ MyPending(r) = {}
        /\ LET r == M!Processed(s, "COMMIT", x)
           IN r \in MyServers /\ ~r.open /\ MyKept(r) = MyKept(s) \cup MyPending(s) /\ MyPending(r) = {}
        /\ LET r == M!Processed(s, "ROLLBACK", x)
           IN r \in MyServers /\ ~r.open /\ MyKept(r) = MyKept(s) /\ MyPending(r) = {}
        /\ LET r == M!SessionEnded(s)
           IN r \in MyServers /\ ~r.open /\ MyKept(r) = MyKept(s) /\ MyPending(r) = {}
        /\ MyKept(s) \cap MyPending(s) = {}
        /\ ~s.open => MyPending(s) = {}
  <1>1. PICK none : none = <<>> /\ none \in Seq(Nat) /\ Once(none) /\ Stored(none) = {}
    BY NothingStored
  <1>2. PICK both : /\ both = s.kept \o s.pending /\ both \in Seq(Nat) /\ Once(both)
                    /\ Stored(both) = MyKept(s) \cup MyPending(s)
    <2>1. /\ s.kept \in Seq(Nat) /\ s.pending \in Seq(Nat) /\ Once(s.kept) /\ Once(s.pending)
          /\ Stored(s.kept) \cap Stored(s.pending) = {}
      BY DEF MyServers, MyRecords, MyKept, MyPending
    <2>2. /\ s.kept \o s.pending \in Seq(Nat) /\ Once(s.kept \o s.pending)
          /\ Stored(s.kept \o s.pending) = MyKept(s) \cup MyPending(s)
      BY <2>1, ConcatOnce DEF MyKept, MyPending
    <2>3. QED
      BY <2>2
  <1>3. M!Processed(s, "BEGIN", x) = [open |-> TRUE, pending |-> none, kept |-> both]
    BY <1>1, <1>2 DEF M!Processed
  <1>4. M!Processed(s, "COMMIT", x) = [open |-> FALSE, pending |-> none, kept |-> both]
    BY <1>1, <1>2 DEF M!Processed
  <1>5. M!Processed(s, "ROLLBACK", x) = [s EXCEPT !.open = FALSE, !.pending = none]
    BY <1>1 DEF M!Processed
  <1>6. M!SessionEnded(s) = [s EXCEPT !.open = FALSE, !.pending = none]
    BY <1>1 DEF M!SessionEnded
  <1>7. [s EXCEPT !.open = FALSE, !.pending = none] = [open |-> FALSE, pending |-> none, kept |-> s.kept]
    <2>1. s \in MyRecords
      BY DEF MyServers
    <2> DEFINE a == [s EXCEPT !.open = FALSE, !.pending = none]
    <2>2. a \in MyRecords /\ a.open = FALSE /\ a.pending = none /\ a.kept = s.kept
      BY <1>1, <2>1 DEF MyRecords
    <2> HIDE DEF a
    <2>3. a = [open |-> FALSE, pending |-> none, kept |-> s.kept]
      BY <2>2 DEF MyRecords
    <2>4. QED
      BY <2>3 DEF a
  <1>8. s.kept \in Seq(Nat) /\ Once(s.kept)
    BY DEF MyServers, MyRecords
  <1>9. ASSUME NEW k \in Seq(Nat), Once(k), NEW open \in BOOLEAN
        PROVE LET r == [open |-> open, pending |-> none, kept |-> k]
              IN r \in MyServers /\ r.open = open /\ MyKept(r) = Stored(k) /\ MyPending(r) = {}
    BY <1>1, <1>9 DEF MyServers, MyRecords, MyKept, MyPending
  <1>10. MyKept(s) \cap MyPending(s) = {} /\ (~s.open => MyPending(s) = {})
    BY <1>1 DEF MyServers, MyPending
  <1>11. QED
    BY <1>2, <1>3, <1>4, <1>5, <1>6, <1>7, <1>8, <1>9, <1>10 DEF MyKept

\* A statement is in the open transaction, or kept at once if none is open.
LEMMA MyStatements ==
  ASSUME NEW s \in MyServers, NEW command \in {"run", "held"},
         NEW x \in Nat, x \notin MyKept(s) \cup MyPending(s)
  PROVE LET r == M!Processed(s, command, x)
        IN /\ r \in MyServers /\ r.open = s.open
           /\ s.open => MyKept(r) = MyKept(s) /\ MyPending(r) = MyPending(s) \cup {x}
           /\ ~s.open => MyKept(r) = MyKept(s) \cup {x} /\ MyPending(r) = {} /\ MyPending(s) = {}
  <1> DEFINE r == M!Processed(s, command, x)
  <1>1. /\ s \in MyRecords /\ s.kept \in Seq(Nat) /\ s.pending \in Seq(Nat)
        /\ Once(s.kept) /\ Once(s.pending) /\ (~s.open => MyPending(s) = {})
        /\ MyKept(s) \cap MyPending(s) = {}
    BY NothingStored DEF MyServers, MyRecords, MyPending
  <1>2. CASE s.open
    <2>1. PICK p : p = Append(s.pending, x) /\ p \in Seq(Nat) /\ Once(p) /\ Stored(p) = MyPending(s) \cup {x}
      BY <1>1, AppendOnce DEF MyPending
    <2>2. r = [open |-> s.open, pending |-> p, kept |-> s.kept]
      BY <1>1, <1>2, <2>1 DEF M!Processed, MyRecords
    <2>3. r \in MyRecords /\ MyKept(r) = MyKept(s) /\ MyPending(r) = MyPending(s) \cup {x} /\ r.open
      BY <1>1, <1>2, <2>1, <2>2 DEF MyRecords, MyKept, MyPending
    <2>4. r.open = s.open /\ Once(r.kept) /\ Once(r.pending)
      BY <1>1, <2>1, <2>2
    <2>5. r \in MyServers
      BY <1>1, <1>2, <2>3, <2>4 DEF MyServers
    <2>6. QED
      BY <1>2, <2>3, <2>4, <2>5
  <1>3. CASE ~s.open
    <2>1. PICK k : k = Append(s.kept, x) /\ k \in Seq(Nat) /\ Once(k) /\ Stored(k) = MyKept(s) \cup {x}
      BY <1>1, AppendOnce DEF MyKept
    <2>2. r = [open |-> s.open, pending |-> s.pending, kept |-> k]
      BY <1>1, <1>3, <2>1 DEF M!Processed, MyRecords
    <2>3. /\ r \in MyRecords /\ MyKept(r) = MyKept(s) \cup {x} /\ MyPending(r) = {} /\ ~r.open
          /\ r.pending = <<>>
      BY <1>1, <1>3, <2>1, <2>2 DEF MyRecords, MyKept, MyPending, MyServers
    <2>4. r.open = s.open /\ Once(r.kept) /\ Once(r.pending)
      BY <1>1, <2>1, <2>2
    <2>5. r \in MyServers
      BY <1>1, <1>3, <2>3, <2>4 DEF MyServers
    <2>6. QED
      BY <1>1, <1>3, <2>3, <2>4, <2>5
  <1>4. QED
    BY <1>1, <1>2, <1>3 DEF MyRecords

\* The two outcomes of a command
MyCommitted(r) ==
  r \in MyServers /\ MyKept(r) = MyKept(server) \cup MyPending(server) /\ MyPending(r) = {}
MyDropped(r) == r \in MyServers /\ MyKept(r) = MyKept(server) /\ MyPending(r) = {}

\* What is known before each step.
LEMMA MyKnown ==
  ASSUME MyInv
  PROVE /\ MyKept(server) \cap MyPending(server) = {}
        /\ ~server.open => MyPending(server) = {}
        /\ conn # "live" => MyPending(server) = {}
        /\ MyDropped(M!SessionEnded(server)) /\ ~M!SessionEnded(server).open
        /\ call.at = "query" =>
             LET r == M!Processed(server, call.command, 0) IN
             LET e == M!SessionEnded(r) IN
             /\ call.command = "BEGIN" => MyCommitted(r) /\ r.open /\ MyCommitted(e) /\ ~e.open
             /\ call.command = "COMMIT" => MyCommitted(r) /\ MyCommitted(e) /\ ~r.open /\ ~e.open
             /\ call.command = "ROLLBACK" => MyDropped(r) /\ MyDropped(e) /\ ~r.open /\ ~e.open
             /\ call.command \in {"BEGIN", "COMMIT", "ROLLBACK"}
  <1>1. server \in MyServers /\ MySession
    BY DEF MyInv, MyTypes
  <1>2. /\ MyKept(server) \cap MyPending(server) = {} /\ (~server.open => MyPending(server) = {})
        /\ MyDropped(M!SessionEnded(server)) /\ ~M!SessionEnded(server).open
    BY <1>1, MyCommands DEF MyDropped
  <1>3. ASSUME call.at = "query", call.command = "BEGIN"
        PROVE LET r == M!Processed(server, call.command, 0) IN
              LET e == M!SessionEnded(r) IN MyCommitted(r) /\ r.open /\ MyCommitted(e) /\ ~e.open
    BY <1>1, <1>3, MyCommands DEF MyCommitted
  <1>4. ASSUME call.at = "query", call.command = "COMMIT"
        PROVE LET r == M!Processed(server, call.command, 0) IN
              LET e == M!SessionEnded(r) IN MyCommitted(r) /\ MyCommitted(e) /\ ~r.open /\ ~e.open
    BY <1>1, <1>4, MyCommands DEF MyCommitted
  <1>5. ASSUME call.at = "query", call.command = "ROLLBACK"
        PROVE LET r == M!Processed(server, call.command, 0) IN
              LET e == M!SessionEnded(r) IN MyDropped(r) /\ MyDropped(e) /\ ~r.open /\ ~e.open
    BY <1>1, <1>5, MyCommands DEF MyDropped
  <1>6. call.at = "query" => call.command \in {"BEGIN", "COMMIT", "ROLLBACK"}
    BY DEF MyInv, MyCalled
  <1>7. QED
    BY <1>1, <1>2, <1>3, <1>4, <1>5, <1>6 DEF MySession

\* It holds at first.
LEMMA MyInvInit == M!Init => MyInv
  <1> SUFFICES ASSUME M!Init PROVE MyInv
    OBVIOUS
  <1>1. server \in MyServers /\ MyKept(server) = {} /\ MyPending(server) = {} /\ ~server.open
    BY NothingStored DEF M!Init, MyServers, MyRecords, MyKept, MyPending
  <1>2. QED
    BY <1>1 DEF M!Init, MyInv, MyTypes, MySession, MyNumbered, MyCalled, MyBlocked, M!Idle, M!NoBlock

\* The session ends outside of a call.
LEMMA MyLoseStep == MyInv /\ M!Lose => MyInv'
  <1> SUFFICES ASSUME MyInv, M!Lose PROVE MyInv'
    OBVIOUS
  <1>1. MyDropped(server') /\ ~server'.open
    BY MyKnown DEF M!Lose
  <1>2. MyTypes' /\ MySession'
    BY <1>1 DEF MyInv, MyTypes, M!Lose, M!SessionLost, MyDropped, MySession
  <1>3. MyNumbered' /\ MyCalled'
    <2>1. /\ block'.state = block.state /\ block'.ran = block.ran
          /\ call' = call /\ calls' = calls
          /\ MyKept(server') = MyKept(server) /\ MyPending(server') = {}
      BY <1>1 DEF MyInv, MyTypes, M!Lose, M!SessionLost, MyDropped
    <2>2. QED
      BY <2>1 DEF MyInv, MyNumbered, MyCalled
  <1>4. MyBlocked'
    BY <1>1, MyKnown DEF MyInv, MyTypes, M!Lose, M!SessionLost, MyDropped, MyBlocked
  <1>5. QED
    BY <1>2, <1>3, <1>4 DEF MyInv

\* A call starts.
LEMMA MyCallStep == MyInv /\ (M!Enter \/ M!Leave \/ M!Run \/ M!Prepare \/ M!ExecuteHeld) => MyInv'
  <1> SUFFICES ASSUME MyInv, M!Enter \/ M!Leave \/ M!Run \/ M!Prepare \/ M!ExecuteHeld PROVE MyInv'
    OBVIOUS
  <1>1. /\ conn' = conn /\ server' = server /\ call = M!Idle
        /\ block.state \notin {"committing", "unwinding"}
    BY DEF MyInv, MyCalled, M!Enter, M!Leave, M!Run, M!Prepare, M!ExecuteHeld, M!Idle
  <1>2. MySession'
    BY <1>1 DEF MyInv, MySession
  <1>3. CASE M!Enter
    <2>1. /\ call'.at = "query" /\ call'.command = "BEGIN" /\ call'.statement = 0 /\ call'.attempt = 1
          /\ call' \in [at : {"query"}, command : {"BEGIN"}, statement : Nat, attempt : Nat]
          /\ block' = M!NoBlock /\ calls' = calls
      BY <1>3 DEF M!Enter, M!Query, M!Idle
    <2>2. QED
      BY <1>1, <1>2, <2>1 DEF MyInv, MyTypes, MyNumbered, MyCalled, MyBlocked, M!NoBlock
  <1>4. CASE M!Leave
    <2>1. /\ call'.at = "query" /\ call'.command \in {"COMMIT", "ROLLBACK"}
          /\ call' \in [at : {"query"}, command : {"COMMIT", "ROLLBACK"}, statement : Nat, attempt : Nat]
          /\ block'.state = IF call'.command = "COMMIT" THEN "committing" ELSE "unwinding"
          /\ block'.ran = block.ran /\ block'.broken = block.broken /\ block.state = "inside"
          /\ block' \in [state : {"committing", "unwinding"}, ran : SUBSET Nat, broken : BOOLEAN]
          /\ calls' = calls
      <3>1. PICK thrown \in BOOLEAN :
              /\ call' = M!Query(M!Closing(thrown)) /\ block.state = "inside" /\ calls' = calls
              /\ block' = [block EXCEPT !.state = IF thrown THEN "unwinding" ELSE "committing"]
        BY <1>4 DEF M!Leave
      <3>2. /\ call' \in [at : {"query"}, command : {"COMMIT", "ROLLBACK"}, statement : Nat, attempt : Nat]
            /\ call'.at = "query" /\ call'.command = M!Closing(thrown)
        BY <3>1 DEF M!Query, M!Idle, M!Closing
      <3>3. /\ block' \in [state : {"committing", "unwinding"}, ran : SUBSET Nat, broken : BOOLEAN]
            /\ block'.ran = block.ran /\ block'.broken = block.broken
            /\ block'.state = IF thrown THEN "unwinding" ELSE "committing"
        BY <3>1 DEF MyInv, MyTypes
      <3>4. QED
        BY <3>1, <3>2, <3>3 DEF M!Closing
    <2>2. MyTypes' /\ MyNumbered' /\ MyCalled'
      BY <1>1, <2>1 DEF MyInv, MyTypes, MyNumbered, MyCalled
    <2>3. MyBlocked'
      BY <1>1, <2>1, MyKnown DEF MyInv, MyTypes, MyBlocked
    <2>4. QED
      BY <1>2, <2>2, <2>3 DEF MyInv
  <1>5. CASE M!Run
    <2>1. /\ call'.at \in {"connect", "prepare"} /\ call'.command = "run" /\ call'.statement = calls + 1
          /\ call' \in [at : {"connect", "prepare"}, command : {"run"}, statement : Nat, attempt : Nat]
          /\ block' = block /\ calls' = calls + 1 /\ calls \in Nat
      <3>1. calls \in Nat /\ block' = block /\ calls' = calls + 1
        BY <1>5 DEF M!Run, M!NextStatement, MyInv, MyTypes
      <3>2. call' = [at |-> IF conn = "null" THEN "connect" ELSE "prepare",
                     command |-> "run", statement |-> calls + 1, attempt |-> 1]
        BY <1>5 DEF M!Run
      <3>3. QED
        BY <3>1, <3>2
    <2>2. MyNumbered'
      BY <1>1, <2>1 DEF MyInv, MyNumbered
    <2>3. QED
      BY <1>1, <1>2, <2>1, <2>2 DEF MyInv, MyTypes, MyCalled, MyBlocked
  <1>6. CASE M!Prepare
    <2>1. /\ call'.at = "prepare" /\ call'.command = "prepare"
          /\ call' \in [at : {"prepare"}, command : {"prepare"}, statement : Nat, attempt : Nat]
          /\ block' = block /\ calls' = calls
      BY <1>6 DEF M!Prepare, M!Idle
    <2>2. QED
      BY <1>1, <1>2, <2>1 DEF MyInv, MyTypes, MyNumbered, MyCalled, MyBlocked
  <1>7. CASE M!ExecuteHeld
    <2>1. /\ block' = block /\ calls' = calls + 1 /\ calls \in Nat
          /\ \/ call' = M!Idle
             \/ /\ call'.at = "execute" /\ call'.command = "held" /\ call'.statement = calls + 1
                /\ call' \in [at : {"execute"}, command : {"held"}, statement : Nat, attempt : Nat]
      <3>1. CASE held = "bound"
        <4>1. calls \in Nat /\ block' = block /\ calls' = calls + 1
          BY <1>7 DEF M!ExecuteHeld, M!NextStatement, MyInv, MyTypes
        <4>2. call' = [M!Idle EXCEPT !.at = "execute", !.command = "held", !.statement = calls + 1]
          BY <1>7, <3>1 DEF M!ExecuteHeld
        <4>3. PICK n \in Nat : n = calls + 1
          BY <4>1
        <4>4. call' = [at |-> "execute", command |-> "held", statement |-> n, attempt |-> 0]
          BY <4>2, <4>3 DEF M!Idle
        <4>5. QED
          BY <4>1, <4>3, <4>4
      <3>2. CASE held # "bound"
        BY <1>7, <3>2 DEF M!ExecuteHeld, M!NextStatement, MyInv, MyTypes
      <3>3. QED
        BY <3>1, <3>2
    <2>2. MyNumbered'
      BY <1>1, <2>1 DEF MyInv, MyNumbered, M!Idle
    <2>3. MyTypes'
      <3>1. call' \in [at : {"idle", "execute"}, command : {"none", "held"}, statement : Nat, attempt : Nat]
        BY <2>1 DEF M!Idle
      <3>2. calls' \in Nat
        BY <2>1
      <3>3. conn' = conn /\ server' = server /\ block' = block
        BY <1>1, <2>1
      <3>4. QED
        BY <3>1, <3>2, <3>3 DEF MyInv, MyTypes
    <2>5. MyCalled' /\ MyBlocked'
      BY <1>1, <2>1 DEF MyInv, MyCalled, MyBlocked, M!Idle
    <2>6. QED
      BY <1>2, <2>2, <2>3, <2>5 DEF MyInv
  <1>8. QED
    BY <1>3, <1>4, <1>5, <1>6, <1>7

\* BEGIN, COMMIT or ROLLBACK.
LEMMA MyQueryStep == MyInv /\ (M!QueryConnects \/ M!QueryLost \/ M!QueryReturns) => MyInv'
  <1> SUFFICES ASSUME MyInv, M!QueryConnects \/ M!QueryLost \/ M!QueryReturns PROVE MyInv'
    OBVIOUS
  <1> DEFINE r == M!Processed(server, call.command, 0)
             e == M!SessionEnded(r)
  <1>1. CASE M!QueryConnects /\ block' = block /\ M!Reconnected
    <2>1. /\ server' = server /\ conn' = "live" /\ calls' = calls
          /\ call' \in [at : {"query"}, command : {call.command}, statement : Nat, attempt : Nat]
          /\ call'.at = "query" /\ call'.command = call.command
          /\ call.at \in {"query", "requery"}
      <3>1. CASE call.at = "query"
        BY <1>1, <3>1 DEF M!QueryConnects, M!Reconnected, M!ReconnectFails, MyInv, MyTypes
      <3>2. CASE call.at = "requery"
        <4>1. /\ call' = [call EXCEPT !.at = "query", !.attempt = 2]
              /\ server' = server /\ conn' = "live" /\ calls' = calls
          BY <1>1, <3>2 DEF M!QueryConnects, M!Reconnected, M!ReconnectFails
        <4>2. /\ call' \in [at : {"query"}, command : {call.command}, statement : Nat, attempt : Nat]
              /\ call'.at = "query" /\ call'.command = call.command
          BY <4>1 DEF MyInv, MyTypes
        <4>3. QED
          BY <3>2, <4>1, <4>2
      <3>3. QED
        BY <1>1, <3>1, <3>2 DEF M!QueryConnects
    <2>2. QED
      BY <1>1, <2>1 DEF MyInv, MyTypes, MySession, MyNumbered, MyCalled, MyBlocked
  <1>2. CASE M!QueryConnects /\ M!ReconnectFails /\ call' = M!CallThrown /\ block' = M!BlockThrown
    <2>1. /\ server' = server /\ conn # "live" /\ conn' = "null" /\ calls' = calls
          /\ call'.at \in {"idle", "terminated"}
          /\ (block.state = "unwinding" => call'.at = "terminated")
          /\ call' \in [at : {"idle", "terminated"}, command : {"none"}, statement : Nat, attempt : Nat]
      BY <1>2 DEF M!QueryConnects, M!ReconnectFails, M!CallThrown, M!Idle
    <2>2. /\ block' \in [state : {"none", "inside", "committed", "unwinding", "rolled back"},
                         ran : SUBSET Nat, broken : BOOLEAN]
          /\ block'.ran = block.ran /\ block'.broken = block.broken
          /\ block'.state = IF block.state = "committing" THEN "committed" ELSE block.state
      BY <1>2 DEF M!BlockThrown, MyInv, MyTypes
    <2>3. MyTypes' /\ MySession' /\ MyNumbered' /\ MyCalled'
      BY <2>1, <2>2 DEF MyInv, MyTypes, MySession, MyNumbered, MyCalled
    <2>4. MyBlocked'
      BY <2>1, <2>2, MyKnown DEF MyInv, MyBlocked
    <2>5. QED
      BY <2>3, <2>4 DEF MyInv
  <1>3. CASE M!QueryLost
    <2>1. /\ call.at = "query" /\ call'.at = "requery" /\ call'.command = call.command
          /\ call' \in [at : {"requery"}, command : {call.command}, statement : Nat, attempt : Nat]
          /\ block' = block /\ calls' = calls /\ conn' = "lost"
          /\ (server' = server /\ conn = "lost") \/ server' = e
      BY <1>3 DEF M!QueryLost, M!Unanswered, MyInv, MyTypes
    <2>2. /\ server' \in MyServers /\ ~server'.open
          /\ (MyCommitted(server') /\ call.command # "ROLLBACK") \/ MyDropped(server')
      BY <2>1, MyKnown DEF MyInv, MyTypes, MySession, MyDropped, MyCommitted
    <2>3. MyTypes' /\ MySession' /\ MyNumbered' /\ MyCalled'
      BY <2>1, <2>2 DEF MyInv, MyTypes, MySession, MyNumbered, MyCalled, MyCommitted, MyDropped
    <2>4. MyBlocked'
      BY <2>1, <2>2, MyKnown DEF MyInv, MyCalled, MyBlocked, MyCommitted, MyDropped
    <2>5. QED
      BY <2>3, <2>4 DEF MyInv
  <1>4. CASE M!QueryReturns
    <2>1. PICK answer \in {"done", "refused", "none"} :
            /\ call.at = "query" /\ call' = M!Idle /\ calls' = calls
            /\ block' = M!BlockAfter(answer)
            /\ \/ answer = "done" /\ conn' = conn /\ server' = r /\ conn = "live"
               \/ /\ answer = "refused" /\ conn' = conn /\ conn = "live"
                  /\ server' = server \/ (call.command = "COMMIT" /\ server' = M!SessionEnded(server))
               \/ /\ answer = "none" /\ conn' = "lost"
                  /\ (server' = server /\ conn = "lost") \/ server' = e
      <3>1. CASE M!Answered(call.command, 0) /\ block' = M!BlockAfter("done")
        BY <1>4, <3>1 DEF M!QueryReturns, M!Answered
      <3>2. CASE M!Refused(call.command) /\ block' = M!BlockAfter("refused")
        BY <1>4, <3>2 DEF M!QueryReturns, M!Refused
      <3>3. CASE M!Unanswered(call.command, 0) /\ block' = M!BlockAfter("none")
        BY <1>4, <3>3 DEF M!QueryReturns, M!Unanswered
      <3>4. QED
        BY <1>4, <3>1, <3>2, <3>3 DEF M!QueryReturns
    <2>2. /\ server' \in MyServers
          /\ \/ answer = "refused" /\ server' = server
             \/ /\ MyPending(server') = {}
                /\ (MyCommitted(server') /\ call.command # "ROLLBACK") \/ MyDropped(server')
          /\ conn' # "live" => ~server'.open
          /\ call.command = "BEGIN" /\ answer = "done" => server'.open
      BY <2>1, MyKnown DEF MyInv, MyTypes, MySession, MyDropped, MyCommitted
    <2>3. /\ block' \in [state : {"inside", "committed", "rolled back"}, ran : SUBSET Nat, broken : BOOLEAN]
          /\ call.command = "BEGIN" =>
               block'.state = "inside" /\ block'.ran = {} /\ block'.broken = (answer # "done")
          /\ call.command = "COMMIT" =>
               block'.state = "committed" /\ block'.ran = block.ran /\ block'.broken = block.broken
          /\ call.command = "ROLLBACK" =>
               /\ block'.state = "rolled back" /\ block'.ran = block.ran
               /\ block'.broken = (block.broken \/ answer = "refused")
      BY <2>1 DEF M!BlockAfter, M!NoBlock, MyInv, MyTypes, MyCalled
    <2>4. MyTypes' /\ MySession' /\ MyNumbered' /\ MyCalled'
      BY <2>1, <2>2, <2>3, MyKnown DEF MyInv, MyTypes, MySession, MyNumbered, MyCalled, MyCommitted,
         MyDropped, M!Idle
    <2>5. MyBlocked'
      BY <2>1, <2>2, <2>3, MyKnown DEF MyInv, MyCalled, MyBlocked, MyCommitted, MyDropped
    <2>6. QED
      BY <2>4, <2>5 DEF MyInv
  <1>5. QED
    BY <1>1, <1>2, <1>3, <1>4 DEF M!QueryConnects

\* The steps of run(), prepare() and execute() that run nothing at the server.
LEMMA MyStatementStep ==
  MyInv /\ (\/ M!RunConnects \/ M!PrepareDone \/ M!PrepareRefused
            \/ M!PrepareLost \/ M!PrepareReconnects \/ M!ExecuteRefused)
    => MyInv'
  <1> SUFFICES ASSUME MyInv,
                      \/ M!RunConnects \/ M!PrepareDone \/ M!PrepareRefused
                      \/ M!PrepareLost \/ M!PrepareReconnects \/ M!ExecuteRefused
               PROVE MyInv'
    OBVIOUS
  <1>1. call.at \in {"connect", "prepare", "reprepare", "execute"}
    BY DEF M!RunConnects, M!PrepareDone, M!PrepareRefused, M!PrepareLost, M!PrepareReconnects,
       M!ExecuteRefused
  <1>2. server' = server /\ block' = block /\ calls' = calls
    <2>1. call.command # "COMMIT"
      BY <1>1 DEF MyInv, MyCalled
    <2>2. QED
      BY <1>1, <2>1 DEF M!RunConnects, M!PrepareDone, M!PrepareRefused, M!PrepareLost,
         M!PrepareReconnects,
           M!ExecuteRefused, M!Reconnected, M!ReconnectFails, M!Refused
  <1>3. conn' \in {"null", "live", "lost"} /\ (conn' = "live" \/ (conn' # "live" /\ conn # "live"))
    BY DEF M!RunConnects, M!PrepareDone, M!PrepareRefused, M!PrepareLost, M!PrepareReconnects,
         M!ExecuteRefused, M!Reconnected, M!ReconnectFails, M!Refused, MyInv, MyTypes
  <1>4. \/ call' = M!Idle
        \/ /\ call'.at \in {"connect", "prepare", "reprepare", "execute"}
           /\ call' \in [at : {"connect", "prepare", "reprepare", "execute"}, command : {call.command},
                         statement : {call.statement}, attempt : Nat]
           /\ call'.at = "execute" => call.command \in {"run", "held"}
           /\ call'.at \in {"connect", "prepare", "reprepare"} => call.command \in {"run", "prepare"}
    <2> DEFINE Goal == \/ call' = M!Idle
                       \/ /\ call'.at \in {"connect", "prepare", "reprepare", "execute"}
                          /\ call' \in [at : {"connect", "prepare", "reprepare", "execute"}, command : {call.command},
                                        statement : {call.statement}, attempt : Nat]
                          /\ call'.at = "execute" => call.command \in {"run", "held"}
                          /\ call'.at \in {"connect", "prepare", "reprepare"} => call.command \in {"run", "prepare"}
    <2>0. call.at # "execute" => call.command \in {"run", "prepare"}
      BY <1>1 DEF MyInv, MyCalled
    <2>1. CASE call' = M!Idle
      BY <2>1
    <2>2. CASE call' = [call EXCEPT !.at = "prepare"] /\ call.at # "execute"
      BY <2>0, <2>2 DEF MyInv, MyTypes
    <2>3. CASE call' = [call EXCEPT !.at = "execute"] /\ call.command = "run"
      BY <2>3 DEF MyInv, MyTypes
    <2>4. CASE call' = [call EXCEPT !.at = "reprepare"] /\ call.at # "execute"
      BY <2>0, <2>4 DEF MyInv, MyTypes
    <2>5. CASE call' = [call EXCEPT !.at = "prepare", !.attempt = @ + 1] /\ call.at # "execute"
      <3>1. PICK n \in Nat : n = call.attempt + 1
        <4>1. call.attempt \in Nat
          BY DEF MyInv, MyTypes
        <4>2. QED
          BY <4>1
      <3>2. call' = [call EXCEPT !.at = "prepare", !.attempt = n]
        BY <2>5, <3>1, Zenon
      <3>3. QED
        BY <2>0, <2>5, <3>2 DEF MyInv, MyTypes
    <2>6. CASE call' = [call EXCEPT !.attempt = 2] /\ call.at # "execute"
      BY <1>1, <2>0, <2>6 DEF MyInv, MyTypes
    <2>7. \/ call' = M!Idle
          \/ call' = [call EXCEPT !.at = "prepare"] /\ call.at # "execute"
          \/ call' = [call EXCEPT !.at = "execute"] /\ call.command = "run"
          \/ call' = [call EXCEPT !.at = "reprepare"] /\ call.at # "execute"
          \/ call' = [call EXCEPT !.at = "prepare", !.attempt = @ + 1] /\ call.at # "execute"
          \/ call' = [call EXCEPT !.attempt = 2] /\ call.at # "execute"
      <3>1. CASE M!RunConnects
        BY <3>1 DEF M!RunConnects
      <3>2. CASE M!PrepareDone
        BY <3>2 DEF M!PrepareDone
      <3>3. CASE M!PrepareRefused
        BY <3>3 DEF M!PrepareRefused
      <3>4. CASE M!PrepareLost
        BY <3>4 DEF M!PrepareLost
      <3>5. CASE M!PrepareReconnects
        BY <3>5 DEF M!PrepareReconnects
      <3>6. CASE M!ExecuteRefused
        BY <3>6 DEF M!ExecuteRefused
      <3>7. QED
        BY <3>1, <3>2, <3>3, <3>4, <3>5, <3>6
    <2>8. QED
      BY <2>1, <2>2, <2>3, <2>4, <2>5, <2>6, <2>7
  <1>5. MyTypes'
    <2>1. call' \in [at : {"idle", "connect", "prepare", "reprepare", "execute"}, command : {"none", call.command},
                     statement : Nat, attempt : Nat]
      <3>1. CASE call' = M!Idle
        BY <3>1 DEF M!Idle
      <3>2. CASE call' # M!Idle
        BY <1>4, <3>2 DEF MyInv, MyTypes
      <3>3. QED
        BY <3>1, <3>2
    <2>2. QED
      BY <1>2, <1>3, <2>1 DEF MyInv, MyTypes
  <1>6. MySession' /\ MyBlocked'
    BY <1>2, <1>3 DEF MyInv, MySession, MyBlocked
  <1>7. MyNumbered' /\ MyCalled'
    <2>1. \/ call'.at = "idle"
          \/ /\ call'.at \in {"connect", "prepare", "reprepare", "execute"}
             /\ call'.command = call.command /\ call'.statement = call.statement
             /\ call'.at = "execute" => call.command \in {"run", "held"}
             /\ call'.at \in {"connect", "prepare", "reprepare"} => call.command \in {"run", "prepare"}
      BY <1>4 DEF M!Idle
    <2>2. QED
      BY <1>1, <1>2, <2>1 DEF MyInv, MyNumbered, MyCalled
  <1>8. QED
    BY <1>5, <1>6, <1>7 DEF MyInv

\* A statement runs.
LEMMA MyExecuteStep == MyInv /\ (M!ExecuteDone \/ M!ExecuteLost) => MyInv'
  <1> SUFFICES ASSUME MyInv, M!ExecuteDone \/ M!ExecuteLost PROVE MyInv'
    OBVIOUS
  <1> DEFINE x == call.statement
             r == M!Processed(server, call.command, x)
             e == M!SessionEnded(r)
  <1>1. /\ call.at = "execute" /\ call' = M!Idle /\ calls' = calls
        /\ block.state \notin {"committing", "unwinding"}
    BY DEF M!ExecuteDone, M!ExecuteLost, M!AfterLostExecute, MyInv, MyCalled
  <1>2. /\ x \in 1..calls /\ x \in Nat /\ x \notin MyKept(server) \cup MyPending(server) \cup block.ran
        /\ call.command \in {"run", "held"} /\ server \in MyServers
    BY <1>1 DEF MyInv, MyTypes, MyCalled, MyNumbered
  <1>3. /\ r \in MyServers /\ r.open = server.open
        /\ server.open => MyKept(r) = MyKept(server) /\ MyPending(r) = MyPending(server) \cup {x}
        /\ ~server.open => MyKept(r) = MyKept(server) \cup {x} /\ MyPending(r) = {} /\ MyPending(server) = {}
    BY <1>2, MyStatements
  <1>4. e \in MyServers /\ ~e.open /\ MyKept(e) = MyKept(r) /\ MyPending(e) = {}
    BY <1>3, MyCommands
  <1> HIDE DEF x, r, e
  <1>5. CASE M!ExecuteDone
    <2>1. /\ conn = "live" /\ conn' = conn /\ server' = r
          /\ block' = IF block.state = "inside" THEN [block EXCEPT !.ran = @ \union {x}] ELSE block
      BY <1>5 DEF M!ExecuteDone, M!Answered, r, x
    <2>2. /\ block' \in [state : {"none", "inside", "committed", "rolled back"}, ran : SUBSET Nat, broken : BOOLEAN]
          /\ block'.state = block.state /\ block'.broken = block.broken
          /\ block'.ran = IF block.state = "inside" THEN block.ran \cup {x} ELSE block.ran
      BY <1>1, <1>2, <2>1 DEF MyInv, MyTypes
    <2>3. MyTypes' /\ MySession' /\ MyNumbered' /\ MyCalled'
      BY <1>1, <1>2, <1>3, <2>1, <2>2 DEF MyInv, MyTypes, MySession, MyNumbered, MyCalled, M!Idle
    <2>4. MyBlocked'
      BY <1>1, <1>2, <1>3, <2>1, <2>2 DEF MyInv, MyBlocked
    <2>5. QED
      BY <2>3, <2>4 DEF MyInv
  <1>6. CASE M!ExecuteLost
    <2>1. /\ conn' = "lost" /\ block' = M!SessionLost(block)
          /\ (server' = server /\ conn = "lost") \/ server' = e
      BY <1>6 DEF M!ExecuteLost, M!Unanswered, r, e, x
    <2>2. /\ block' \in [state : {"none", "inside", "committed", "rolled back"}, ran : SUBSET Nat, broken : BOOLEAN]
          /\ block'.state = block.state /\ block'.ran = block.ran
          /\ block'.broken = (block.broken \/ block.state = "inside")
      BY <1>1, <2>1 DEF M!SessionLost, MyInv, MyTypes
    <2>3. /\ server' \in MyServers /\ ~server'.open /\ MyPending(server') = {}
          /\ MyKept(server') \in {MyKept(server), MyKept(server) \cup {x}}
      BY <1>2, <1>3, <1>4, <2>1, MyKnown DEF MyInv, MySession
    <2>4. MyTypes' /\ MySession' /\ MyNumbered' /\ MyCalled'
      BY <1>1, <1>2, <2>1, <2>2, <2>3 DEF MyInv, MyTypes, MySession, MyNumbered, MyCalled, M!Idle
    <2>5. MyBlocked'
      BY <1>1, <1>2, <2>2, <2>3 DEF MyInv, MyBlocked
    <2>6. QED
      BY <2>4, <2>5 DEF MyInv
  <1>7. QED
    BY <1>5, <1>6

\* Every step keeps it.
LEMMA MyInvNext == MyInv /\ [M!Next]_mysqlVars => MyInv'
  <1>1. MyInv /\ UNCHANGED mysqlVars => MyInv'
    BY DEF mysqlVars, MyInv, MyTypes, MySession, MyNumbered, MyCalled, MyBlocked
  <1>2. QED
    BY <1>1, MyLoseStep, MyCallStep, MyQueryStep, MyStatementStep, MyExecuteStep DEF M!Next

\* The invariant says what the two properties say.
LEMMA MyInvOnce == MyInv => M!RunsOnce
  <1> SUFFICES ASSUME MyInv PROVE M!RunsOnce
    OBVIOUS
  <1>1. /\ server.kept \in Seq(Nat) /\ server.pending \in Seq(Nat)
        /\ Once(server.kept) /\ Once(server.pending)
        /\ Stored(server.kept) \cap Stored(server.pending) = {}
    BY DEF MyInv, MyTypes, MyServers, MyRecords, MyKept, MyPending
  <1>2. Once(server.kept \o server.pending)
    BY <1>1, ConcatOnce
  <1>3. QED
    BY <1>2 DEF Once, M!RunsOnce, M!IsInjective

\* A block without a new session is atomic by it.
LEMMA MyInvAtomic == MyInv => M!AtomicUnlessBroken
  BY DEF MyInv, MyBlocked, M!AtomicUnlessBroken, M!KeptOfBlock, MyKept, Stored, M!Range

-----------------------------------------------------------------------------
(* Postgresql                                                              *)

\* What a PostgreSQL server knows: the unnamed statement is the one prepared last.
PgQueries == [command : {"none", "BEGIN", "COMMIT", "ROLLBACK", "run"}, statement : Nat]

PgServers ==
  [open : BOOLEAN, failed : BOOLEAN, pending : SUBSET Nat, kept : SUBSET Nat, unnamed : PgQueries]
PgCalls == [at : {"idle", "prepare", "execute", "terminated"},
          kind : {"none", "BEGIN", "COMMIT", "ROLLBACK", "run", "hold", "held"}, query : PgQueries]
PgBlocks == [state : {"none", "inside", "committing", "committed", "unwinding", "rolled back"},
           ran : SUBSET Nat, threw : BOOLEAN]

\* The types of the state
PgTypes ==
  /\ pconn \in {"ok", "silent", "bad"}
  /\ pserver \in PgServers
  /\ pcall \in PgCalls
  /\ pheld \in PgQueries
  /\ pblock \in PgBlocks
  /\ pcalls \in Nat

\* A call that has not thrown or returned
PgUnder == pcall.at \in {"prepare", "execute"}

\* The query of a call is its own, and the statement of a run() is not at the server yet.
PgCalled ==
  /\ pcall.at # "idle" => PgUnder \/ pcall.at = "terminated"
  /\ PgUnder =>
       \/ pcall.kind = "BEGIN" /\ pcall.query = P!Query("BEGIN", 0) /\ pblock.state = "none"
       \/ pcall.kind = "COMMIT" /\ pcall.query = P!Query("COMMIT", 0) /\ pblock.state = "committing"
       \/ pcall.kind = "ROLLBACK" /\ pcall.query = P!Query("ROLLBACK", 0) /\ pblock.state = "unwinding"
       \/ /\ pcall.kind \in {"run", "hold"} /\ pcall.query.command = "run"
          /\ pcall.query.statement \in (1..pcalls) \ (pserver.kept \cup pserver.pending \cup pblock.ran)
          /\ pblock.state \notin {"committing", "unwinding"}
       \/ pcall.kind = "held" /\ pblock.state \notin {"committing", "unwinding"}
  /\ pcall.at = "prepare" => pcall.kind # "held"
  /\ pcall.at = "execute" => pcall.kind # "hold"
  /\ pcall.at = "execute" /\ pcall.kind # "held" =>
       pconn # "bad" /\ (pconn = "ok" => pserver.unnamed = pcall.query)
  /\ pblock.state = "committing" => PgUnder
  /\ pblock.state = "unwinding" => PgUnder \/ pcall.at = "terminated"

PgWithin(s) == s.kept \cup s.pending \cup {s.unnamed.statement} \subseteq 0..pcalls

\* Statements at the server are ones that were asked for.
PgNumbered == pblock.ran \subseteq 1..pcalls /\ PgWithin(pserver)

\* A block none of whose calls threw has its session, and its statements in the transaction
\* until it commits, then kept.
PgBlocked ==
  ~pblock.threw =>
    /\ pblock.state \in {"inside", "committing", "unwinding"} =>
         /\ pconn # "bad"
         /\ pconn = "ok" => /\ pserver.open /\ ~pserver.failed
                            /\ pblock.ran \subseteq pserver.pending /\ pblock.ran \cap pserver.kept = {}
    /\ pblock.state = "inside" /\ pconn = "ok" => pserver.unnamed.command \in {"BEGIN", "run"}
    /\ pblock.state = "committed" => pblock.ran \subseteq pserver.kept
    /\ pblock.state = "rolled back" =>
         /\ pblock.ran \cap (pserver.kept \cup pserver.pending) = {}
         /\ pserver.unnamed.statement \notin pblock.ran

\* The inductive invariant
PgInv == PgTypes /\ PgCalled /\ PgNumbered /\ PgBlocked

\* Queries and their fields
LEMMA PgFields ==
  /\ P!None \in PgQueries /\ P!None.statement = 0 /\ P!None.command = "none"
  /\ P!Query("BEGIN", 0) \in PgQueries /\ P!Query("COMMIT", 0) \in PgQueries
  /\ P!Query("ROLLBACK", 0) \in PgQueries
  /\ \A n \in Nat : /\ P!Query("run", n) \in PgQueries
                    /\ P!Query("run", n).command = "run" /\ P!Query("run", n).statement = n
  BY DEF PgQueries, P!Query, P!None

\* What a command makes of the server.
LEMMA PgEffects ==
  ASSUME NEW s \in PgServers, NEW q \in PgQueries
  PROVE LET p == P!Processed(s, q) IN
        LET e == P!SessionEnded(p) IN
        /\ p \in PgServers /\ p.unnamed = s.unnamed
        /\ q.command = "BEGIN" =>
             p.open /\ p.failed = s.failed /\ p.kept = s.kept /\ p.pending = s.pending
        /\ q.command = "COMMIT" =>
             /\ ~p.open /\ ~p.failed /\ p.pending = {}
             /\ p.kept = IF s.failed THEN s.kept ELSE s.kept \cup s.pending
        /\ q.command = "ROLLBACK" => ~p.open /\ ~p.failed /\ p.pending = {} /\ p.kept = s.kept
        /\ q.command \in {"run", "none"} =>
             /\ p.open = s.open /\ p.failed = s.failed
             /\ p.kept = IF s.open THEN s.kept ELSE s.kept \cup {q.statement}
             /\ p.pending = IF s.open THEN s.pending \cup {q.statement} ELSE s.pending
  <1> DEFINE p == P!Processed(s, q)
  <1>1. q.command \in {"none", "BEGIN", "COMMIT", "ROLLBACK", "run"} /\ q.statement \in Nat
    BY DEF PgQueries
  <1>2. CASE q.command = "BEGIN"
    BY <1>2 DEF P!Processed, PgServers
  <1>3. CASE q.command = "COMMIT"
    BY <1>3 DEF P!Processed, PgServers, P!Closed
  <1>4. CASE q.command = "ROLLBACK"
    BY <1>4 DEF P!Processed, PgServers, P!Closed
  <1>5. CASE q.command \in {"run", "none"} /\ s.open
    BY <1>1, <1>5 DEF P!Processed, PgServers
  <1>6. CASE q.command \in {"run", "none"} /\ ~s.open
    BY <1>1, <1>6 DEF P!Processed, PgServers
  <1>7. QED
    BY <1>1, <1>2, <1>3, <1>4, <1>5, <1>6

\* What the end of a session makes of it
LEMMA PgEnded ==
  ASSUME NEW s \in PgServers
  PROVE LET e == P!SessionEnded(s) IN
        /\ e \in PgServers /\ e.kept = s.kept /\ e.pending = {} /\ ~e.open /\ ~e.failed
        /\ e.unnamed = P!None
  BY PgFields DEF P!SessionEnded, PgServers, P!Closed

\* It holds at first.
LEMMA PgInvInit == P!Init => PgInv
  <1> SUFFICES ASSUME P!Init PROVE PgInv
    OBVIOUS
  <1>1. /\ pserver \in PgServers /\ pserver.kept = {} /\ pserver.pending = {}
        /\ pserver.unnamed.statement = 0
        /\ pcall \in PgCalls /\ pcall.at = "idle" /\ pblock \in PgBlocks /\ pblock.state = "none"
        /\ pblock.ran = {}
        /\ pheld \in PgQueries /\ pconn = "ok" /\ pcalls = 0
    BY PgFields DEF P!Init, PgServers, PgCalls, PgBlocks, P!Idle, P!NoBlock
  <1>2. QED
    BY <1>1 DEF PgInv, PgTypes, PgCalled, PgNumbered, PgBlocked, PgUnder, PgWithin

\* The session ends; the connection does not know yet.
LEMMA PgLoseStep == PgInv /\ P!Lose => PgInv'
  <1> SUFFICES ASSUME PgInv, P!Lose PROVE PgInv'
    OBVIOUS
  <1>1. /\ pserver' \in PgServers /\ pserver'.kept = pserver.kept /\ pserver'.pending = {}
        /\ pserver'.unnamed = P!None /\ P!None.statement = 0
    BY PgEnded, PgFields DEF P!Lose, PgInv, PgTypes
  <1>2. /\ pconn' = "silent" /\ pcall' = pcall /\ pheld' = pheld /\ pblock' = pblock
        /\ pcalls' = pcalls /\ pcalls \in Nat
    BY DEF P!Lose, PgInv, PgTypes
  <1>3. PgTypes'
    BY <1>1, <1>2 DEF PgInv, PgTypes
  <1>4. PgCalled'
    BY <1>1, <1>2 DEF PgInv, PgCalled, PgUnder
  <1>5. PgNumbered'
    BY <1>1, <1>2 DEF PgInv, PgNumbered, PgWithin
  <1>6. PgBlocked'
    <2>1. 0 \notin pblock.ran
      BY DEF PgInv, PgNumbered
    <2>2. pserver'.kept \cup pserver'.pending \subseteq pserver.kept \cup pserver.pending
      BY <1>1
    <2>3. pconn = "ok"
      BY DEF P!Lose
    <2>4. QED
      BY <1>1, <1>2, <2>1, <2>2, <2>3 DEF PgInv, PgBlocked
  <1>7. QED
    BY <1>3, <1>4, <1>5, <1>6 DEF PgInv

\* A call that throws.
LEMMA PgThrowStep ==
  ASSUME PgInv, P!Throws, pconn' \in {"ok", "silent", "bad"}, pserver' \in PgServers, pheld' = pheld, pcalls' = pcalls,
         PgWithin(pserver')
  PROVE PgInv'
  <1>1. /\ pcall' \in PgCalls
        /\ pcall'.at = IF pblock.state = "unwinding" THEN "terminated" ELSE "idle"
    <2>1. pcall' = IF pblock.state = "unwinding" THEN [P!Idle EXCEPT !.at = "terminated"] ELSE P!Idle
      BY DEF P!Throws
    <2>2. P!Idle \in PgCalls /\ P!Idle.at = "idle"
      BY PgFields DEF P!Idle, PgCalls
    <2>3. /\ [P!Idle EXCEPT !.at = "terminated"] \in PgCalls
          /\ [P!Idle EXCEPT !.at = "terminated"].at = "terminated"
      BY <2>2 DEF PgCalls
    <2>4. QED
      BY <2>1, <2>2, <2>3
  <1>2. /\ pblock' \in PgBlocks /\ pblock'.threw /\ pblock'.ran = pblock.ran
        /\ pblock'.state = IF pblock.state = "committing" THEN "committed" ELSE pblock.state
    BY DEF P!Throws, PgBlocks, PgInv, PgTypes
  <1>3. PgTypes' /\ PgCalled' /\ PgBlocked'
    BY <1>1, <1>2 DEF PgInv, PgTypes, PgCalled, PgBlocked, PgUnder
  <1>4. PgNumbered'
    BY <1>2 DEF PgInv, PgNumbered, PgWithin
  <1>5. QED
    BY <1>3, <1>4 DEF PgInv

\* A call starts.
LEMMA PgCallStep == PgInv /\ (P!Enter \/ P!Leave \/ P!Run \/ P!Prepare \/ P!ExecuteHeld) => PgInv'
  <1> SUFFICES ASSUME PgInv, P!Enter \/ P!Leave \/ P!Run \/ P!Prepare \/ P!ExecuteHeld PROVE PgInv'
    OBVIOUS
  <1>1. pconn' = pconn /\ pserver' = pserver /\ pheld' = pheld /\ pcall = P!Idle /\ pcalls \in Nat
    BY DEF P!Enter, P!Leave, P!Run, P!Prepare, P!ExecuteHeld, P!Call, PgInv, PgTypes
  <1>2. pblock.state \notin {"committing", "unwinding"}
    BY <1>1 DEF PgInv, PgCalled, PgUnder, P!Idle
  <1>3. CASE P!Enter
    <2>1. /\ pcall'.at = "prepare" /\ pcall'.kind = "BEGIN" /\ pcall'.query = P!Query("BEGIN", 0)
          /\ pcall' \in PgCalls
          /\ pblock' = P!NoBlock /\ pcalls' = pcalls
      BY <1>3, PgFields DEF P!Enter, P!Call, PgCalls
    <2>2. pblock' \in PgBlocks /\ pblock'.state = "none" /\ pblock'.ran = {}
      BY <2>1 DEF P!NoBlock, PgBlocks
    <2>3. PgTypes' /\ PgNumbered' /\ PgBlocked'
      BY <1>1, <2>1, <2>2 DEF PgInv, PgTypes, PgNumbered, PgWithin, PgBlocked
    <2>4. PgCalled'
      BY <2>1, <2>2 DEF PgCalled, PgUnder
    <2>5. QED
      BY <2>3, <2>4 DEF PgInv
  <1>4. CASE P!Leave
    <2>1. PICK k \in {"COMMIT", "ROLLBACK"} :
            /\ pcall' = [at |-> "prepare", kind |-> k, query |-> P!Query(k, 0)]
            /\ pblock.state = "inside"
            /\ pblock' = [pblock EXCEPT !.state = IF k = "COMMIT" THEN "committing" ELSE "unwinding"]
            /\ pcalls' = pcalls
      BY <1>4 DEF P!Leave, P!Call
    <2>2. pcall'.at = "prepare" /\ pcall'.kind = k /\ pcall'.query = P!Query(k, 0) /\ pcall' \in PgCalls
      BY <2>1, PgFields DEF PgCalls
    <2>3. /\ pblock' \in PgBlocks /\ pblock'.ran = pblock.ran /\ pblock'.threw = pblock.threw
          /\ pblock'.state = IF k = "COMMIT" THEN "committing" ELSE "unwinding"
      BY <2>1 DEF PgInv, PgTypes, PgBlocks
    <2>4. PgTypes' /\ PgNumbered'
      BY <1>1, <2>1, <2>2, <2>3 DEF PgInv, PgTypes, PgNumbered, PgWithin
    <2>7. PgCalled'
      <3>1. CASE k = "COMMIT"
        BY <2>2, <2>3, <3>1 DEF PgCalled, PgUnder
      <3>2. CASE k = "ROLLBACK"
        BY <2>2, <2>3, <3>2 DEF PgCalled, PgUnder
      <3>3. QED
        BY <3>1, <3>2
    <2>5. PgBlocked'
      BY <1>1, <2>1, <2>2, <2>3 DEF PgInv, PgBlocked
    <2>6. QED
      BY <2>4, <2>5, <2>7 DEF PgInv
  <1>5. CASE P!Run \/ P!Prepare
    <2>1. PICK k \in {"run", "hold"} :
            /\ pcall' = [at |-> "prepare", kind |-> k, query |-> P!Query("run", pcalls + 1)]
            /\ pblock' = pblock /\ pcalls' = pcalls + 1
      BY <1>5 DEF P!Run, P!Prepare, P!Call, P!NextStatement
    <2>2. /\ pcall'.at = "prepare" /\ pcall'.kind = k /\ pcall' \in PgCalls /\ pcalls + 1 \in Nat
          /\ pcall'.query.command = "run" /\ pcall'.query.statement = pcalls + 1
      BY <1>1, <2>1, PgFields DEF PgCalls
    <2>3. pcalls + 1 \in (1..pcalls') \ (pserver.kept \cup pserver.pending \cup pblock.ran)
      BY <1>1, <2>1 DEF PgInv, PgNumbered, PgWithin
    <2>4. PgTypes' /\ PgCalled' /\ PgBlocked'
      BY <1>1, <1>2, <2>1, <2>2, <2>3 DEF PgInv, PgTypes, PgCalled, PgBlocked, PgUnder
    <2>5. PgNumbered'
      BY <1>1, <2>1 DEF PgInv, PgNumbered, PgWithin
    <2>6. QED
      BY <2>4, <2>5 DEF PgInv
  <1>6. CASE P!ExecuteHeld
    <2>1. /\ pcall' = [at |-> "execute", kind |-> "held", query |-> pheld]
          /\ pblock' = pblock /\ pcalls' = pcalls + 1
      BY <1>6 DEF P!ExecuteHeld, P!Call, P!NextStatement
    <2>2. pcall'.at = "execute" /\ pcall'.kind = "held" /\ pcall' \in PgCalls /\ pcalls + 1 \in Nat
      BY <1>1, <2>1 DEF PgCalls, PgInv, PgTypes
    <2>3. PgTypes' /\ PgCalled' /\ PgBlocked'
      BY <1>1, <1>2, <2>1, <2>2 DEF PgInv, PgTypes, PgCalled, PgBlocked, PgUnder
    <2>4. PgNumbered'
      BY <1>1, <2>1 DEF PgInv, PgNumbered, PgWithin
    <2>5. QED
      BY <2>3, <2>4 DEF PgInv
  <1>7. QED
    BY <1>3, <1>4, <1>5, <1>6

\* reset()
LEMMA PgResetStep == PgInv /\ P!Reset => PgInv'
  <1> SUFFICES ASSUME PgInv, P!Reset PROVE PgInv'
    OBVIOUS
  <1>1. PgWithin(pserver)'
    BY DEF PgInv, PgNumbered, PgWithin, P!Reset
  <1>2. CASE P!Throws
    <2>1. /\ pconn' \in {"ok", "silent", "bad"} /\ pserver' = pserver /\ pserver' \in PgServers
          /\ pheld' = pheld /\ pcalls' = pcalls
      BY DEF P!Reset, PgInv, PgTypes
    <2>2. PgWithin(pserver')
      BY <1>1, <2>1 DEF PgWithin
    <2>3. QED
      BY <1>2, <2>1, <2>2, PgThrowStep
  <1>3. CASE pconn' = "ok" /\ UNCHANGED <<pcall, pblock>>
    BY <1>1, <1>3 DEF P!Reset, PgInv, PgTypes, PgCalled, PgNumbered, PgBlocked, PgUnder
  <1>4. QED
    BY <1>2, <1>3 DEF P!Reset

\* A loss is noticed.
LEMMA PgNoticedStep == PgInv /\ P!Noticed => PgInv'
  <1> SUFFICES ASSUME PgInv, P!Noticed PROVE PgInv'
    OBVIOUS
  <1>1. /\ P!Throws /\ pconn' \in {"ok", "silent", "bad"} /\ pserver' = pserver
        /\ pserver' \in PgServers
        /\ pheld' = pheld /\ pcalls' = pcalls
    BY DEF P!Noticed, P!AfterLoss, PgInv, PgTypes
  <1>2. PgWithin(pserver')
    BY <1>1 DEF PgInv, PgNumbered, PgWithin
  <1>3. QED
    BY <1>1, <1>2, PgThrowStep

\* A command is refused.
LEMMA PgRefusedStep == PgInv /\ P!Refused => PgInv'
  <1> SUFFICES ASSUME PgInv, P!Refused PROVE PgInv'
    OBVIOUS
  <1>1. /\ P!Throws /\ pconn' \in {"ok", "silent", "bad"} /\ pheld' = pheld /\ pcalls' = pcalls
        /\ pserver' = [pserver EXCEPT !.failed = pserver.open]
    BY DEF P!Refused, PgInv, PgTypes
  <1>2. /\ pserver' \in PgServers /\ pserver'.kept = pserver.kept /\ pserver'.pending = pserver.pending
        /\ pserver'.unnamed = pserver.unnamed
    BY <1>1 DEF PgInv, PgTypes, PgServers
  <1>3. PgWithin(pserver')
    BY <1>1, <1>2 DEF PgInv, PgNumbered, PgWithin
  <1>4. QED
    BY <1>1, <1>2, <1>3, PgThrowStep

\* A statement is prepared.
LEMMA PgPrepareStep == PgInv /\ P!PrepareDone => PgInv'
  <1> SUFFICES ASSUME PgInv, P!PrepareDone PROVE PgInv'
    OBVIOUS
  <1>1. /\ pcall.at = "prepare" /\ pconn = "ok" /\ pconn' = pconn /\ pcalls' = pcalls
        /\ pcall \in PgCalls
        /\ pserver' = [pserver EXCEPT !.unnamed = pcall.query] /\ pserver \in PgServers
        /\ pcalls \in Nat
        /\ pcall.query \in PgQueries
    BY DEF P!PrepareDone, PgInv, PgTypes, PgCalls
  <1>2. /\ pserver' \in PgServers /\ pserver'.unnamed = pcall.query
        /\ pserver'.open = pserver.open /\ pserver'.failed = pserver.failed
        /\ pserver'.kept = pserver.kept /\ pserver'.pending = pserver.pending
    BY <1>1 DEF PgServers
  <1>3. /\ pblock' = pblock /\ pcall' \in PgCalls /\ pheld' \in PgQueries
        /\ \/ pcall'.at = "idle" /\ pcall.kind = "hold"
           \/ /\ pcall'.at = "execute" /\ pcall'.kind = pcall.kind /\ pcall'.query = pcall.query
              /\ pcall.kind # "hold"
    <2>1. CASE pcall.kind = "hold"
      <3>1. pblock.state \notin {"committing", "unwinding"}
        BY <1>1, <2>1 DEF PgInv, PgCalled, PgUnder
      <3>2. pblock' = pblock /\ pcall' = P!Idle /\ pheld' = pcall.query
        BY <2>1, <3>1 DEF P!PrepareDone, P!Returns
      <3>3. P!Idle \in PgCalls /\ P!Idle.at = "idle"
        BY PgFields DEF P!Idle, PgCalls
      <3>4. QED
        BY <1>1, <2>1, <3>2, <3>3
    <2>2. CASE pcall.kind # "hold"
      BY <1>1, <2>2 DEF P!PrepareDone, PgCalls, PgInv, PgTypes
    <2>3. QED
      BY <2>1, <2>2
  <1>4. /\ pcall.query.statement \in 0..pcalls /\ pcall.query.statement \notin pblock.ran
        /\ pcall.kind # "held"
        /\ pblock.state = "inside" => pcall.query.command = "run"
    BY <1>1 DEF PgInv, PgCalled, PgUnder, PgNumbered, P!Query
  <1>5. PgTypes' /\ PgNumbered'
    BY <1>1, <1>2, <1>3, <1>4 DEF PgInv, PgTypes, PgNumbered, PgWithin
  <1>6. PgCalled'
    BY <1>1, <1>2, <1>3, <1>4 DEF PgInv, PgCalled, PgUnder
  <1>7. PgBlocked'
    BY <1>1, <1>2, <1>3, <1>4 DEF PgInv, PgBlocked
  <1>8. QED
    BY <1>5, <1>6, <1>7 DEF PgInv

\* The server's unnamed statement runs.
LEMMA PgExecuteStep == PgInv /\ (P!ExecuteDone \/ P!ExecuteUnanswered) => PgInv'
  <1> SUFFICES ASSUME PgInv, P!ExecuteDone \/ P!ExecuteUnanswered PROVE PgInv'
    OBVIOUS
  <1> DEFINE u == pserver.unnamed
             p == P!Processed(pserver, u)
             n == u.statement
  <1>1. /\ pserver \in PgServers /\ u \in PgQueries /\ u # P!None /\ pcalls \in Nat /\ n \in 0..pcalls
        /\ u.command \in {"none", "BEGIN", "COMMIT", "ROLLBACK", "run"}
        /\ pcall.at = "execute" /\ pconn = "ok" /\ pcalls' = pcalls /\ pheld' = pheld
        /\ pheld \in PgQueries
        /\ u.command \in {"COMMIT", "ROLLBACK"} \/ ~pserver.failed
        /\ pblock \in PgBlocks
    BY DEF P!ExecuteDone, P!ExecuteUnanswered, P!Refuses, PgInv, PgTypes, PgServers, PgQueries,
       PgNumbered, PgWithin
  <1>2. /\ p \in PgServers /\ p.unnamed = u
        /\ u.command = "BEGIN" =>
             p.open /\ p.failed = pserver.failed /\ p.kept = pserver.kept /\ p.pending = pserver.pending
        /\ u.command = "COMMIT" =>
             /\ ~p.open /\ ~p.failed /\ p.pending = {}
             /\ p.kept = IF pserver.failed THEN pserver.kept ELSE pserver.kept \cup pserver.pending
        /\ u.command = "ROLLBACK" => ~p.open /\ ~p.failed /\ p.pending = {} /\ p.kept = pserver.kept
        /\ u.command \in {"run", "none"} =>
             /\ p.open = pserver.open /\ p.failed = pserver.failed
             /\ p.kept = IF pserver.open THEN pserver.kept ELSE pserver.kept \cup {n}
             /\ p.pending = IF pserver.open THEN pserver.pending \cup {n} ELSE pserver.pending
    BY <1>1, PgEffects
  <1>3. /\ pserver.kept \subseteq p.kept
        /\ p.kept \cup p.pending \subseteq pserver.kept \cup pserver.pending \cup {n}
    BY <1>1, <1>2
  <1>4. /\ PgWithin(p)
        /\ p.kept \subseteq 0..pcalls /\ 0 \in 0..pcalls
    BY <1>1, <1>2, <1>3 DEF PgInv, PgNumbered, PgWithin
  <1>5. P!Idle \in PgCalls /\ P!Idle.at = "idle"
    BY PgFields DEF P!Idle, PgCalls
  <1> HIDE DEF u, p, n
  <1>6. CASE P!ExecuteUnanswered
    <2>1. P!Throws /\ pconn' = "bad" /\ pserver' = P!SessionEnded(p)
      BY <1>6 DEF P!ExecuteUnanswered, p, u
    <2>2. /\ pserver' \in PgServers /\ pserver'.kept = p.kept /\ pserver'.pending = {}
          /\ pserver'.unnamed.statement = 0
      BY <1>2, <2>1, PgEnded, PgFields
    <2>3. PgWithin(pserver')
      BY <1>4, <2>2 DEF PgWithin
    <2>4. QED
      BY <1>1, <2>1, <2>2, <2>3, PgThrowStep
  <1>7. CASE P!ExecuteDone
    <2>1. /\ pserver' = p /\ pconn' = pconn /\ pcall' = P!Idle
          /\ pblock' = CASE pcall.kind = "BEGIN" -> [P!NoBlock EXCEPT !.state = "inside"]
                         [] pblock.state = "committing" -> [pblock EXCEPT !.state = "committed"]
                         [] pblock.state = "unwinding"  -> [pblock EXCEPT !.state = "rolled back"]
                         [] pblock.state = "inside" /\ pcall.kind = "run"
                              -> [pblock EXCEPT !.ran = @ \union {pcall.query.statement}]
                         [] OTHER -> pblock
      BY <1>7 DEF P!ExecuteDone, P!Returns, p, u
    <2>2. PgWithin(pserver')
      BY <1>4, <2>1
    <2> DEFINE Good == /\ pblock' \in PgBlocks /\ pblock'.state \notin {"committing", "unwinding"}
                       /\ pblock'.ran \subseteq 1..pcalls /\ PgBlocked'
    <2>3. ASSUME pcall.kind = "BEGIN" PROVE Good
      <3>1. u.command = "BEGIN" /\ pblock.state = "none"
        BY <1>1, <2>3 DEF PgInv, PgCalled, PgUnder, P!Query, u
      <3>2. pblock' \in PgBlocks /\ pblock'.state = "inside" /\ pblock'.ran = {}
        <4>1. pblock' = [P!NoBlock EXCEPT !.state = "inside"]
          BY <2>1, <2>3, <3>1
        <4>2. QED
          BY <4>1 DEF P!NoBlock, PgBlocks
      <3>3. QED
        BY <1>1, <1>2, <2>1, <3>1, <3>2 DEF PgBlocked
    <2>4. ASSUME pcall.kind = "COMMIT" PROVE Good
      <3>1. u.command = "COMMIT" /\ pblock.state = "committing"
        BY <1>1, <2>4 DEF PgInv, PgCalled, PgUnder, P!Query, u
      <3>2. /\ pblock' \in PgBlocks /\ pblock'.state = "committed" /\ pblock'.ran = pblock.ran
            /\ pblock'.threw = pblock.threw
        BY <1>1, <2>1, <2>4, <3>1 DEF PgBlocks
      <3>3. QED
        BY <1>1, <1>2, <2>1, <3>1, <3>2 DEF PgInv, PgNumbered, PgBlocked
    <2>5. ASSUME pcall.kind = "ROLLBACK" PROVE Good
      <3>1. u.command = "ROLLBACK" /\ n = 0 /\ pblock.state = "unwinding"
        BY <1>1, <2>5 DEF PgInv, PgCalled, PgUnder, P!Query, u, n
      <3>2. /\ pblock' \in PgBlocks /\ pblock'.state = "rolled back" /\ pblock'.ran = pblock.ran
            /\ pblock'.threw = pblock.threw
        BY <1>1, <2>1, <2>5, <3>1 DEF PgBlocks
      <3>3. 0 \notin pblock.ran
        BY DEF PgInv, PgNumbered
      <3>4. pserver'.unnamed.statement = 0
        BY <1>2, <2>1, <3>1 DEF n
      <3>5. QED
        BY <1>1, <1>2, <2>1, <3>1, <3>2, <3>3, <3>4 DEF PgInv, PgNumbered, PgBlocked
    <2>6. ASSUME pcall.kind = "run" PROVE Good
      <3>1. /\ u.command = "run" /\ n = pcall.query.statement
            /\ n \in (1..pcalls) \ (pserver.kept \cup pserver.pending \cup pblock.ran)
            /\ pblock.state \notin {"committing", "unwinding"}
        BY <1>1, <2>6 DEF PgInv, PgCalled, PgUnder, u, n
      <3>2. /\ pblock' \in PgBlocks /\ pblock'.state = pblock.state /\ pblock'.threw = pblock.threw
            /\ pblock'.ran = IF pblock.state = "inside" THEN pblock.ran \cup {n} ELSE pblock.ran
        <4>1. CASE pblock.state = "inside"
          <5>1. pblock' = [pblock EXCEPT !.ran = @ \union {n}]
            BY <2>1, <2>6, <3>1, <4>1
          <5>2. n \in Nat
            BY <1>1
          <5>3. QED
            BY <1>1, <4>1, <5>1, <5>2 DEF PgBlocks
        <4>2. CASE pblock.state # "inside"
          <5>1. pblock' = pblock
            BY <2>1, <2>6, <3>1, <4>2
          <5>2. QED
            BY <1>1, <4>2, <5>1
        <4>3. QED
          BY <4>1, <4>2
      <3>3. pserver'.unnamed.statement = n /\ pserver'.unnamed.command = "run"
        BY <1>2, <2>1, <3>1 DEF n
      <3>4. PgBlocked'
        <4>1. CASE pblock.state = "inside"
          <5>1. /\ pblock'.ran = pblock.ran \cup {n} /\ pblock'.state = "inside"
                /\ pblock'.threw = pblock.threw
            BY <3>2, <4>1
          <5>2. ASSUME ~pblock.threw
                PROVE /\ pserver'.open /\ ~pserver'.failed /\ pblock'.ran \subseteq pserver'.pending
                      /\ pblock'.ran \cap pserver'.kept = {}
            <6>1. /\ pserver.open /\ ~pserver.failed /\ pblock.ran \subseteq pserver.pending
                  /\ pblock.ran \cap pserver.kept = {}
              BY <1>1, <4>1, <5>2 DEF PgInv, PgBlocked
            <6>2. /\ pserver'.open /\ ~pserver'.failed /\ pserver'.kept = pserver.kept
                  /\ pserver'.pending = pserver.pending \cup {n}
              BY <1>2, <2>1, <3>1, <6>1
            <6>3. QED
              BY <3>1, <5>1, <6>1, <6>2
          <5>3. QED
            BY <1>1, <2>1, <3>3, <5>1, <5>2 DEF PgBlocked
        <4>2. CASE pblock.state # "inside"
          <5>1. pblock'.ran = pblock.ran /\ pblock'.state = pblock.state /\ pblock'.threw = pblock.threw
            BY <3>2, <4>2
          <5>2. pserver.kept \subseteq pserver'.kept
            BY <1>3, <2>1
          <5>3. pserver'.kept \cup pserver'.pending \subseteq pserver.kept \cup pserver.pending \cup {n}
            BY <1>3, <2>1
          <5>4. QED
            BY <3>1, <3>3, <4>2, <5>1, <5>2, <5>3 DEF PgInv, PgBlocked
        <4>3. QED
          BY <4>1, <4>2
      <3>5. QED
        BY <3>1, <3>2, <3>4 DEF PgInv, PgNumbered
    <2>7. ASSUME pcall.kind = "held" PROVE Good
      <3>1. pblock.state \notin {"committing", "unwinding"}
        BY <1>1, <2>7 DEF PgInv, PgCalled, PgUnder
      <3>2. pblock' = pblock
        BY <2>1, <2>7, <3>1
      <3>3. pserver'.unnamed.statement = n /\ pserver'.unnamed.command = u.command
        BY <1>2, <2>1 DEF n
      <3>4. pserver.unnamed.statement = n /\ pserver.unnamed.command = u.command
        BY DEF n, u
      <3>5. PgBlocked'
        BY <1>1, <1>2, <1>3, <2>1, <3>1, <3>2, <3>3, <3>4 DEF PgInv, PgBlocked
      <3>6. QED
        BY <1>1, <3>1, <3>2, <3>5 DEF PgInv, PgNumbered
    <2>8. pcall.kind \in {"BEGIN", "COMMIT", "ROLLBACK", "run", "held"}
      BY <1>1 DEF PgInv, PgCalled, PgUnder
    <2>9. Good
      BY <2>3, <2>4, <2>5, <2>6, <2>7, <2>8
    <2>10. PgTypes' /\ PgCalled' /\ PgNumbered'
      BY <1>1, <1>2, <1>5, <2>1, <2>2, <2>9 DEF PgTypes, PgCalled, PgUnder, PgNumbered, PgWithin
    <2>11. QED
      BY <2>9, <2>10 DEF PgInv
  <1>8. QED
    BY <1>6, <1>7

\* Every step keeps it.
LEMMA PgInvNext == PgInv /\ [P!Next]_postgresqlVars => PgInv'
  <1>1. PgInv /\ UNCHANGED postgresqlVars => PgInv'
    BY DEF postgresqlVars, PgInv, PgTypes, PgCalled, PgNumbered, PgBlocked, PgUnder, PgWithin
  <1>2. QED
    BY <1>1, PgLoseStep, PgCallStep, PgResetStep, PgPrepareStep, PgNoticedStep, PgRefusedStep,
       PgExecuteStep DEF P!Next

\* The invariant says what the property says.
LEMMA PgInvAtomic == PgInv => P!QuietBlockAtomic
  BY DEF PgInv, PgBlocked, P!QuietBlockAtomic

-----------------------------------------------------------------------------
(* Intern                                                                  *)

\* The tables of one object and the ids its users hold.
InternSound(t, l, g) ==
  /\ IsFiniteSet(DOMAIN t)
  /\ l \in Seq(InternKeys) /\ Len(l) = Cardinality(DOMAIN t)
  /\ \A k \in DOMAIN t : t[k] \in 0..(Len(l) - 1) /\ l[t[k] + 1] = k
  /\ \A i \in 1..Len(l) : l[i] \in DOMAIN t /\ t[l[i]] = i - 1
  /\ \A k \in DOMAIN g : k \in DOMAIN t /\ g[k] = t[k]

\* The inductive invariant
InternInv ==
  /\ DOMAIN tbl = Objects /\ DOMAIN lbt = Objects /\ DOMAIN given = Objects
  /\ \A o \in Objects : InternSound(tbl[o], lbt[o], given[o])

\* FiniteSets as Intern sees it is FiniteSets.
LEMMA InternCard == ASSUME NEW E PROVE I!Cardinality(E) = Cardinality(E)
  BY DEF I!Cardinality, Cardinality

\* Finite sets, and one more
LEMMA InternCounting ==
  /\ IsFiniteSet({}) /\ Cardinality({}) = 0
  /\ \A E, x : IsFiniteSet(E) =>
       /\ Cardinality(E) \in Nat
       /\ x \notin E => IsFiniteSet(E \cup {x}) /\ Cardinality(E \cup {x}) = Cardinality(E) + 1
  BY FS_EmptySet, FS_AddElement, FS_CardinalityType

\* A new object
LEMMA InternNoKeys == InternSound(I!None, <<>>, I!None)
  <1>1. DOMAIN I!None = {} /\ <<>> \in Seq(InternKeys) /\ Len(<<>>) = 0
    BY DEF I!None
  <1>2. QED
    BY <1>1, InternCounting DEF InternSound

\* A known key
LEMMA InternKnownKey ==
  ASSUME NEW t, NEW l, NEW g, InternSound(t, l, g), NEW k \in DOMAIN t
  PROVE InternSound(t, l, I!With(g, k, t[k]))
  <1> DEFINE G == I!With(g, k, t[k])
  <1>1. /\ DOMAIN G = DOMAIN g \cup {k} /\ G[k] = t[k]
        /\ \A x \in DOMAIN g : x # k => G[x] = g[x]
    BY DEF I!With
  <1> HIDE DEF G
  <1>2. \A x \in DOMAIN G : x \in DOMAIN t /\ G[x] = t[x]
    BY <1>1 DEF InternSound
  <1>3. InternSound(t, l, G)
    BY <1>2 DEF InternSound
  <1>4. QED
    BY <1>3 DEF G

\* A new key
LEMMA InternNewKey ==
  ASSUME NEW t, NEW l, NEW g, InternSound(t, l, g), NEW k \in InternKeys, k \notin DOMAIN t
  PROVE LET id == Cardinality(DOMAIN t)
        IN InternSound(I!With(t, k, id), Append(l, k), I!With(g, k, id))
  <1> DEFINE id == Cardinality(DOMAIN t)
             T == I!With(t, k, id)
             U == Append(l, k)
             G == I!With(g, k, id)
  <1>1. id \in Nat /\ id = Len(l) /\ l \in Seq(InternKeys) /\ IsFiniteSet(DOMAIN t)
    BY InternCounting DEF InternSound
  <1>2. /\ U \in Seq(InternKeys) /\ Len(U) = id + 1 /\ U[id + 1] = k
        /\ \A i \in 1..id : U[i] = l[i]
    BY <1>1
  <1>3. /\ DOMAIN T = DOMAIN t \cup {k} /\ T[k] = id
        /\ \A x \in DOMAIN t : T[x] = t[x]
        /\ DOMAIN G = DOMAIN g \cup {k} /\ G[k] = id
        /\ \A x \in DOMAIN g : x # k => G[x] = g[x]
    <2>1. /\ DOMAIN T = DOMAIN t \cup {k} /\ T[k] = id
          /\ \A x \in DOMAIN t : x # k => T[x] = t[x]
      BY DEF I!With
    <2>2. /\ DOMAIN G = DOMAIN g \cup {k} /\ G[k] = id
          /\ \A x \in DOMAIN g : x # k => G[x] = g[x]
      BY DEF I!With
    <2> HIDE DEF T, G, id
    <2>3. \A x \in DOMAIN t : x # k
      OBVIOUS
    <2>4. QED
      BY <2>1, <2>2, <2>3
  <1> HIDE DEF id, T, U, G
  <1>4. IsFiniteSet(DOMAIN T) /\ Cardinality(DOMAIN T) = id + 1
    BY <1>1, <1>3, InternCounting DEF id
  <1>5. /\ \A x \in DOMAIN t : t[x] \in 0..(id - 1) /\ l[t[x] + 1] = x
        /\ \A i \in 1..id : l[i] \in DOMAIN t /\ t[l[i]] = i - 1
        /\ \A x \in DOMAIN g : x \in DOMAIN t /\ g[x] = t[x]
    BY <1>1 DEF InternSound
  <1>6. \A x \in DOMAIN T : T[x] \in 0..id /\ U[T[x] + 1] = x
    <2> SUFFICES ASSUME NEW x \in DOMAIN T PROVE T[x] \in 0..id /\ U[T[x] + 1] = x
      OBVIOUS
    <2>1. CASE x = k
      BY <1>1, <1>2, <1>3, <2>1
    <2>2. CASE x # k
      <3>1. x \in DOMAIN t /\ T[x] = t[x] /\ t[x] \in 0..(id - 1) /\ l[t[x] + 1] = x
        BY <1>3, <1>5, <2>2
      <3>2. t[x] + 1 \in 1..id
        BY <1>1, <3>1
      <3>3. QED
        BY <1>1, <1>2, <3>1, <3>2
    <2>3. QED
      BY <2>1, <2>2
  <1>7. \A i \in 1..(id + 1) : U[i] \in DOMAIN T /\ T[U[i]] = i - 1
    <2> SUFFICES ASSUME NEW i \in 1..(id + 1) PROVE U[i] \in DOMAIN T /\ T[U[i]] = i - 1
      OBVIOUS
    <2>1. CASE i = id + 1
      BY <1>1, <1>2, <1>3, <2>1
    <2>2. CASE i # id + 1
      <3>1. i \in 1..id
        BY <1>1, <2>2
      <3>2. U[i] = l[i] /\ l[i] \in DOMAIN t /\ t[l[i]] = i - 1
        BY <1>2, <1>5, <3>1
      <3>3. QED
        BY <1>3, <3>2
    <2>3. QED
      BY <2>1, <2>2
  <1>8. \A x \in DOMAIN G : x \in DOMAIN T /\ G[x] = T[x]
    BY <1>3, <1>5
  <1>9. InternSound(T, U, G)
    BY <1>1, <1>2, <1>4, <1>6, <1>7, <1>8 DEF InternSound
  <1>10. QED
    BY <1>9 DEF id, T, U, G

\* The tables from an archive
LEMMA InternRebuilt ==
  ASSUME NEW t, NEW l, NEW g, InternSound(t, l, g)
  PROVE InternSound(t, [i \in 1..Cardinality(DOMAIN t) |-> CHOOSE k \in DOMAIN t : t[k] = i - 1], g)
  <1> DEFINE n == Cardinality(DOMAIN t)
             r == [i \in 1..n |-> CHOOSE k \in DOMAIN t : t[k] = i - 1]
  <1>1. n \in Nat /\ n = Len(l) /\ l \in Seq(InternKeys) /\ IsFiniteSet(DOMAIN t)
    BY InternCounting DEF InternSound
  <1> HIDE DEF n
  <1>2. \A i \in 1..n : r[i] = l[i]
    <2> SUFFICES ASSUME NEW i \in 1..n PROVE r[i] = l[i]
      OBVIOUS
    <2>1. l[i] \in DOMAIN t /\ t[l[i]] = i - 1
      BY <1>1 DEF InternSound
    <2>2. r[i] \in DOMAIN t /\ t[r[i]] = i - 1
      BY <2>1
    <2>3. l[t[r[i]] + 1] = r[i]
      BY <2>2 DEF InternSound
    <2>4. (i - 1) + 1 = i
      BY <1>1
    <2>5. QED
      BY <2>2, <2>3, <2>4
  <1>3. r \in Seq(InternKeys) /\ Len(r) = n
    <2>1. \A i \in 1..n : l[i] \in InternKeys
      BY <1>1
    <2>2. r \in [1..n -> InternKeys]
      BY <1>2, <2>1
    <2> HIDE DEF r
    <2>3. QED
      BY <1>1, <2>2
  <1> HIDE DEF r
  <1>4. ASSUME NEW k \in DOMAIN t PROVE t[k] \in 0..(n - 1) /\ r[t[k] + 1] = k
    <2>1. t[k] \in 0..(n - 1) /\ l[t[k] + 1] = k
      BY <1>1 DEF InternSound
    <2>2. t[k] + 1 \in 1..n
      BY <1>1, <2>1
    <2>3. QED
      BY <1>2, <2>1, <2>2
  <1>5. \A i \in 1..n : r[i] \in DOMAIN t /\ t[r[i]] = i - 1
    BY <1>1, <1>2 DEF InternSound
  <1>6. \A k \in DOMAIN g : k \in DOMAIN t /\ g[k] = t[k]
    BY DEF InternSound
  <1>7. InternSound(t, r, g)
    BY <1>1, <1>3, <1>4, <1>5, <1>6 DEF InternSound, n
  <1>8. QED
    BY <1>7 DEF r, n

\* It holds at first.
LEMMA InternInvInit == I!Init => InternInv
  BY InternNoKeys DEF I!Init, InternInv

\* Every step keeps it.
LEMMA InternInvNext == InternInv /\ [I!Next]_internVars => InternInv'
  <1> SUFFICES ASSUME InternInv, [I!Next]_internVars PROVE InternInv'
    OBVIOUS
  <1>0. DOMAIN tbl = Objects /\ DOMAIN lbt = Objects /\ DOMAIN given = Objects
    BY DEF InternInv
  <1>1. ASSUME NEW o \in Objects, I!Clear(o) PROVE InternInv'
    <2>1. /\ DOMAIN tbl' = Objects /\ DOMAIN lbt' = Objects /\ DOMAIN given' = Objects
          /\ tbl'[o] = I!None /\ lbt'[o] = <<>> /\ given'[o] = I!None
          /\ \A p \in Objects : p # o => tbl'[p] = tbl[p] /\ lbt'[p] = lbt[p] /\ given'[p] = given[p]
      BY <1>0, <1>1 DEF I!Clear, I!ClearedNames
    <2>2. QED
      BY <2>1, InternNoKeys DEF InternInv
  <1>2. ASSUME NEW o \in Objects, NEW k \in InternKeys, I!Known(o, k) PROVE InternInv'
    <2>1. /\ DOMAIN given' = Objects /\ tbl' = tbl /\ lbt' = lbt /\ k \in DOMAIN tbl[o]
          /\ given'[o] = I!With(given[o], k, tbl[o][k])
          /\ \A p \in Objects : p # o => given'[p] = given[p]
      BY <1>0, <1>2 DEF I!Known
    <2>2. InternSound(tbl[o], lbt[o], given'[o])
      BY <2>1, InternKnownKey DEF InternInv
    <2>3. QED
      BY <1>0, <2>1, <2>2 DEF InternInv
  <1>3. ASSUME NEW o \in Objects, NEW k \in InternKeys, I!Generate(o, k) PROVE InternInv'
    <2>1. /\ DOMAIN tbl' = Objects /\ DOMAIN lbt' = Objects /\ DOMAIN given' = Objects
          /\ k \notin DOMAIN tbl[o]
          /\ tbl'[o] = I!With(tbl[o], k, Cardinality(DOMAIN tbl[o])) /\ lbt'[o] = Append(lbt[o], k)
          /\ given'[o] = I!With(given[o], k, Cardinality(DOMAIN tbl[o]))
          /\ \A p \in Objects : p # o => tbl'[p] = tbl[p] /\ lbt'[p] = lbt[p] /\ given'[p] = given[p]
      BY <1>0, <1>3, InternCard DEF I!Generate
    <2>2. InternSound(tbl'[o], lbt'[o], given'[o])
      BY <2>1, InternNewKey DEF InternInv
    <2>3. QED
      BY <2>1, <2>2 DEF InternInv
  <1>4. ASSUME NEW o \in Objects, NEW p \in Objects, I!Swap(o, p) PROVE InternInv'
    <2>1. /\ DOMAIN tbl' = Objects /\ DOMAIN lbt' = Objects /\ DOMAIN given' = Objects
          /\ tbl'[p] = tbl[o] /\ lbt'[p] = lbt[o] /\ given'[p] = given[o]
          /\ tbl'[o] = tbl[p] /\ lbt'[o] = lbt[p] /\ given'[o] = given[p]
          /\ \A q \in Objects \ {o, p} : tbl'[q] = tbl[q] /\ lbt'[q] = lbt[q] /\ given'[q] = given[q]
      BY <1>0, <1>4 DEF I!Swap, I!Swapped
    <2>2. QED
      BY <2>1 DEF InternInv
  <1>5. ASSUME NEW o \in Objects, NEW p \in Objects, I!Restore(o, p) PROVE InternInv'
    <2>1. /\ DOMAIN tbl' = Objects /\ DOMAIN lbt' = Objects /\ DOMAIN given' = Objects
          /\ tbl'[p] = tbl[o] /\ given'[p] = given[o]
          /\ lbt'[p] = [i \in 1..Cardinality(DOMAIN tbl[o]) |-> CHOOSE k \in DOMAIN tbl[o] : tbl[o][k] = i - 1]
          /\ \A q \in Objects : q # p => tbl'[q] = tbl[q] /\ lbt'[q] = lbt[q] /\ given'[q] = given[q]
      BY <1>0, <1>5, InternCard DEF I!Restore
    <2>2. InternSound(tbl'[p], lbt'[p], given'[p])
      BY <2>1, InternRebuilt DEF InternInv
    <2>3. QED
      BY <2>1, <2>2 DEF InternInv
  <1>6. CASE UNCHANGED internVars
    BY <1>6 DEF internVars, InternInv
  <1>7. QED
    BY <1>1, <1>2, <1>3, <1>4, <1>5, <1>6 DEF I!Next

\* The invariant says what the property says.
LEMMA InternInvExact == InternInv => I!IdsExact
  <1> SUFFICES ASSUME InternInv, NEW o \in Objects
               PROVE /\ {tbl[o][k] : k \in DOMAIN tbl[o]} = 0..(Len(lbt[o]) - 1)
                     /\ \A k \in DOMAIN tbl[o] : lbt[o][tbl[o][k] + 1] = k
                     /\ \A k \in DOMAIN given[o] : lbt[o][given[o][k] + 1] = k
    BY DEF I!IdsExact
  <1> DEFINE t == tbl[o]
             l == lbt[o]
             g == given[o]
  <1>1. InternSound(t, l, g)
    BY DEF InternInv
  <1> HIDE DEF t, l, g
  <1>2. {t[k] : k \in DOMAIN t} = 0..(Len(l) - 1)
    <2>1. ASSUME NEW i \in 0..(Len(l) - 1) PROVE i \in {t[k] : k \in DOMAIN t}
      <3>1. Len(l) \in Nat
        BY <1>1 DEF InternSound
      <3>2. i + 1 \in 1..Len(l) /\ (i + 1) - 1 = i
        BY <3>1
      <3>3. l[i + 1] \in DOMAIN t /\ t[l[i + 1]] = i
        BY <1>1, <3>2 DEF InternSound
      <3>4. QED
        BY <3>3
    <2>2. QED
      BY <1>1, <2>1 DEF InternSound
  <1>3. /\ \A k \in DOMAIN t : l[t[k] + 1] = k
        /\ \A k \in DOMAIN g : l[g[k] + 1] = k
    BY <1>1 DEF InternSound
  <1>4. QED
    BY <1>2, <1>3 DEF t, l, g

-----------------------------------------------------------------------------
(* StreamSocket                                                            *)

\* All of one set come before all of another.
Before(A, B) == \A x \in A, y \in B : x < y

\* Two sequences joined
LEMMA Joined ==
  ASSUME NEW s \in Seq(Int), NEW t \in Seq(Int)
  PROVE /\ s \o t \in Seq(Int) /\ Len(s \o t) = Len(s) + Len(t)
        /\ Stored(s \o t) = Stored(s) \cup Stored(t)
        /\ S!Ascending(s \o t) <=> S!Ascending(s) /\ S!Ascending(t) /\ Before(Stored(s), Stored(t))
  <1> DEFINE q == s \o t
             n == Len(s)
  <1>1. q \in Seq(Int) /\ n \in Nat /\ Len(t) \in Nat /\ Len(q) = n + Len(t)
    OBVIOUS
  <1>2. DOMAIN s = 1..n /\ DOMAIN t = 1..Len(t) /\ DOMAIN q = 1..(n + Len(t))
    BY <1>1
  <1>3. \A i \in 1..(n + Len(t)) : q[i] = IF i <= n THEN s[i] ELSE t[i - n]
    OBVIOUS
  <1>4. (\A i \in 1..n : s[i] \in Int) /\ (\A i \in 1..Len(t) : t[i] \in Int)
    OBVIOUS
  <1> HIDE DEF q, n
  <1>5. \A i \in 1..n : i \in 1..(n + Len(t)) /\ q[i] = s[i]
    BY <1>1, <1>2, <1>3
  <1>6. ASSUME NEW i \in 1..Len(t) PROVE i + n \in 1..(n + Len(t)) /\ q[i + n] = t[i]
    <2>1. i + n \in 1..(n + Len(t)) /\ ~(i + n <= n) /\ (i + n) - n = i
      BY <1>1
    <2>2. QED
      BY <1>3, <2>1
  <1>7. ASSUME NEW i \in 1..(n + Len(t))
        PROVE \/ i \in 1..n /\ q[i] = s[i]
              \/ i - n \in 1..Len(t) /\ q[i] = t[i - n]
    <2>1. CASE i <= n
      BY <1>1, <1>5, <2>1
    <2>2. CASE ~(i <= n)
      <3>1. q[i] = t[i - n] /\ i - n \in 1..Len(t)
        BY <1>1, <1>3, <2>2
      <3>2. QED
        BY <3>1
    <2>3. QED
      BY <2>1, <2>2
  <1>8. Stored(q) = Stored(s) \cup Stored(t)
    <2>1. ASSUME NEW x \in Stored(q) PROVE x \in Stored(s) \cup Stored(t)
      <3>1. PICK i \in 1..(n + Len(t)) : x = q[i]
        BY <1>2, <2>1 DEF Stored
      <3>2. CASE i \in 1..n /\ q[i] = s[i]
        BY <1>2, <3>1, <3>2 DEF Stored
      <3>3. CASE i - n \in 1..Len(t) /\ q[i] = t[i - n]
        BY <1>2, <3>1, <3>3 DEF Stored
      <3>4. QED
        BY <1>7, <3>2, <3>3
    <2>2. ASSUME NEW x \in Stored(s) PROVE x \in Stored(q)
      BY <1>2, <1>5, <2>2 DEF Stored
    <2>3. ASSUME NEW x \in Stored(t) PROVE x \in Stored(q)
      <3>1. PICK i \in 1..Len(t) : x = t[i]
        BY <1>2, <2>3 DEF Stored
      <3>2. i + n \in DOMAIN q /\ x = q[i + n]
        BY <1>2, <1>6, <3>1
      <3>3. QED
        BY <3>2 DEF Stored
    <2>4. QED
      BY <2>1, <2>2, <2>3
  <1>9. ASSUME S!Ascending(q) PROVE S!Ascending(s) /\ S!Ascending(t) /\ Before(Stored(s), Stored(t))
    <2>1. S!Ascending(s)
      BY <1>2, <1>5, <1>9 DEF S!Ascending
    <2>2. ASSUME NEW i \in 1..Len(t), NEW j \in 1..Len(t), i < j PROVE t[i] < t[j]
      <3>1. i + n < j + n
        BY <1>1, <2>2
      <3>2. q[i + n] < q[j + n]
        BY <1>2, <1>6, <1>9, <3>1 DEF S!Ascending
      <3>3. QED
        BY <1>6, <3>2
    <2>3. ASSUME NEW x \in Stored(s), NEW y \in Stored(t) PROVE x < y
      <3>1. PICK i \in 1..n : x = s[i]
        BY <1>2, <2>3 DEF Stored
      <3>2. PICK j \in 1..Len(t) : y = t[j]
        BY <1>2, <2>3 DEF Stored
      <3>3. i < j + n
        BY <1>1
      <3>4. q[i] < q[j + n]
        BY <1>2, <1>5, <1>6, <1>9, <3>3 DEF S!Ascending
      <3>5. QED
        BY <1>5, <1>6, <3>1, <3>2, <3>4
    <2>4. QED
      BY <1>2, <2>1, <2>2, <2>3 DEF S!Ascending, Before
  <1>10. ASSUME S!Ascending(s), S!Ascending(t), Before(Stored(s), Stored(t)) PROVE S!Ascending(q)
    <2> SUFFICES ASSUME NEW i \in 1..(n + Len(t)), NEW j \in 1..(n + Len(t)), i < j PROVE q[i] < q[j]
      BY <1>2 DEF S!Ascending
    <2>1. CASE i \in 1..n /\ j \in 1..n
      BY <1>2, <1>5, <1>10, <2>1 DEF S!Ascending
    <2>2. CASE i \in 1..n /\ ~(j \in 1..n)
      <3>1. q[i] = s[i] /\ j - n \in 1..Len(t) /\ q[j] = t[j - n]
        BY <1>5, <1>7, <2>2
      <3>2. q[i] \in Stored(s) /\ q[j] \in Stored(t)
        BY <1>2, <2>2, <3>1 DEF Stored
      <3>3. QED
        BY <1>10, <3>2 DEF Before
    <2>3. CASE ~(i \in 1..n)
      <3>1. ~(j \in 1..n)
        BY <1>1, <2>3
      <3>2. i - n \in 1..Len(t) /\ q[i] = t[i - n] /\ j - n \in 1..Len(t) /\ q[j] = t[j - n]
        BY <1>7, <2>3, <3>1
      <3>3. i - n < j - n
        BY <1>1
      <3>4. QED
        BY <1>2, <1>10, <3>2, <3>3 DEF S!Ascending
    <2>4. QED
      BY <2>1, <2>2, <2>3
  <1>11. QED
    BY <1>1, <1>8, <1>9, <1>10 DEF q, n

\* A piece of a sequence
LEMMA Piece ==
  ASSUME NEW s \in Seq(Int), NEW a \in Nat, NEW b \in Nat, 1 <= a, a <= b + 1, b <= Len(s)
  PROVE LET p == SubSeq(s, a, b)
        IN /\ p \in Seq(Int) /\ Len(p) = b - a + 1
           /\ Stored(p) = {s[i] : i \in a..b} /\ Stored(p) \subseteq Stored(s)
           /\ S!Ascending(s) => S!Ascending(p)
  <1> DEFINE p == SubSeq(s, a, b)
             m == b - a + 1
  <1>1. /\ p \in Seq(Int) /\ Len(p) = m /\ m \in Nat /\ DOMAIN p = 1..m
        /\ Len(s) \in Nat /\ DOMAIN s = 1..Len(s)
    OBVIOUS
  <1>2. \A i \in 1..m : p[i] = s[a + i - 1]
    OBVIOUS
  <1> HIDE DEF p
  <1>3. \A i \in 1..m : a + i - 1 \in a..b /\ a + i - 1 \in 1..Len(s)
    BY <1>1
  <1>4. Stored(p) = {s[i] : i \in a..b}
    <2>1. ASSUME NEW i \in a..b PROVE s[i] \in Stored(p)
      <3>1. i - a + 1 \in 1..m /\ a + (i - a + 1) - 1 = i
        OBVIOUS
      <3>2. QED
        BY <1>1, <1>2, <3>1 DEF Stored
    <2>2. ASSUME NEW x \in Stored(p) PROVE x \in {s[i] : i \in a..b}
      BY <1>1, <1>2, <1>3, <2>2 DEF Stored
    <2>3. QED
      BY <2>1, <2>2
  <1>5. Stored(p) \subseteq Stored(s)
    <2>1. \A i \in a..b : i \in DOMAIN s
      BY <1>1
    <2>2. QED
      BY <1>4, <2>1 DEF Stored
  <1>6. ASSUME S!Ascending(s) PROVE S!Ascending(p)
    <2> SUFFICES ASSUME NEW i \in 1..m, NEW j \in 1..m, i < j PROVE p[i] < p[j]
      BY <1>1 DEF S!Ascending
    <2>1. a + i - 1 < a + j - 1
      BY <1>1
    <2>2. s[a + i - 1] < s[a + j - 1]
      BY <1>1, <1>3, <1>6, <2>1 DEF S!Ascending
    <2>3. QED
      BY <1>2, <2>2
  <1>7. QED
    BY <1>1, <1>4, <1>5, <1>6 DEF p

\* What First() and Rest() cut a sequence into.
LEMMA Cut ==
  ASSUME NEW s \in Seq(Int), NEW n \in 0..Len(s)
  PROVE /\ S!First(s, n) \in Seq(Int) /\ Len(S!First(s, n)) = n
        /\ S!Rest(s, n) \in Seq(Int) /\ Len(S!Rest(s, n)) = Len(s) - n
        /\ Stored(S!First(s, n)) \cup Stored(S!Rest(s, n)) = Stored(s)
        /\ Stored(S!First(s, n)) = {s[i] : i \in 1..n}
        /\ S!Ascending(s) =>
             /\ S!Ascending(S!First(s, n)) /\ S!Ascending(S!Rest(s, n))
             /\ Before(Stored(S!First(s, n)), Stored(S!Rest(s, n)))
        /\ n = 0 => Stored(S!First(s, n)) = {}
        /\ n = Len(s) => Stored(S!Rest(s, n)) = {}
  <1> DEFINE f == SubSeq(s, 1, n)
             r == SubSeq(s, n + 1, Len(s))
  <1>1. Len(s) \in Nat /\ n \in Nat /\ n <= Len(s) /\ n + 1 \in Nat /\ DOMAIN s = 1..Len(s)
    OBVIOUS
  <1>2. /\ f \in Seq(Int) /\ Len(f) = n /\ Stored(f) = {s[i] : i \in 1..n}
        /\ S!Ascending(s) => S!Ascending(f)
    <2>1. PICK a \in Nat : a = 1
      OBVIOUS
    <2>2. 1 <= a /\ a <= n + 1 /\ n <= Len(s) /\ n - a + 1 = n
      BY <1>1, <2>1
    <2>3. /\ SubSeq(s, a, n) \in Seq(Int) /\ Len(SubSeq(s, a, n)) = n - a + 1
          /\ Stored(SubSeq(s, a, n)) = {s[i] : i \in a..n}
          /\ S!Ascending(s) => S!Ascending(SubSeq(s, a, n))
      BY <1>1, <2>2, Piece
    <2>4. QED
      BY <2>1, <2>2, <2>3
  <1>3. /\ r \in Seq(Int) /\ Len(r) = Len(s) - n /\ Stored(r) = {s[i] : i \in (n + 1)..Len(s)}
        /\ S!Ascending(s) => S!Ascending(r)
    <2>1. PICK a \in Nat : a = n + 1
      BY <1>1
    <2>2. PICK b \in Nat : b = Len(s)
      BY <1>1
    <2>3. 1 <= a /\ a <= b + 1 /\ b <= Len(s) /\ b - a + 1 = Len(s) - n
      BY <1>1, <2>1, <2>2
    <2>4. /\ SubSeq(s, a, b) \in Seq(Int) /\ Len(SubSeq(s, a, b)) = b - a + 1
          /\ Stored(SubSeq(s, a, b)) = {s[i] : i \in a..b}
          /\ S!Ascending(s) => S!Ascending(SubSeq(s, a, b))
      BY <2>3, Piece
    <2>5. QED
      BY <2>1, <2>2, <2>3, <2>4
  <1> HIDE DEF f, r
  <1>4. Stored(f) \cup Stored(r) = Stored(s)
    <2>1. \A i \in 1..Len(s) : i \in 1..n \/ i \in (n + 1)..Len(s)
      BY <1>1
    <2>2. (\A i \in 1..n : i \in 1..Len(s)) /\ (\A i \in (n + 1)..Len(s) : i \in 1..Len(s))
      BY <1>1
    <2>3. Stored(s) = {s[i] : i \in 1..Len(s)}
      BY <1>1 DEF Stored
    <2>4. QED
      BY <1>2, <1>3, <2>1, <2>2, <2>3
  <1>5. ASSUME S!Ascending(s), NEW x \in Stored(f), NEW y \in Stored(r) PROVE x < y
    <2>1. PICK i \in 1..n : x = s[i]
      BY <1>2
    <2>2. PICK j \in (n + 1)..Len(s) : y = s[j]
      BY <1>3
    <2>3. QED
      BY <1>1, <1>5, <2>1, <2>2 DEF S!Ascending
  <1>6. n = 0 => Stored(f) = {}
    BY <1>2
  <1>7. n = Len(s) => Stored(r) = {}
    BY <1>1, <1>3
  <1>8. QED
    BY <1>2, <1>3, <1>4, <1>5, <1>6, <1>7 DEF S!First, S!Rest, f, r, Before

\* The bytes a caller writes.
LEMMA StreamBytes ==
  ASSUME NEW a \in Nat, NEW b \in Nat, a >= 1, a <= b + 1
  PROVE /\ S!From(a, b) \in Seq(Int) /\ Len(S!From(a, b)) = b - a + 1
        /\ Stored(S!From(a, b)) = a..b /\ S!Ascending(S!From(a, b))
        /\ \A n \in 0..(b - a + 1) :
             S!First(S!From(a, b), n) = S!From(a, a + n - 1) /\ S!Rest(S!From(a, b), n) = S!From(a + n, b)
  <1> DEFINE q == S!From(a, b)
             m == b - a + 1
  <1>1. m \in Nat /\ q \in [1..m -> Int] /\ \A i \in 1..m : q[i] = a + i - 1
    BY DEF S!From
  <1>2. q \in Seq(Int) /\ Len(q) = m /\ DOMAIN q = 1..m
    BY <1>1 DEF S!From
  <1> HIDE DEF q
  <1>3. Stored(q) = a..b
    <2>1. ASSUME NEW x \in a..b PROVE x \in Stored(q)
      <3>1. x - a + 1 \in 1..m /\ a + (x - a + 1) - 1 = x
        OBVIOUS
      <3>2. QED
        BY <1>1, <1>2, <3>1 DEF Stored
    <2>2. ASSUME NEW x \in Stored(q) PROVE x \in a..b
      <3>1. PICK i \in 1..m : x = q[i]
        BY <1>2, <2>2 DEF Stored
      <3>2. QED
        BY <1>1, <3>1
    <2>3. QED
      BY <2>1, <2>2
  <1>4. S!Ascending(q)
    BY <1>1, <1>2 DEF S!Ascending
  <1>5. ASSUME NEW n \in 0..m
        PROVE SubSeq(q, 1, n) = S!From(a, a + n - 1) /\ SubSeq(q, n + 1, Len(q)) = S!From(a + n, b)
    <2>1. SubSeq(q, 1, n) = [i \in 1..n |-> q[i]]
      BY <1>1, <1>2
    <2>2. SubSeq(q, n + 1, Len(q)) = [i \in 1..(m - n) |-> q[n + i]]
      BY <1>1, <1>2
    <2>3. S!From(a, a + n - 1) = [i \in 1..n |-> q[i]]
      BY <1>1 DEF S!From
    <2>4. S!From(a + n, b) = [i \in 1..(m - n) |-> q[n + i]]
      BY <1>1 DEF S!From
    <2>5. QED
      BY <2>1, <2>2, <2>3, <2>4
  <1>6. QED
    BY <1>2, <1>3, <1>4, <1>5 DEF S!First, S!Rest, q

\* The beginning of two sequences joined.
LEMMA FirstJoined ==
  ASSUME NEW s \in Seq(Int), NEW t \in Seq(Int), NEW n \in 0..(Len(s) + Len(t))
  PROVE /\ n <= Len(s) => Stored(S!First(s \o t, n)) = Stored(S!First(s, n))
        /\ n >= Len(s) => Stored(S!First(s \o t, n)) = Stored(s) \cup {t[i] : i \in 1..(n - Len(s))}
  <1> DEFINE q == s \o t
             k == Len(s)
  <1>1. q \in Seq(Int) /\ k \in Nat /\ Len(t) \in Nat /\ Len(q) = k + Len(t) /\ DOMAIN s = 1..k
    OBVIOUS
  <1>2. \A i \in 1..(k + Len(t)) : q[i] = IF i <= k THEN s[i] ELSE t[i - k]
    OBVIOUS
  <1>3. Stored(S!First(q, n)) = {q[i] : i \in 1..n}
    BY <1>1, Cut
  <1> HIDE DEF q
  <1>4. ASSUME n <= k PROVE {q[i] : i \in 1..n} = {s[i] : i \in 1..n}
    <2>1. \A i \in 1..n : i \in 1..(k + Len(t)) /\ i <= k
      BY <1>1, <1>4
    <2>2. \A i \in 1..n : q[i] = s[i]
      BY <1>2, <2>1
    <2>3. QED
      BY <2>2
  <1>5. ASSUME n >= k PROVE {q[i] : i \in 1..n} = Stored(s) \cup {t[i] : i \in 1..(n - k)}
    <2>1. ASSUME NEW i \in 1..n PROVE q[i] \in Stored(s) \cup {t[j] : j \in 1..(n - k)}
      <3>0. i \in 1..(k + Len(t))
        BY <1>1
      <3>1. CASE i <= k
        <4>1. q[i] = s[i] /\ i \in DOMAIN s
          BY <1>1, <1>2, <3>0, <3>1
        <4>2. QED
          BY <4>1 DEF Stored
      <3>2. CASE i > k
        <4>1. q[i] = t[i - k] /\ i - k \in 1..(n - k)
          BY <1>1, <1>2, <3>0, <3>2
        <4>2. QED
          BY <4>1
      <3>3. QED
        BY <1>1, <3>1, <3>2
    <2>2. ASSUME NEW i \in 1..k PROVE s[i] \in {q[j] : j \in 1..n}
      <3>1. i \in 1..n /\ q[i] = s[i]
        BY <1>1, <1>2, <1>5
      <3>2. QED
        BY <3>1
    <2>3. ASSUME NEW i \in 1..(n - k) PROVE t[i] \in {q[j] : j \in 1..n}
      <3>1. i + k \in 1..n /\ i + k \in 1..(k + Len(t)) /\ ~(i + k <= k) /\ (i + k) - k = i
        BY <1>1, <1>5
      <3>2. q[i + k] = t[i]
        BY <1>2, <3>1
      <3>3. QED
        BY <3>1, <3>2
    <2>4. QED
      BY <1>1, <2>1, <2>2, <2>3 DEF Stored
  <1>6. n <= k => Stored(S!First(s, n)) = {s[i] : i \in 1..n}
    <2> HAVE n <= k
    <2>1. n \in 0..Len(s)
      BY <1>1
    <2>2. QED
      BY <2>1, Cut
  <1>7. QED
    BY <1>3, <1>4, <1>5, <1>6 DEF q

\* One that goes beyond the first of them
LEMMA FirstBeyond ==
  ASSUME NEW s \in Seq(Int), NEW t \in Seq(Int), NEW n \in 0..(Len(s) + Len(t)), NEW c \in 0..Len(t),
         n = Len(s) + c
  PROVE Stored(S!First(s \o t, n)) = Stored(s) \cup Stored(S!First(t, c))
  <1>1. n >= Len(s) /\ n - Len(s) = c
    OBVIOUS
  <1>2. Stored(S!First(s \o t, n)) = Stored(s) \cup {t[i] : i \in 1..c}
    <2>1. Stored(S!First(s \o t, n)) = Stored(s) \cup {t[i] : i \in 1..(n - Len(s))}
      BY <1>1, FirstJoined
    <2>2. QED
      BY <1>1, <2>1
  <1>3. Stored(S!First(t, c)) = {t[i] : i \in 1..c}
    BY Cut
  <1>4. QED
    BY <1>2, <1>3

\* A sequence and one more
LEMMA Appended ==
  ASSUME NEW s \in Seq(Int), NEW x \in Int
  PROVE /\ Append(s, x) \in Seq(Int) /\ Stored(Append(s, x)) = Stored(s) \cup {x}
        /\ S!Ascending(s) /\ Before(Stored(s), {x}) => S!Ascending(Append(s, x))
  <1> DEFINE q == Append(s, x)
             n == Len(s)
  <1>1. /\ q \in Seq(Int) /\ n \in Nat /\ DOMAIN s = 1..n /\ DOMAIN q = 1..(n + 1)
        /\ q[n + 1] = x
    OBVIOUS
  <1>2. \A i \in 1..n : q[i] = s[i]
    OBVIOUS
  <1> HIDE DEF q, n
  <1>3. \A i \in 1..(n + 1) : i \in 1..n \/ i = n + 1
    BY <1>1
  <1>4. Stored(q) = Stored(s) \cup {x}
    <2>1. \A i \in 1..n : i \in 1..(n + 1)
      BY <1>1
    <2>2. n + 1 \in 1..(n + 1)
      BY <1>1
    <2>3. QED
      BY <1>1, <1>2, <1>3, <2>1, <2>2 DEF Stored
  <1>5. ASSUME S!Ascending(s), Before(Stored(s), {x}) PROVE S!Ascending(q)
    <2> SUFFICES ASSUME NEW i \in 1..(n + 1), NEW j \in 1..(n + 1), i < j PROVE q[i] < q[j]
      BY <1>1 DEF S!Ascending
    <2>1. i \in 1..n
      BY <1>1
    <2>2. CASE j \in 1..n
      BY <1>1, <1>2, <1>5, <2>1, <2>2 DEF S!Ascending
    <2>3. CASE j = n + 1
      BY <1>1, <1>2, <1>5, <2>1, <2>3 DEF Before, Stored
    <2>4. QED
      BY <1>3, <2>2, <2>3
  <1>6. QED
    BY <1>1, <1>4, <1>5 DEF q

\* The first of a sequence and the others
LEMMA Popped ==
  ASSUME NEW s \in Seq(Int), s # <<>>
  PROVE /\ Head(s) \in Int /\ Tail(s) \in Seq(Int) /\ Stored(s) = {Head(s)} \cup Stored(Tail(s))
        /\ S!Ascending(s) => S!Ascending(Tail(s)) /\ Before({Head(s)}, Stored(Tail(s)))
  <1> DEFINE q == Tail(s)
             n == Len(s) - 1
  <1>1. /\ q \in Seq(Int) /\ n \in Nat /\ Len(s) = n + 1 /\ DOMAIN s = 1..(n + 1) /\ DOMAIN q = 1..n
        /\ Head(s) = s[1] /\ s[1] \in Int
    OBVIOUS
  <1>2. \A i \in 1..n : q[i] = s[i + 1]
    OBVIOUS
  <1> HIDE DEF q, n
  <1>3. \A i \in 1..n : i + 1 \in 1..(n + 1) /\ 1 < i + 1
    BY <1>1
  <1>4. 1 \in 1..(n + 1)
    BY <1>1
  <1>5. ASSUME NEW i \in 1..(n + 1) PROVE i = 1 \/ (i - 1 \in 1..n /\ s[i] = q[i - 1])
    <2>1. CASE i = 1
      BY <2>1
    <2>2. CASE i # 1
      <3>1. i - 1 \in 1..n /\ (i - 1) + 1 = i
        BY <1>1, <2>2
      <3>2. s[(i - 1) + 1] = q[i - 1]
        BY <1>2, <3>1
      <3>3. QED
        BY <3>1, <3>2
    <2>3. QED
      BY <2>1, <2>2
  <1>6. Stored(s) = {s[1]} \cup Stored(q)
    <2>1. ASSUME NEW x \in Stored(s) PROVE x \in {s[1]} \cup Stored(q)
      <3>1. PICK i \in 1..(n + 1) : x = s[i]
        BY <1>1, <2>1 DEF Stored
      <3>2. i = 1 \/ (i - 1 \in DOMAIN q /\ x = q[i - 1])
        BY <1>1, <1>5, <3>1
      <3>3. QED
        BY <3>1, <3>2 DEF Stored
    <2>2. ASSUME NEW i \in 1..n PROVE q[i] \in Stored(s)
      BY <1>1, <1>2, <1>3 DEF Stored
    <2>3. s[1] \in Stored(s)
      BY <1>1, <1>4 DEF Stored
    <2>4. QED
      BY <1>1, <2>1, <2>2, <2>3 DEF Stored
  <1>7. ASSUME S!Ascending(s) PROVE S!Ascending(q) /\ Before({s[1]}, Stored(q))
    <2>1. ASSUME NEW i \in 1..n, NEW j \in 1..n, i < j PROVE q[i] < q[j]
      <3>1. i + 1 < j + 1
        BY <1>1, <2>1
      <3>2. QED
        BY <1>1, <1>2, <1>3, <1>7, <3>1 DEF S!Ascending
    <2>2. ASSUME NEW x \in Stored(q) PROVE s[1] < x
      <3>1. PICK i \in 1..n : x = q[i]
        BY <1>1, <2>2 DEF Stored
      <3>2. QED
        BY <1>1, <1>2, <1>3, <1>4, <1>7, <3>1 DEF S!Ascending
    <2>3. QED
      BY <1>1, <2>1, <2>2 DEF S!Ascending, Before
  <1>8. QED
    BY <1>1, <1>6, <1>7 DEF q

\* The empty sequence
LEMMA Empty == <<>> \in Seq(Int) /\ Len(<<>>) = 0 /\ Stored(<<>>) = {} /\ S!Ascending(<<>>)
  BY DEF Stored, S!Ascending

\* The types of the state
StreamTypes ==
  /\ connected \in BOOLEAN /\ made \in Nat /\ peer \in Nat
  /\ rdbuf \in Seq(Int) /\ wrbuf \in Seq(Int) /\ wire \in Seq(Int)
  /\ sent \in Seq(Int) /\ got \in Seq(Int)

\* What is sent comes before what is buffered, and both before what is still to be made.
StreamOut ==
  /\ Len(wrbuf) < BufSize
  /\ S!Ascending(sent) /\ S!Ascending(wrbuf) /\ Before(Stored(sent), Stored(wrbuf))
  /\ Stored(sent) \subseteq 1..made /\ Stored(wrbuf) \subseteq 1..made

\* What is read comes before what is buffered, that before what is on the wire, and all
\* before what the peer has still to send; there is a wire while connected only.
StreamIn ==
  /\ S!Ascending(got) /\ S!Ascending(rdbuf) /\ S!Ascending(wire)
  /\ Before(Stored(got), Stored(rdbuf)) /\ Before(Stored(got), Stored(wire))
  /\ Before(Stored(rdbuf), Stored(wire))
  /\ Stored(got) \subseteq 1..peer /\ Stored(rdbuf) \subseteq 1..peer /\ Stored(wire) \subseteq 1..peer
  /\ ~connected => wire = <<>>

\* The inductive invariant
StreamInv == StreamTypes /\ StreamOut /\ StreamIn /\ S!WriteReportExact

\* A call that is not a write() has nothing to report.
LEMMA StreamReportedNothing == last = S!NoWrite => S!WriteReportExact
  <1> SUFFICES ASSUME last = S!NoWrite PROVE S!WriteReportExact
    OBVIOUS
  <1>1. last.from = 1 /\ last.to = 0 /\ last.result = 0
    BY DEF S!NoWrite
  <1>2. QED
    BY <1>1 DEF S!WriteReportExact

\* It holds at first.
LEMMA StreamInvInit == S!StreamSocketAssumption /\ S!Init => StreamInv
  <1> SUFFICES ASSUME S!StreamSocketAssumption, S!Init PROVE StreamInv
    OBVIOUS
  <1> USE Empty DEF S!Init
  <1>1. StreamTypes
    BY DEF StreamTypes
  <1>2. StreamOut
    BY DEF S!StreamSocketAssumption, StreamOut, Before
  <1>3. StreamIn
    BY DEF StreamIn, Before
  <1>4. QED
    BY <1>1, <1>2, <1>3, StreamReportedNothing DEF StreamInv

\* What a connection that ends or begins leaves: the bytes on the wire are lost.
LEMMA StreamWireLost ==
  ASSUME StreamInv, connected' \in BOOLEAN, wire' = <<>>, last' = S!NoWrite,
         UNCHANGED <<rdbuf, wrbuf, peer, made, sent, got>>
  PROVE StreamInv'
  <1>1. StreamTypes' /\ StreamOut'
    BY Empty DEF StreamInv, StreamTypes, StreamOut, S!Ascending, Before, Stored
  <1>2. StreamIn'
    <2>1. Stored(wire') = {} /\ S!Ascending(wire')
      BY Empty DEF Stored, S!Ascending
    <2>2. QED
      BY <2>1 DEF StreamInv, StreamIn, S!Ascending, Before, Stored
  <1>3. S!WriteReportExact'
    <2>1. (last.from = 1 /\ last.to = 0 /\ last.result = 0)'
      BY DEF S!NoWrite
    <2>2. QED
      BY <2>1 DEF S!WriteReportExact
  <1>4. QED
    BY <1>1, <1>2, <1>3 DEF StreamInv

\* Connections begin and end.
LEMMA StreamConnectStep == StreamInv /\ (S!Connect \/ S!ConnectFails \/ S!Shutdown \/ S!BindSocket)
    => StreamInv'
  BY StreamWireLost DEF S!Connect, S!ConnectFails, S!Shutdown, S!BindSocket

\* The peer sends.
LEMMA StreamPeerStep == StreamInv /\ S!PeerSends => StreamInv'
  <1> SUFFICES ASSUME StreamInv, S!PeerSends PROVE StreamInv'
    OBVIOUS
  <1>1. StreamTypes'
    BY DEF StreamInv, StreamTypes, S!PeerSends
  <1>2. StreamOut'
    BY DEF StreamInv, StreamOut, S!PeerSends, S!Ascending, Before, Stored
  <1>3. StreamIn'
    <2>1. peer \in Nat /\ peer' = peer + 1 /\ wire \in Seq(Int) /\ wire' = Append(wire, peer')
      BY DEF StreamInv, StreamTypes, S!PeerSends
    <2>2. /\ Before(Stored(wire), {peer'}) /\ Before(Stored(got), {peer'})
          /\ Before(Stored(rdbuf), {peer'})
      BY <2>1 DEF StreamInv, StreamIn, Before
    <2>3. S!Ascending(wire') /\ Stored(wire') = Stored(wire) \cup {peer'}
      BY <2>1, <2>2, Appended DEF StreamInv, StreamIn
    <2>4. \A x \in 1..peer : x \in 1..peer'
      BY <2>1
    <2>5. peer' \in 1..peer'
      BY <2>1
    <2>6. got' = got /\ rdbuf' = rdbuf /\ connected' = connected /\ connected
      BY DEF S!PeerSends
    <2>7. QED
      BY <2>2, <2>3, <2>4, <2>5, <2>6 DEF StreamInv, StreamIn, Before
  <1>4. S!WriteReportExact'
    BY DEF StreamInv, S!WriteReportExact, S!PeerSends
  <1>5. QED
    BY <1>1, <1>2, <1>3, <1>4 DEF StreamInv

\* What is left of the bytes to come when some of them have been read or lost.
LEMMA StreamReadOn ==
  ASSUME StreamInv, NEW a \in Seq(Int), NEW b \in Seq(Int), got' = got \o a \o b,
         rdbuf' \in Seq(Int), wire' \in Seq(Int), connected' \in BOOLEAN,
         S!Ascending(a), S!Ascending(b), S!Ascending(rdbuf'), S!Ascending(wire'),
         Stored(a) \cup Stored(b) \cup Stored(rdbuf') \cup Stored(wire')
           \subseteq Stored(rdbuf) \cup Stored(wire),
         Before(Stored(a), Stored(b)), Before(Stored(a), Stored(rdbuf')), Before(Stored(a), Stored(wire')),
         Before(Stored(b), Stored(rdbuf')), Before(Stored(b), Stored(wire')),
         Before(Stored(rdbuf'), Stored(wire')),
         ~connected' => wire' = <<>>, last' = S!NoWrite, UNCHANGED <<wrbuf, peer, made, sent>>
  PROVE StreamInv'
  <1>1. got \in Seq(Int) /\ S!Ascending(got) /\ Before(Stored(got), Stored(rdbuf) \cup Stored(wire))
    BY DEF StreamInv, StreamTypes, StreamIn, Before
  <1>2. PICK q : q = got \o a
    OBVIOUS
  <1>3. q \in Seq(Int) /\ Stored(q) = Stored(got) \cup Stored(a) /\ S!Ascending(q)
    <2>1. Before(Stored(got), Stored(a))
      BY <1>1 DEF Before
    <2>2. QED
      BY <1>1, <1>2, <2>1, Joined
  <1>4. got' \in Seq(Int) /\ Stored(got') = Stored(q) \cup Stored(b) /\ S!Ascending(got')
    <2>1. Before(Stored(q), Stored(b))
      BY <1>1, <1>3 DEF Before
    <2>2. PICK t : t = q \o b
      OBVIOUS
    <2>3. t \in Seq(Int) /\ Stored(t) = Stored(q) \cup Stored(b) /\ S!Ascending(t)
      BY <1>3, <2>1, <2>2, Joined
    <2>4. got' = t
      BY <1>2, <2>2
    <2>5. QED
      BY <2>3, <2>4
  <1>5. StreamTypes'
    BY <1>4 DEF StreamInv, StreamTypes
  <1>6. StreamOut'
    BY DEF StreamInv, StreamOut, S!Ascending, Before, Stored
  <1>7. StreamIn'
    <2>1. Stored(got') = Stored(got) \cup Stored(a) \cup Stored(b)
      BY <1>3, <1>4
    <2>2. Before(Stored(got'), Stored(rdbuf')) /\ Before(Stored(got'), Stored(wire'))
      BY <1>1, <2>1 DEF Before
    <2>3. /\ Stored(got') \subseteq 1..peer' /\ Stored(rdbuf') \subseteq 1..peer'
          /\ Stored(wire') \subseteq 1..peer'
      BY <2>1 DEF StreamInv, StreamIn
    <2>4. QED
      BY <1>4, <2>2, <2>3 DEF StreamIn
  <1>8. S!WriteReportExact'
    <2>1. (last.from = 1 /\ last.to = 0 /\ last.result = 0)'
      BY DEF S!NoWrite
    <2>2. QED
      BY <2>1 DEF S!WriteReportExact
  <1>9. QED
    BY <1>5, <1>6, <1>7, <1>8 DEF StreamInv

\* read()
LEMMA StreamReadStep == ASSUME StreamInv, NEW size \in Nat, S!Read(size) PROVE StreamInv'
  <1> DEFINE k == S!MinOf(size, Len(rdbuf))
             a == S!First(rdbuf, k)
             r == S!Rest(rdbuf, k)
  <1>1. /\ rdbuf \in Seq(Int) /\ wire \in Seq(Int) /\ connected \in BOOLEAN /\ Len(rdbuf) \in Nat
        /\ Len(wire) \in Nat
    BY DEF StreamInv, StreamTypes
  <1>2. /\ S!Ascending(rdbuf) /\ S!Ascending(wire) /\ Before(Stored(rdbuf), Stored(wire))
        /\ (~connected => wire = <<>>)
    BY DEF StreamInv, StreamIn
  <1>3. k \in 0..Len(rdbuf) /\ (k = size \/ k = Len(rdbuf))
    BY <1>1 DEF S!MinOf
  <1>4. /\ a \in Seq(Int) /\ Len(a) = k /\ r \in Seq(Int) /\ S!Ascending(a) /\ S!Ascending(r)
        /\ Stored(a) \cup Stored(r) = Stored(rdbuf) /\ Before(Stored(a), Stored(r))
        /\ k = Len(rdbuf) => Stored(r) = {}
    BY <1>1, <1>2, <1>3, Cut
  <1>5. PICK n \in 0..S!MinOf(size - k, Len(wire)) :
          /\ got' = got \o a \o S!First(wire, n)
          /\ IF n < size - k THEN S!RecvFails ELSE wire' = S!Rest(wire, n) /\ UNCHANGED <<sock, connected>>
    BY <1>4 DEF S!Read
  <1> DEFINE b == S!First(wire, n)
             w == S!Rest(wire, n)
  <1>6. n \in 0..Len(wire) /\ n <= size - k
    BY <1>1, <1>3, <1>5 DEF S!MinOf
  <1>7. /\ b \in Seq(Int) /\ w \in Seq(Int) /\ Len(w) = Len(wire) - n /\ S!Ascending(b)
        /\ S!Ascending(w)
        /\ Stored(b) \cup Stored(w) = Stored(wire) /\ Before(Stored(b), Stored(w))
        /\ n = 0 => Stored(b) = {}
    BY <1>1, <1>2, <1>6, Cut
  <1>8. rdbuf' = r /\ last' = S!NoWrite /\ UNCHANGED <<wrbuf, peer, made, sent>>
    BY DEF S!Read, S!Buffered
  <1>9. connected' \in BOOLEAN /\ wire' \in {w, <<>>} /\ (~connected' => wire' = <<>>)
    <2>1. wire = <<>> => w = <<>>
      BY <1>1, <1>6, <1>7, Empty
    <2>2. CASE n < size - k
      BY <1>1, <1>2, <1>5, <2>1, <2>2 DEF S!RecvFails
    <2>3. CASE ~(n < size - k)
      BY <1>1, <1>2, <1>5, <2>1, <2>3
    <2>4. QED
      BY <2>2, <2>3
  <1>10. got' = got \o a \o b
    BY <1>5
  <1>11. Stored(b) = {} \/ Stored(r) = {}
    BY <1>1, <1>3, <1>4, <1>6, <1>7
  <1> HIDE DEF a, b, r, w, k
  <1>12. wire' \in Seq(Int) /\ S!Ascending(wire') /\ Stored(wire') \subseteq Stored(w)
    BY <1>7, <1>9, Empty
  <1>13. /\ Before(Stored(a), Stored(b)) /\ Before(Stored(a), Stored(wire'))
         /\ Before(Stored(b), Stored(r)) /\ Before(Stored(b), Stored(wire'))
         /\ Before(Stored(r), Stored(wire'))
    BY <1>2, <1>4, <1>7, <1>11, <1>12 DEF Before
  <1>14. Stored(a) \cup Stored(b) \cup Stored(r) \cup Stored(wire') \subseteq Stored(rdbuf) \cup Stored(wire)
    BY <1>4, <1>7, <1>12
  <1>15. QED
    BY <1>4, <1>7, <1>8, <1>9, <1>10, <1>12, <1>13, <1>14, StreamReadOn

\* getc()
LEMMA StreamGetcStep == S!StreamSocketAssumption /\ StreamInv /\ S!Getc => StreamInv'
  <1> SUFFICES ASSUME BufSize \in Nat, StreamInv, S!Getc PROVE StreamInv'
    BY DEF S!StreamSocketAssumption
  <1>1. rdbuf \in Seq(Int) /\ wire \in Seq(Int) /\ got \in Seq(Int) /\ connected \in BOOLEAN
    BY DEF StreamInv, StreamTypes
  <1>2. /\ S!Ascending(rdbuf) /\ S!Ascending(wire) /\ Before(Stored(rdbuf), Stored(wire))
        /\ (~connected => wire = <<>>)
    BY DEF StreamInv, StreamIn
  <1>3. last' = S!NoWrite /\ UNCHANGED <<wrbuf, peer, made, sent>>
    BY DEF S!Getc
  <1>4. ASSUME NEW x \in Int PROVE /\ Append(got, x) = got \o <<x>> \o <<>>
                                   /\ <<x>> \in Seq(Int) /\ Stored(<<x>>) = {x} /\ S!Ascending(<<x>>)
    BY <1>1 DEF Stored, S!Ascending
  <1>5. ASSUME rdbuf # <<>>, got' = Append(got, Head(rdbuf)), rdbuf' = Tail(rdbuf), UNCHANGED <<connected, wire>>
        PROVE StreamInv'
    <2>1. PICK x : x = Head(rdbuf)
      OBVIOUS
    <2>2. /\ x \in Int /\ rdbuf' \in Seq(Int) /\ Stored(rdbuf) = {x} \cup Stored(rdbuf')
          /\ S!Ascending(rdbuf') /\ Before({x}, Stored(rdbuf'))
      BY <1>1, <1>2, <1>5, <2>1, Popped
    <2>3. got' = got \o <<x>> \o <<>>
      BY <1>4, <1>5, <2>1, <2>2
    <2>4. Before({x}, Stored(wire)) /\ Before(Stored(rdbuf'), Stored(wire))
      BY <1>2, <2>2 DEF Before
    <2>5. PICK a, b : a = <<x>> /\ b = <<>>
      OBVIOUS
    <2>6. /\ a \in Seq(Int) /\ Stored(a) = {x} /\ S!Ascending(a) /\ b \in Seq(Int) /\ Stored(b) = {}
          /\ S!Ascending(b)
      BY <1>4, <2>2, <2>5, Empty
    <2>7. got' = got \o a \o b
      BY <2>3, <2>5
    <2>8. /\ Before(Stored(a), Stored(b)) /\ Before(Stored(a), Stored(rdbuf'))
          /\ Before(Stored(a), Stored(wire'))
          /\ Before(Stored(b), Stored(rdbuf')) /\ Before(Stored(b), Stored(wire'))
          /\ Before(Stored(rdbuf'), Stored(wire'))
      BY <1>5, <2>2, <2>4, <2>6 DEF Before
    <2>9. Stored(a) \cup Stored(b) \cup Stored(rdbuf') \cup Stored(wire') \subseteq Stored(rdbuf) \cup Stored(wire)
      BY <1>5, <2>2, <2>6
    <2>10. /\ wire' \in Seq(Int) /\ S!Ascending(wire') /\ connected' \in BOOLEAN
           /\ (~connected' => wire' = <<>>)
      BY <1>1, <1>2, <1>5
    <2>11. QED
      BY <1>3, <2>2, <2>6, <2>7, <2>8, <2>9, <2>10, StreamReadOn
  <1>6. ASSUME NEW n \in 1..S!MinOf(BufSize, Len(wire)), rdbuf = <<>>, got' = Append(got, wire[1]),
               rdbuf' = SubSeq(wire, 2, n), wire' = S!Rest(wire, n), UNCHANGED <<connected>>
        PROVE StreamInv'
    <2>1. n \in 1..Len(wire) /\ n \in 0..Len(wire) /\ n \in Nat /\ Len(wire) \in Nat
      BY <1>1, <1>6 DEF S!MinOf
    <2>2. PICK f : f = S!First(wire, n)
      OBVIOUS
    <2>3. /\ f \in Seq(Int) /\ Len(f) = n /\ S!Ascending(f) /\ wire' \in Seq(Int) /\ S!Ascending(wire')
          /\ Stored(f) \cup Stored(wire') = Stored(wire) /\ Before(Stored(f), Stored(wire'))
      BY <1>1, <1>2, <1>6, <2>1, <2>2, Cut
    <2>4. f # <<>> /\ Head(f) = wire[1] /\ Tail(f) = SubSeq(wire, 2, n)
      <3>1. f = [i \in 1..n |-> wire[i]]
        BY <1>1, <2>1, <2>2 DEF S!First
      <3>2. Head(f) = wire[1] /\ f # <<>>
        <4>1. f # <<>>
          BY <2>1, <2>3, Empty
        <4>2. Head(f) = f[1]
          BY <2>3, <4>1
        <4>3. f[1] = wire[1]
          BY <2>1, <3>1
        <4>4. QED
          BY <4>1, <4>2, <4>3
      <3>3. Tail(f) = [i \in 1..(n - 1) |-> wire[i + 1]]
        BY <2>1, <2>3, <3>1
      <3>4. SubSeq(wire, 2, n) = [i \in 1..(n - 1) |-> wire[i + 1]]
        BY <1>1, <2>1
      <3>5. QED
        BY <3>2, <3>3, <3>4
    <2>5. PICK x : x = wire[1]
      OBVIOUS
    <2>6. /\ x \in Int /\ rdbuf' \in Seq(Int) /\ Stored(f) = {x} \cup Stored(rdbuf')
          /\ S!Ascending(rdbuf') /\ Before({x}, Stored(rdbuf'))
      BY <1>6, <2>3, <2>4, <2>5, Popped
    <2>7. PICK a, b : a = <<x>> /\ b = <<>>
      OBVIOUS
    <2>8. /\ a \in Seq(Int) /\ Stored(a) = {x} /\ S!Ascending(a) /\ b \in Seq(Int) /\ Stored(b) = {}
          /\ S!Ascending(b)
      BY <1>4, <2>6, <2>7, Empty
    <2>9. got' = got \o a \o b
      BY <1>4, <1>6, <2>5, <2>6, <2>7
    <2>10. /\ Before(Stored(a), Stored(b)) /\ Before(Stored(a), Stored(rdbuf'))
           /\ Before(Stored(a), Stored(wire'))
           /\ Before(Stored(b), Stored(rdbuf')) /\ Before(Stored(b), Stored(wire'))
           /\ Before(Stored(rdbuf'), Stored(wire'))
      BY <2>3, <2>6, <2>8 DEF Before
    <2>11. Stored(a) \cup Stored(b) \cup Stored(rdbuf') \cup Stored(wire') \subseteq Stored(rdbuf) \cup Stored(wire)
      BY <2>3, <2>6, <2>8
    <2>12. connected' \in BOOLEAN /\ (~connected' => wire' = <<>>)
      <3>1. wire # <<>>
        BY <2>1, Empty
      <3>2. QED
        BY <1>1, <1>2, <1>6, <3>1
    <2>13. QED
      BY <1>3, <2>3, <2>6, <2>8, <2>9, <2>10, <2>11, <2>12, StreamReadOn
  <1>7. ASSUME rdbuf = <<>>, S!RecvFails, UNCHANGED <<got, rdbuf>> PROVE StreamInv'
    <2>1. wire' = <<>> /\ connected' \in BOOLEAN
      BY <1>1, <1>2, <1>7 DEF S!RecvFails
    <2>2. QED
      BY <1>3, <1>7, <2>1, StreamWireLost
  <1>8. ASSUME rdbuf = <<>>,
               \E n \in 1..S!MinOf(BufSize, Len(wire)) :
                 /\ got' = Append(got, wire[1]) /\ rdbuf' = SubSeq(wire, 2, n)
                 /\ wire' = S!Rest(wire, n) /\ UNCHANGED <<connected>>
        PROVE StreamInv'
    BY <1>6, <1>8
  <1>9. CASE rdbuf # <<>> /\ got' = Append(got, Head(rdbuf)) /\ rdbuf' = Tail(rdbuf) /\ UNCHANGED <<sock, connected, wire>>
    BY <1>5, <1>9
  <1>10. CASE \E n \in 1..S!MinOf(BufSize, Len(wire)) :
                 /\ rdbuf = <<>>
                 /\ got' = Append(got, wire[1]) /\ rdbuf' = SubSeq(wire, 2, n)
                 /\ wire' = S!Rest(wire, n)
                 /\ UNCHANGED <<sock, connected>>
    BY <1>8, <1>10
  <1>11. QED
    BY <1>7, <1>9, <1>10 DEF S!Getc

\* What SendAll() adds to what is sent.
LEMMA StreamSent ==
  ASSUME StreamInv, NEW bytes \in Seq(Int), NEW n \in Nat, S!SendAll(bytes, n), S!Ascending(bytes),
         Before(Stored(sent), Stored(bytes))
  PROVE /\ n \in 0..Len(bytes) /\ sent' \in Seq(Int) /\ S!Ascending(sent')
        /\ Stored(sent') = Stored(sent) \cup Stored(S!First(bytes, n))
        /\ Stored(S!First(bytes, n)) \cup Stored(S!Rest(bytes, n)) = Stored(bytes)
        /\ connected' \in BOOLEAN /\ wire' \in {wire, <<>>} /\ (~connected' => wire' = <<>>)
        /\ n < Len(bytes) => ~connected'
  <1> DEFINE f == S!First(bytes, n)
  <1>1. sent \in Seq(Int) /\ S!Ascending(sent) /\ connected \in BOOLEAN /\ (~connected => wire = <<>>)
    BY DEF StreamInv, StreamTypes, StreamOut, StreamIn
  <1>2. n \in 0..Len(bytes) /\ sent' = sent \o f
    BY DEF S!SendAll
  <1>3. f \in Seq(Int) /\ S!Ascending(f) /\ Stored(f) \cup Stored(S!Rest(bytes, n)) = Stored(bytes)
    BY <1>2, Cut
  <1> HIDE DEF f
  <1>4. Before(Stored(sent), Stored(f))
    BY <1>3 DEF Before
  <1>5. sent' \in Seq(Int) /\ S!Ascending(sent') /\ Stored(sent') = Stored(sent) \cup Stored(f)
    BY <1>1, <1>2, <1>3, <1>4, Joined
  <1>6. connected' \in BOOLEAN /\ wire' \in {wire, <<>>} /\ (~connected' => wire' = <<>>) /\ (n < Len(bytes) => ~connected')
    BY <1>1 DEF S!SendAll
  <1>7. QED
    BY <1>2, <1>3, <1>5, <1>6 DEF f

\* In is kept by what only sends.
LEMMA StreamInKept ==
  ASSUME StreamInv, UNCHANGED <<rdbuf, peer, got>>, wire' \in {wire, <<>>}, ~connected' => wire' = <<>>
  PROVE StreamIn' /\ wire' \in Seq(Int)
  <1>1. wire' \in Seq(Int) /\ S!Ascending(wire') /\ Stored(wire') \subseteq Stored(wire)
    BY Empty DEF StreamInv, StreamTypes, StreamIn
  <1>2. QED
    BY <1>1 DEF StreamInv, StreamIn, S!Ascending, Before, Stored

\* flush()
LEMMA StreamFlushStep == S!StreamSocketAssumption /\ StreamInv /\ S!Flush => StreamInv'
  <1> SUFFICES ASSUME BufSize \in Nat \ {0}, StreamInv, S!Flush PROVE StreamInv'
    BY DEF S!StreamSocketAssumption
  <1>1. PICK n \in 0..Len(wrbuf) : S!SendAll(wrbuf, n) /\ wrbuf' = S!AfterFlush(n)
    BY DEF S!Flush
  <1>2. wrbuf \in Seq(Int) /\ n \in Nat /\ S!Ascending(wrbuf) /\ Before(Stored(sent), Stored(wrbuf))
    BY DEF StreamInv, StreamTypes, StreamOut
  <1>3. /\ sent' \in Seq(Int) /\ S!Ascending(sent')
        /\ Stored(sent') \subseteq Stored(sent) \cup Stored(wrbuf)
        /\ connected' \in BOOLEAN /\ wire' \in {wire, <<>>} /\ (~connected' => wire' = <<>>)
    BY <1>1, <1>2, StreamSent
  <1>4. wrbuf' = <<>> /\ last' = S!NoWrite /\ UNCHANGED <<rdbuf, peer, made, got>>
    BY <1>1 DEF S!Flush, S!AfterFlush
  <1>5. StreamIn' /\ wire' \in Seq(Int)
    BY <1>3, <1>4, StreamInKept
  <1>6. StreamTypes'
    BY <1>3, <1>4, <1>5, Empty DEF StreamInv, StreamTypes
  <1>7. StreamOut'
    <2>1. Stored(wrbuf') = {} /\ S!Ascending(wrbuf') /\ Len(wrbuf') = 0
      BY <1>4, Empty
    <2>2. Stored(sent') \subseteq 1..made'
      BY <1>3, <1>4 DEF StreamInv, StreamOut
    <2>3. QED
      BY <1>3, <2>1, <2>2 DEF StreamOut, Before
  <1>8. S!WriteReportExact'
    <2>1. (last.from = 1 /\ last.to = 0 /\ last.result = 0)'
      BY <1>4 DEF S!NoWrite
    <2>2. QED
      BY <2>1 DEF S!WriteReportExact
  <1>9. QED
    BY <1>5, <1>6, <1>7, <1>8 DEF StreamInv

\* What a write() has to report
LEMMA StreamReport ==
  ASSUME NEW a, NEW b, NEW r, last' = [from |-> a, to |-> b, result |-> r],
         sent' \in Seq(Int), wrbuf' \in Seq(Int),
         IF r = b - a + 1 THEN a..b \subseteq Stored(sent') \cup Stored(wrbuf')
         ELSE (a..b) \intersect Stored(sent') = a..(a + r - 1) /\ wrbuf' = <<>> /\ ~connected'
  PROVE S!WriteReportExact'
  <1>1. last'.from = a /\ last'.to = b /\ last'.result = r
    OBVIOUS
  <1>2. S!Range(sent') = Stored(sent')
    BY DEF S!Range, Stored
  <1>3. S!Range(sent' \o wrbuf') = Stored(sent') \cup Stored(wrbuf')
    <2>1. PICK q : q = sent' \o wrbuf'
      OBVIOUS
    <2>2. Stored(q) = Stored(sent') \cup Stored(wrbuf')
      BY <2>1, Joined
    <2>3. S!Range(q) = Stored(q)
      BY DEF S!Range, Stored
    <2>4. QED
      BY <2>1, <2>2, <2>3
  <1>4. QED
    BY <1>1, <1>2, <1>3 DEF S!WriteReportExact

\* The bytes of a write(): what fits into the buffer, and the rest.
LEMMA StreamCuts ==
  ASSUME NEW a \in Nat, NEW b \in Nat, NEW n \in Nat, 1 <= a, n <= b - a + 1
  PROVE /\ S!First(S!From(a, b), n) \in Seq(Int) /\ Len(S!First(S!From(a, b), n)) = n
        /\ Stored(S!First(S!From(a, b), n)) = a..(a + n - 1) /\ S!Ascending(S!First(S!From(a, b), n))
        /\ S!Rest(S!From(a, b), n) \in Seq(Int) /\ Len(S!Rest(S!From(a, b), n)) = b - a + 1 - n
        /\ Stored(S!Rest(S!From(a, b), n)) = (a + n)..b /\ S!Ascending(S!Rest(S!From(a, b), n))
        /\ S!First(S!From(a, b), n) = S!From(a, a + n - 1) /\ S!Rest(S!From(a, b), n) = S!From(a + n, b)
  <1>1. PICK c, d : c = a + n - 1 /\ d = a + n
    OBVIOUS
  <1>2. /\ c \in Nat /\ d \in Nat /\ 1 <= a /\ a <= b + 1 /\ a <= c + 1 /\ 1 <= d /\ d <= b + 1
        /\ n \in 0..(b - a + 1) /\ a + n - 1 = c /\ a + n = d
        /\ c - a + 1 = n /\ b - d + 1 = b - a + 1 - n
    BY <1>1
  <1>3. S!First(S!From(a, b), n) = S!From(a, c) /\ S!Rest(S!From(a, b), n) = S!From(d, b)
    BY <1>2, StreamBytes
  <1>4. /\ S!From(a, c) \in Seq(Int) /\ Len(S!From(a, c)) = n /\ Stored(S!From(a, c)) = a..c
        /\ S!Ascending(S!From(a, c))
    BY <1>2, StreamBytes
  <1>5. /\ S!From(d, b) \in Seq(Int) /\ Len(S!From(d, b)) = b - a + 1 - n
        /\ Stored(S!From(d, b)) = d..b /\ S!Ascending(S!From(d, b))
    BY <1>2, StreamBytes
  <1>6. QED
    BY <1>1, <1>3, <1>4, <1>5

\* write()
LEMMA StreamWriteStep ==
  ASSUME BufSize \in Nat \ {0}, StreamInv, NEW size \in Nat, S!Write(size)
  PROVE StreamInv'
  <1> DEFINE m == made
             k == Len(wrbuf)
             fits == S!MinOf(size, BufSize - k)
             new == S!From(m + 1, m + size)
             head == S!First(new, fits)
             rest == S!Rest(new, fits)
             full == wrbuf \o head
             both == full \o rest
  <1>1. /\ m \in Nat /\ k \in Nat /\ k < BufSize /\ wrbuf \in Seq(Int) /\ sent \in Seq(Int)
        /\ S!Ascending(wrbuf) /\ Before(Stored(sent), Stored(wrbuf))
        /\ Stored(sent) \subseteq 1..m /\ Stored(wrbuf) \subseteq 1..m
        /\ connected \in BOOLEAN /\ (~connected => wire = <<>>)
    BY DEF StreamInv, StreamTypes, StreamOut, StreamIn
  <1>2. fits \in 0..size /\ fits <= BufSize - k /\ (fits = size \/ fits = BufSize - k)
    BY <1>1 DEF S!MinOf
  <1> HIDE DEF m, k, fits
  <1>3. /\ head = S!From(m + 1, m + fits) /\ head \in Seq(Int) /\ Len(head) = fits
        /\ Stored(head) = (m + 1)..(m + fits) /\ S!Ascending(head)
        /\ rest \in Seq(Int) /\ Len(rest) = size - fits
        /\ Stored(rest) = (m + fits + 1)..(m + size) /\ S!Ascending(rest)
        /\ rest = S!From(m + fits + 1, m + size)
    <2>1. PICK a \in Nat, b \in Nat : a = m + 1 /\ b = m + size
      BY <1>1
    <2>2. PICK n \in Nat : n = fits
      BY <1>2
    <2>3. /\ 1 <= a /\ n <= b - a + 1 /\ a + n - 1 = m + fits /\ a + n = m + fits + 1
          /\ b - a + 1 - n = size - fits
      BY <1>1, <1>2, <2>1, <2>2
    <2>0. 1 <= a /\ n <= b - a + 1
      BY <2>3
    <2>4. /\ S!First(S!From(a, b), n) \in Seq(Int) /\ Len(S!First(S!From(a, b), n)) = n
          /\ Stored(S!First(S!From(a, b), n)) = a..(a + n - 1) /\ S!Ascending(S!First(S!From(a, b), n))
          /\ S!First(S!From(a, b), n) = S!From(a, a + n - 1)
      <3>1. S!First(S!From(a, b), n) \in Seq(Int) /\ Len(S!First(S!From(a, b), n)) = n
        BY <2>0, StreamCuts
      <3>2. Stored(S!First(S!From(a, b), n)) = a..(a + n - 1)
        BY <2>0, StreamCuts
      <3>3. S!Ascending(S!First(S!From(a, b), n)) /\ S!First(S!From(a, b), n) = S!From(a, a + n - 1)
        BY <2>0, StreamCuts
      <3>4. QED
        BY <3>1, <3>2, <3>3
    <2>5. /\ S!Rest(S!From(a, b), n) \in Seq(Int) /\ Len(S!Rest(S!From(a, b), n)) = b - a + 1 - n
          /\ Stored(S!Rest(S!From(a, b), n)) = (a + n)..b /\ S!Ascending(S!Rest(S!From(a, b), n))
          /\ S!Rest(S!From(a, b), n) = S!From(a + n, b)
      <3>1. S!Rest(S!From(a, b), n) \in Seq(Int) /\ Len(S!Rest(S!From(a, b), n)) = b - a + 1 - n
        BY <2>0, StreamCuts
      <3>2. Stored(S!Rest(S!From(a, b), n)) = (a + n)..b
        BY <2>0, StreamCuts
      <3>3. S!Ascending(S!Rest(S!From(a, b), n)) /\ S!Rest(S!From(a, b), n) = S!From(a + n, b)
        BY <2>0, StreamCuts
      <3>4. QED
        BY <3>1, <3>2, <3>3
    <2>6. head = S!First(S!From(a, b), n) /\ rest = S!Rest(S!From(a, b), n)
      BY <2>1, <2>2
    <2>7. QED
      BY <2>1, <2>2, <2>3, <2>4, <2>5, <2>6
  <1>4. PICK result \in 0..size :
          /\ last' = [from |-> m + 1, to |-> m + size, result |-> result]
          /\ \/ /\ Len(full) < BufSize
                /\ result = size /\ wrbuf' = full
                /\ UNCHANGED <<sock, connected, wire, sent>>
             \/ \E n \in 0..(BufSize - 1) :
                  /\ Len(full) = BufSize
                  /\ S!SendAll(full, n)
                  /\ result = S!Unflushed(n, k) /\ wrbuf' = <<>>
             \/ /\ Len(full) = BufSize /\ Len(rest) < BufSize
                /\ S!SendAll(full, BufSize)
                /\ result = size /\ wrbuf' = rest
             \/ \E n \in 0..Len(rest) :
                  /\ Len(full) = BufSize /\ Len(rest) >= BufSize
                  /\ connected
                  /\ S!SendAll(both, BufSize + n)
                  /\ result = fits + n /\ wrbuf' = <<>>
    BY DEF S!Write, m, k, fits
  <1>5. made' = m + size /\ UNCHANGED <<rdbuf, peer, got>>
    BY DEF S!Write, m
  <1> HIDE DEF new, head, rest, both
  <1>6. Len(full) = k + fits /\ full \in Seq(Int)
    BY <1>1, <1>3 DEF k
  <1> HIDE DEF full
  <1>7. /\ Stored(full) = Stored(wrbuf) \cup Stored(head) /\ S!Ascending(full)
        /\ Before(Stored(sent), Stored(full))
    <2>1. Before(Stored(wrbuf), Stored(head)) /\ Before(Stored(sent), Stored(head))
      BY <1>1, <1>3 DEF Before
    <2>2. Stored(full) = Stored(wrbuf) \cup Stored(head) /\ S!Ascending(full)
      BY <1>1, <1>3, <2>1, Joined DEF full
    <2>3. QED
      BY <1>1, <2>1, <2>2 DEF Before
  <1>8. Before(Stored(full), Stored(rest)) /\ Before(Stored(sent), Stored(rest))
    <2>1. \A y \in Stored(rest) : y > m + fits /\ y \in Int
      BY <1>1, <1>2, <1>3
    <2>2. \A x \in Stored(full) \cup Stored(sent) : x <= m + fits /\ x \in Int
      BY <1>1, <1>2, <1>3, <1>7
    <2>3. QED
      BY <1>1, <1>2, <2>1, <2>2 DEF Before
  <1>9. /\ both \in Seq(Int) /\ Len(both) = Len(full) + Len(rest) /\ S!Ascending(both)
        /\ Stored(both) = Stored(full) \cup Stored(rest) /\ Before(Stored(sent), Stored(both))
    <2>1. /\ both \in Seq(Int) /\ Len(both) = Len(full) + Len(rest) /\ S!Ascending(both)
          /\ Stored(both) = Stored(full) \cup Stored(rest)
      <3>1. full \in Seq(Int) /\ rest \in Seq(Int) /\ S!Ascending(full) /\ S!Ascending(rest)
        BY <1>3, <1>6, <1>7
      <3>2. both \in Seq(Int) /\ Len(both) = Len(full) + Len(rest)
        BY <3>1 DEF both
      <3>3. Stored(both) = Stored(full) \cup Stored(rest)
        BY <3>1, Joined DEF both
      <3>4. S!Ascending(both)
        BY <1>8, <3>1, Joined DEF both
      <3>5. QED
        BY <3>2, <3>3, <3>4
    <2>2. QED
      BY <1>7, <1>8, <2>1 DEF Before
  <1>10. \A x \in Stored(head) \cup Stored(rest) \cup (1..m) : x \in 1..made'
    BY <1>1, <1>2, <1>3, <1>5
  <1>11. \A x \in (m + 1)..(m + size) : x \in Stored(head) \cup Stored(rest)
    BY <1>1, <1>2, <1>3
  <1> DEFINE Kept ==
        /\ sent' \in Seq(Int) /\ wrbuf' \in Seq(Int) /\ connected' \in BOOLEAN
        /\ wire' \in {wire, <<>>} /\ (~connected' => wire' = <<>>)
        /\ StreamOut' /\ S!WriteReportExact'
  <1>12. Kept => StreamInv'
    <2> SUFFICES ASSUME Kept PROVE StreamInv'
      OBVIOUS
    <2>1. StreamIn' /\ wire' \in Seq(Int)
      BY <1>5, StreamInKept
    <2>2. StreamTypes'
      BY <1>1, <1>5, <2>1 DEF StreamInv, StreamTypes
    <2>3. QED
      BY <2>1, <2>2 DEF StreamInv
  <1>13. ASSUME Len(full) < BufSize, result = size, wrbuf' = full, UNCHANGED <<connected, wire, sent>>
         PROVE Kept
    <2>1. fits = size /\ Stored(rest) = {}
      BY <1>1, <1>2, <1>3, <1>6, <1>13
    <2>2. StreamOut'
      <3>1. S!Ascending(sent)
        BY DEF StreamInv, StreamOut
      <3>2. Stored(sent') \subseteq 1..made' /\ Stored(wrbuf') \subseteq 1..made'
        BY <1>1, <1>7, <1>10, <1>13
      <3>3. /\ Len(wrbuf') < BufSize /\ S!Ascending(sent') /\ S!Ascending(wrbuf')
            /\ Before(Stored(sent'), Stored(wrbuf'))
        BY <1>7, <1>13, <3>1
      <3>4. QED
        BY <3>2, <3>3 DEF StreamOut
    <2>3. S!WriteReportExact'
      <3>1. PICK a, b : a = m + 1 /\ b = m + size
        OBVIOUS
      <3>2. b - a + 1 = size /\ a..b = (m + 1)..(m + size)
        BY <1>1, <3>1
      <3>3. a..b \subseteq Stored(sent') \cup Stored(wrbuf')
        BY <1>7, <1>11, <1>13, <2>1, <3>2
      <3>4. QED
        BY <1>1, <1>4, <1>6, <1>13, <3>1, <3>2, <3>3, StreamReport
    <2>4. QED
      BY <1>1, <1>6, <1>13, <2>2, <2>3
  <1>14. ASSUME NEW n \in 0..(BufSize - 1), Len(full) = BufSize, S!SendAll(full, n),
                result = S!Unflushed(n, k), wrbuf' = <<>>
         PROVE Kept
    <2>1. n \in Nat /\ n < Len(full) /\ n \in 0..(k + fits)
      BY <1>1, <1>2, <1>6, <1>14
    <2>2. /\ sent' \in Seq(Int) /\ S!Ascending(sent')
          /\ Stored(sent') = Stored(sent) \cup Stored(S!First(full, n))
          /\ Stored(S!First(full, n)) \cup Stored(S!Rest(full, n)) = Stored(full)
          /\ connected' \in BOOLEAN /\ wire' \in {wire, <<>>} /\ (~connected' => wire' = <<>>)
          /\ ~connected'
      BY <1>6, <1>7, <1>14, <2>1, StreamSent
    <2>3. result = (IF n >= k THEN n - k ELSE 0) /\ result < fits /\ result < size
      BY <1>1, <1>2, <1>4, <1>6, <1>14, <2>1 DEF S!Unflushed, S!MaxOf
    <2>4. ((m + 1)..(m + size)) \intersect Stored(sent') = (m + 1)..(m + result)
      <3>1. CASE n <= k
        <4>1. Stored(S!First(full, n)) = Stored(S!First(wrbuf, n))
          BY <1>1, <1>3, <2>1, <3>1, FirstJoined DEF full, k
        <4>2. Stored(S!First(wrbuf, n)) \subseteq Stored(wrbuf)
          <5>1. n \in 0..Len(wrbuf)
            BY <1>1, <2>1, <3>1 DEF k
          <5>2. QED
            BY <1>1, <5>1, Cut
        <4>3. Stored(sent') \subseteq 1..m
          BY <1>1, <2>2, <4>1, <4>2
        <4>4. result = 0
          BY <1>1, <2>1, <2>3, <3>1
        <4>5. QED
          BY <1>1, <4>3, <4>4
      <3>2. CASE ~(n <= k)
        <4>1. PICK c \in Nat : c = n - k /\ n = k + c /\ c \in 0..Len(head) /\ c <= fits
          BY <1>1, <1>2, <1>3, <2>1, <3>2
        <4>2. Stored(S!First(full, n)) = Stored(wrbuf) \cup Stored(S!First(head, c))
          <5>1. n \in 0..(Len(wrbuf) + Len(head)) /\ n = Len(wrbuf) + c
            BY <1>3, <2>1, <4>1 DEF k
          <5>2. wrbuf \in Seq(Int) /\ head \in Seq(Int) /\ c \in 0..Len(head)
            BY <1>1, <1>3, <4>1
          <5>3. Stored(S!First(wrbuf \o head, n)) = Stored(wrbuf) \cup Stored(S!First(head, c))
            BY <5>1, <5>2, FirstBeyond, SMTT(60)
          <5>4. QED
            BY <5>3 DEF full
        <4>3. S!First(head, c) = S!From(m + 1, m + c) /\ Stored(S!First(head, c)) = (m + 1)..(m + c)
          <5>1. PICK a \in Nat, b \in Nat : a = m + 1 /\ b = m + fits
            BY <1>1, <1>2
          <5>2. 1 <= a /\ c <= b - a + 1 /\ a + c - 1 = m + c
            BY <1>1, <1>2, <4>1, <5>1
          <5>3. /\ S!First(S!From(a, b), c) = S!From(a, a + c - 1)
                /\ Stored(S!First(S!From(a, b), c)) = a..(a + c - 1)
            BY <5>2, StreamCuts
          <5>4. QED
            BY <1>3, <5>1, <5>2, <5>3
        <4>4. result = c
          BY <1>1, <2>1, <2>3, <3>2, <4>1
        <4>5. Stored(sent') = Stored(sent) \cup Stored(wrbuf) \cup ((m + 1)..(m + result))
          BY <2>2, <4>2, <4>3, <4>4
        <4>6. QED
          BY <1>1, <2>3, <4>4, <4>5
      <3>3. QED
        BY <3>1, <3>2
    <2>5. StreamOut'
      <3>1. Stored(sent') \subseteq 1..made'
        BY <1>1, <1>7, <1>10, <2>2
      <3>2. QED
        BY <1>14, <2>2, <3>1, Empty DEF StreamOut, Before
    <2>6. S!WriteReportExact'
      <3>1. PICK a, b : a = m + 1 /\ b = m + size
        OBVIOUS
      <3>2. b - a + 1 = size /\ result # b - a + 1 /\ a + result - 1 = m + result
        BY <1>1, <1>4, <2>3, <3>1
      <3>3. (a..b) \intersect Stored(sent') = a..(a + result - 1)
        BY <2>4, <3>1, <3>2
      <3>4. QED
        BY <1>4, <1>14, <2>2, <3>1, <3>2, <3>3, Empty, StreamReport
    <2>7. QED
      BY <1>14, <2>2, <2>5, <2>6, Empty
  <1>15. ASSUME Len(full) = BufSize, Len(rest) < BufSize, S!SendAll(full, BufSize), result = size, wrbuf' = rest
         PROVE Kept
    <2>1. PICK n \in Nat : n = BufSize /\ n = Len(full)
      BY <1>15
    <2>2. /\ sent' \in Seq(Int) /\ S!Ascending(sent')
          /\ Stored(sent') = Stored(sent) \cup Stored(S!First(full, n))
          /\ connected' \in BOOLEAN /\ wire' \in {wire, <<>>} /\ (~connected' => wire' = <<>>)
      <3>1. S!SendAll(full, n)
        BY <1>15, <2>1
      <3>2. QED
        BY <1>6, <1>7, <3>1, StreamSent
    <2>3. Stored(S!First(full, n)) = Stored(full)
      <3>1. n \in 0..Len(full)
        BY <2>1
      <3>2. /\ Stored(S!First(full, n)) \cup Stored(S!Rest(full, n)) = Stored(full)
            /\ Stored(S!Rest(full, n)) = {}
        BY <1>6, <2>1, <3>1, Cut
      <3>3. QED
        BY <3>2
    <2>4. StreamOut'
      <3>1. Stored(sent') \subseteq 1..made' /\ Stored(wrbuf') \subseteq 1..made'
        BY <1>1, <1>7, <1>10, <1>15, <2>2, <2>3
      <3>2. Before(Stored(sent'), Stored(wrbuf'))
        BY <1>8, <1>15, <2>2, <2>3 DEF Before
      <3>3. QED
        BY <1>3, <1>15, <2>2, <3>1, <3>2 DEF StreamOut
    <2>5. S!WriteReportExact'
      <3>1. PICK a, b : a = m + 1 /\ b = m + size
        OBVIOUS
      <3>2. b - a + 1 = size /\ a..b = (m + 1)..(m + size)
        BY <1>1, <3>1
      <3>3. a..b \subseteq Stored(sent') \cup Stored(wrbuf')
        BY <1>7, <1>11, <1>15, <2>2, <2>3, <3>2
      <3>4. QED
        BY <1>3, <1>4, <1>15, <2>2, <3>1, <3>2, <3>3, StreamReport
    <2>6. QED
      BY <1>3, <1>15, <2>2, <2>4, <2>5
  <1>16. ASSUME NEW n \in 0..Len(rest), Len(full) = BufSize, S!SendAll(both, BufSize + n),
                result = fits + n, wrbuf' = <<>>
         PROVE Kept
    <2>1. PICK q \in Nat : q = BufSize + n /\ q >= Len(full) /\ q - Len(full) = n /\ q \in 0..(Len(full) + Len(rest))
      BY <1>3, <1>6, <1>16
    <2>2. /\ sent' \in Seq(Int) /\ S!Ascending(sent')
          /\ Stored(sent') = Stored(sent) \cup Stored(S!First(both, q))
          /\ connected' \in BOOLEAN /\ wire' \in {wire, <<>>} /\ (~connected' => wire' = <<>>)
          /\ q < Len(both) => ~connected'
      BY <1>9, <1>16, <2>1, StreamSent
    <2>3. Stored(S!First(both, q)) = Stored(full) \cup Stored(S!First(rest, n))
      <3>1. n \in 0..Len(rest) /\ q \in 0..(Len(full) + Len(rest)) /\ q = Len(full) + n
        BY <1>3, <1>6, <2>1
      <3>2. full \in Seq(Int) /\ rest \in Seq(Int)
        BY <1>3, <1>6
      <3>3. Stored(S!First(full \o rest, q)) = Stored(full) \cup Stored(S!First(rest, n))
        BY <3>1, <3>2, FirstBeyond
      <3>4. QED
        BY <3>3 DEF both
    <2>4. Stored(S!First(rest, n)) = (m + fits + 1)..(m + fits + n)
      <3>1. PICK a \in Nat, b \in Nat : a = m + fits + 1 /\ b = m + size
        BY <1>1, <1>2
      <3>2. n \in Nat /\ 1 <= a /\ n <= b - a + 1 /\ a + n - 1 = m + fits + n
        BY <1>1, <1>2, <1>3, <3>1
      <3>3. Stored(S!First(S!From(a, b), n)) = a..(a + n - 1)
        BY <3>2, StreamCuts
      <3>4. QED
        BY <1>3, <3>1, <3>2, <3>3
    <2>5. Stored(sent') = Stored(sent) \cup Stored(wrbuf) \cup ((m + 1)..(m + result))
      <3>1. (m + 1)..(m + fits) \cup (m + fits + 1)..(m + fits + n) = (m + 1)..(m + fits + n)
        BY <1>1, <1>2, <1>3
      <3>2. m + fits + n = m + result
        BY <1>1, <1>2, <1>3, <1>16
      <3>3. QED
        BY <1>3, <1>7, <2>2, <2>3, <2>4, <3>1, <3>2
    <2>6. result \in 0..size /\ (result # size => q < Len(both))
      BY <1>1, <1>2, <1>3, <1>4, <1>9, <1>16, <2>1
    <2>7. StreamOut'
      <3>1. Stored(sent') \subseteq 1..made'
        BY <1>1, <1>5, <2>5, <2>6
      <3>2. QED
        BY <1>16, <2>2, <3>1, Empty DEF StreamOut, Before
    <2>8. S!WriteReportExact'
      <3>1. PICK a, b : a = m + 1 /\ b = m + size
        OBVIOUS
      <3>2. b - a + 1 = size /\ a + result - 1 = m + result /\ a..b = (m + 1)..(m + size)
        BY <1>1, <2>6, <3>1
      <3>3. ((m + 1)..(m + size)) \intersect Stored(sent') = (m + 1)..(m + result)
        BY <1>1, <2>5, <2>6
      <3>4. CASE result = size
        <4>1. a..b \subseteq Stored(sent') \cup Stored(wrbuf')
          BY <3>2, <3>3, <3>4
        <4>2. QED
          BY <1>4, <1>16, <2>2, <3>1, <3>2, <3>4, <4>1, Empty, StreamReport
      <3>5. CASE result # size
        <4>1. (a..b) \intersect Stored(sent') = a..(a + result - 1)
          BY <3>1, <3>2, <3>3
        <4>2. QED
          BY <1>4, <1>16, <2>2, <2>6, <3>1, <3>2, <3>5, <4>1, Empty, StreamReport
      <3>6. QED
        BY <3>4, <3>5
    <2>9. QED
      BY <1>16, <2>2, <2>7, <2>8, Empty
  <1> HIDE DEF Kept
  <1>17. Kept
    BY <1>4, <1>13, <1>14, <1>15, <1>16
  <1>18. QED
    BY <1>12, <1>17

\* Every step
LEMMA StreamInvNext == S!StreamSocketAssumption /\ StreamInv /\ [S!Next]_socketVars => StreamInv'
  <1> SUFFICES ASSUME S!StreamSocketAssumption, StreamInv, [S!Next]_socketVars PROVE StreamInv'
    OBVIOUS
  <1>1. CASE UNCHANGED socketVars
    BY <1>1 DEF socketVars, StreamInv, StreamTypes, StreamOut, StreamIn, S!WriteReportExact,
       S!Ascending, Before, Stored
  <1>2. ASSUME NEW size \in 0..MaxSize, S!Write(size) PROVE StreamInv'
    BY <1>2, StreamWriteStep DEF S!StreamSocketAssumption
  <1>3. ASSUME NEW size \in 0..MaxSize, S!Read(size) PROVE StreamInv'
    BY <1>3, StreamReadStep DEF S!StreamSocketAssumption
  <1>4. CASE S!Next
    BY <1>2, <1>3, <1>4, StreamConnectStep, StreamFlushStep, StreamGetcStep, StreamPeerStep DEF S!Next
  <1>5. QED
    BY <1>1, <1>4

\* The invariant says what the two properties say.
LEMMA StreamInvExact == StreamInv => S!BytesInOrder /\ S!WriteReportExact
  <1> SUFFICES ASSUME StreamInv PROVE S!BytesInOrder
    BY DEF StreamInv
  <1>1. S!Ascending(sent \o wrbuf)
    BY Joined DEF StreamInv, StreamTypes, StreamOut
  <1>2. PICK q : q = got \o rdbuf
    OBVIOUS
  <1>3. q \in Seq(Int) /\ S!Ascending(q) /\ Stored(q) = Stored(got) \cup Stored(rdbuf)
    BY <1>2, Joined DEF StreamInv, StreamTypes, StreamIn
  <1>4. Before(Stored(q), Stored(wire))
    BY <1>3 DEF StreamInv, StreamIn, Before
  <1>5. S!Ascending(q \o wire)
    BY <1>3, <1>4, Joined DEF StreamInv, StreamTypes, StreamIn
  <1>6. QED
    BY <1>1, <1>2, <1>5 DEF S!BytesInOrder

-----------------------------------------------------------------------------
(* Lru                                                                     *)

\* FiniteSets as Lru sees it is FiniteSets.
LEMMA LruCard == ASSUME NEW E PROVE L!Cardinality(E) = Cardinality(E)
  BY DEF L!Cardinality, Cardinality

LruEntries == [time : Nat, key : LruKeys]
LruStamp(k, t) == [time |-> t, key |-> k]

\* A sequence of uses in the order of time, without gaps or doubles
LruSorted(s, a) ==
  /\ a \subseteq LruEntries /\ IsFiniteSet(a)
  /\ s \in [1..Cardinality(a) -> a]
  /\ \A i, j \in DOMAIN s : i < j => s[i].time < s[j].time

\* It has all of them,
LEMMA LruAll ==
  ASSUME NEW s, NEW a, LruSorted(s, a)
  PROVE /\ Cardinality(a) \in Nat /\ DOMAIN s = 1..Cardinality(a)
        /\ \A x \in a : \E i \in 1..Cardinality(a) : s[i] = x
        /\ \A i, j \in 1..Cardinality(a) : s[i] = s[j] => i = j
  <1> DEFINE n == Cardinality(a)
  <1>1. n \in Nat /\ DOMAIN s = 1..n /\ s \in [1..n -> a]
    BY FS_CardinalityType DEF LruSorted
  <1>2. \A i, j \in 1..n : i < j => s[i].time < s[j].time
    BY <1>1 DEF LruSorted
  <1>3. \A i \in 1..n : s[i].time \in Nat
    BY <1>1 DEF LruSorted, LruEntries
  <1>4. \A i, j \in 1..n : s[i] = s[j] => i = j
    <2> SUFFICES ASSUME NEW i \in 1..n, NEW j \in 1..n, s[i] = s[j], i # j PROVE FALSE
      OBVIOUS
    <2>1. i < j \/ j < i
      BY <1>1
    <2>2. QED
      BY <2>1, <1>2, <1>3
  <1>5. s \in Injection(1..n, a)
    BY <1>1, <1>4 DEF Injection, IsInjective
  <1>6. IsFiniteSet(1..n) /\ Cardinality(1..n) = n
    BY <1>1, FS_Interval
  <1>7. s \in Surjection(1..n, a)
    BY <1>5, <1>6, FS_Injection DEF LruSorted
  <1>8. QED
    BY <1>1, <1>4, <1>7 DEF Surjection

\* and so there is only one: the place of a use is how many are before it.
LEMMA LruPlace ==
  ASSUME NEW s, NEW a, LruSorted(s, a), NEW i \in 1..Cardinality(a)
  PROVE Cardinality({x \in a : x.time < s[i].time}) = i - 1
  <1> DEFINE n == Cardinality(a)
             B == {x \in a : x.time < s[i].time}
             f == [j \in 1..(i - 1) |-> s[j]]
  <1>1. n \in Nat /\ s \in [1..n -> a]
    BY LruAll DEF LruSorted
  <1>2. \A j, m \in 1..n : s[j].time \in Nat /\ (j < m => s[j].time < s[m].time)
    BY <1>1 DEF LruSorted, LruEntries
  <1>3. \A j \in 1..n : s[j].time < s[i].time => j < i
    <2> SUFFICES ASSUME NEW j \in 1..n, s[j].time < s[i].time, ~(j < i) PROVE FALSE
      OBVIOUS
    <2>1. j = i \/ i < j
      BY <1>1
    <2>2. QED
      BY <2>1, <1>2
  <1>4. f \in [1..(i - 1) -> B]
    <2>1. \A j \in 1..(i - 1) : j \in 1..n /\ j < i
      BY <1>1
    <2>2. QED
      BY <1>1, <1>2, <2>1
  <1>5. \A j, m \in 1..(i - 1) : f[j] = f[m] => j = m
    <2>1. \A j \in 1..(i - 1) : j \in 1..n
      BY <1>1
    <2>2. QED
      BY <2>1, LruAll
  <1>6. \A x \in B : \E j \in 1..(i - 1) : f[j] = x
    <2> SUFFICES ASSUME NEW x \in B PROVE \E j \in 1..(i - 1) : s[j] = x
      OBVIOUS
    <2>1. PICK j \in 1..n : s[j] = x
      BY LruAll
    <2>2. j < i
      BY <2>1, <1>3
    <2>3. j \in 1..(i - 1)
      BY <1>1, <2>2
    <2>4. QED
      BY <2>1, <2>3
  <1>7. f \in Bijection(1..(i - 1), B)
    BY <1>4, <1>5, <1>6 DEF Bijection, Injection, IsInjective, Surjection
  <1>8. ExistsBijection(1..(i - 1), B)
    BY <1>7 DEF ExistsBijection
  <1>9. IsFiniteSet(1..(i - 1)) /\ Cardinality(1..(i - 1)) = i - 1
    <2>1. i \in Int /\ i - 1 \in Int /\ 1 \in Int /\ i - 1 >= 0
      BY <1>1
    <2>2. Cardinality(1..(i - 1)) = IF 1 > i - 1 THEN 0 ELSE (i - 1) - 1 + 1
      BY <2>1, FS_Interval
    <2>3. QED
      BY <2>1, <2>2, FS_Interval
  <1>10. QED
    BY <1>8, <1>9, FS_Bijection

LEMMA LruInOrder ==
  ASSUME NEW s, NEW a, LruSorted(s, a)
  PROVE L!InOrder(a) = s
  <1> DEFINE t == L!InOrder(a)
             n == Cardinality(a)
  <1>1. LruSorted(t, a)
    <2>1. L!Cardinality(a) = n
      BY LruCard
    <2>2. t \in [1..n -> a] /\ \A i, j \in DOMAIN t : i < j => t[i].time < t[j].time
      BY <2>1 DEF LruSorted, L!InOrder
    <2>3. QED
      BY <2>2 DEF LruSorted
  <1> HIDE DEF t
  <1>2. n \in Nat /\ DOMAIN s = 1..n /\ DOMAIN t = 1..n /\ s \in [1..n -> a] /\ t \in [1..n -> a]
    BY <1>1, LruAll DEF LruSorted
  <1>3. ASSUME NEW i \in 1..n PROVE s[i] = t[i]
    <2>1. PICK j \in 1..n : s[i] = t[j]
      BY <1>1, <1>2, LruAll
    <2>2. /\ Cardinality({x \in a : x.time < s[i].time}) = i - 1
          /\ Cardinality({x \in a : x.time < t[j].time}) = j - 1
      BY <1>1, LruPlace
    <2>3. i = j
      BY <2>1, <2>2, <1>2
    <2>4. QED
      BY <2>1, <2>3
  <1>4. QED
    BY <1>2, <1>3 DEF t

\* Taking out the place i
LEMMA LruCut ==
  ASSUME NEW E, NEW s \in Seq(E), NEW i \in 1..Len(s)
  PROVE LET u == L!R!RemoveAt(s, i) IN
        /\ u \in Seq(E) /\ Len(u) = Len(s) - 1 /\ DOMAIN u = 1..(Len(s) - 1)
        /\ \A j \in 1..(Len(s) - 1) : u[j] = IF j < i THEN s[j] ELSE s[j + 1]
  <1> DEFINE p == SubSeq(s, 1, i - 1)
             q == SubSeq(s, i + 1, Len(s))
  <1>1. /\ p \in Seq(E) /\ Len(p) = i - 1 /\ \A j \in 1..(i - 1) : p[j] = s[j]
        /\ q \in Seq(E) /\ Len(q) = Len(s) - i /\ \A j \in 1..(Len(s) - i) : q[j] = s[j + i]
    OBVIOUS
  <1> HIDE DEF p, q
  <1>2. /\ p \o q \in Seq(E) /\ Len(p \o q) = Len(s) - 1
        /\ \A j \in 1..(Len(s) - 1) : (p \o q)[j] = IF j < i THEN p[j] ELSE q[j - (i - 1)]
    <2>1. p \o q \in Seq(E) /\ Len(p \o q) = Len(p) + Len(q)
      <3>1. p \in Seq(E) /\ q \in Seq(E)
        BY <1>1
      <3>2. QED
        BY <3>1
    <2>2. \A j \in 1..(Len(p) + Len(q)) : (p \o q)[j] = IF j <= Len(p) THEN p[j] ELSE q[j - Len(p)]
      BY <1>1
    <2>3. Len(s) \in Nat /\ Len(p) + Len(q) = Len(s) - 1
      BY <1>1
    <2>4. ASSUME NEW j \in 1..(Len(s) - 1) PROVE (p \o q)[j] = IF j < i THEN p[j] ELSE q[j - (i - 1)]
      <3>1. j <= Len(p) <=> j < i
        BY <1>1, <2>3
      <3>2. QED
        BY <1>1, <2>2, <2>3, <3>1
    <2>5. QED
      BY <2>1, <2>3, <2>4
  <1>3. \A j \in 1..(Len(s) - 1) : (p \o q)[j] = IF j < i THEN s[j] ELSE s[j + 1]
    BY <1>1, <1>2
  <1>4. DOMAIN (p \o q) = 1..(Len(s) - 1)
    BY <1>2
  <1>5. QED
    BY <1>2, <1>3, <1>4 DEF L!R!RemoveAt, p, q

\* A cache c with the index a, before the time n
LruAgree(c, a, n) ==
  /\ n \in Nat /\ IsFiniteSet(DOMAIN c) /\ DOMAIN c \subseteq LruKeys
  /\ c \in [DOMAIN c -> [val : LruValues, time : Nat]]
  /\ \A k \in DOMAIN c : LruStamp(k, c[k].time) \in a
  /\ \A x \in a : x.key \in DOMAIN c /\ c[x.key].time = x.time /\ x.time < n
  /\ Cardinality(a) = Cardinality(DOMAIN c)

LruWithout(c, k) == [x \in DOMAIN c \ {k} |-> c[x]]

LruWith(c, k, e) == [x \in DOMAIN c \cup {k} |-> IF x = k THEN e ELSE c[x]]

\* An entry less
LEMMA LruDrop ==
  ASSUME NEW c, NEW a, NEW n, NEW s, LruAgree(c, a, n), LruSorted(s, a), NEW k \in DOMAIN c
  PROVE /\ LruAgree(LruWithout(c, k), a \ {LruStamp(k, c[k].time)}, n)
        /\ \E i \in DOMAIN s : s[i] = LruStamp(k, c[k].time)
        /\ \A i \in DOMAIN s : s[i] = LruStamp(k, c[k].time) =>
             LruSorted(L!R!RemoveAt(s, i), a \ {LruStamp(k, c[k].time)})
  <1> DEFINE e == LruStamp(k, c[k].time)
             d == LruWithout(c, k)
             b == a \ {e}
             m == Cardinality(a)
  <1>1. e \in a /\ e.key = k /\ e.time = c[k].time
    BY DEF LruAgree, LruStamp
  <1>2. \A x \in a : x.key = k => x = e
    BY DEF LruAgree, LruSorted, LruEntries, LruStamp
  <1>3. /\ IsFiniteSet(DOMAIN c \ {k}) /\ Cardinality(DOMAIN c \ {k}) = Cardinality(DOMAIN c) - 1
        /\ IsFiniteSet(b) /\ Cardinality(b) = m - 1
    BY <1>1, FS_RemoveElement DEF LruAgree, LruSorted
  <1>4. DOMAIN d = DOMAIN c \ {k} /\ \A x \in DOMAIN d : d[x] = c[x]
    BY DEF LruWithout
  <1> HIDE DEF d
  <1>5. LruAgree(d, b, n)
    <2>1. d \in [DOMAIN d -> [val : LruValues, time : Nat]]
      BY <1>4 DEF LruAgree, LruWithout, d
    <2>2. \A x \in DOMAIN d : LruStamp(x, d[x].time) \in b
      BY <1>1, <1>4 DEF LruAgree, LruStamp
    <2>3. \A x \in b : x.key \in DOMAIN d /\ d[x.key].time = x.time /\ x.time < n
      BY <1>2, <1>4 DEF LruAgree
    <2>4. QED
      BY <1>3, <1>4, <2>1, <2>2, <2>3 DEF LruAgree
  <1>6. m \in Nat /\ DOMAIN s = 1..m /\ s \in [1..m -> a] /\ s \in Seq(a) /\ Len(s) = m
    <2>1. m \in Nat /\ DOMAIN s = 1..m /\ s \in [1..m -> a]
      BY LruAll DEF LruSorted
    <2>2. s \in Seq(a)
      BY <2>1
    <2>3. QED
      BY <2>1, <2>2
  <1>7. \E i \in DOMAIN s : s[i] = e
    BY <1>1, <1>6, LruAll
  <1>8. ASSUME NEW i \in DOMAIN s, s[i] = e PROVE LruSorted(L!R!RemoveAt(s, i), b)
    <2> DEFINE u == L!R!RemoveAt(s, i)
    <2>1. DOMAIN u = 1..(m - 1) /\ \A j \in 1..(m - 1) : u[j] = (IF j < i THEN s[j] ELSE s[j + 1])
      BY <1>6, LruCut
    <2>2. u \in Seq(a)
      BY <1>6, LruCut
    <2> HIDE DEF u
    <2>3. \A j \in 1..(m - 1) : u[j] \in b
      <3> TAKE j \in 1..(m - 1)
      <3> DEFINE h == IF j < i THEN j ELSE j + 1
      <3>1. h \in 1..m /\ h # i /\ u[j] = s[h]
        BY <1>6, <2>1
      <3>2. QED
        BY <3>1, <1>6, <1>8, LruAll
    <2>4. u \in [1..(m - 1) -> b]
      BY <2>1, <2>2, <2>3
    <2>5. ASSUME NEW j \in 1..(m - 1), NEW l \in 1..(m - 1), j < l PROVE u[j].time < u[l].time
      <3> DEFINE g == IF j < i THEN j ELSE j + 1
                 h == IF l < i THEN l ELSE l + 1
      <3>1. g \in 1..m /\ h \in 1..m /\ g < h /\ u[j] = s[g] /\ u[l] = s[h]
        BY <1>6, <2>1, <2>5
      <3>2. QED
        BY <3>1, <1>6 DEF LruSorted
    <2>6. b \subseteq LruEntries
      BY DEF LruSorted
    <2>7. LruSorted(u, b)
      BY <1>3, <2>1, <2>4, <2>5, <2>6 DEF LruSorted
    <2>8. QED
      BY <2>7 DEF u
  <1>9. QED
    BY <1>5, <1>7, <1>8 DEF d

\* An entry more, of the latest time
LEMMA LruAdd ==
  ASSUME NEW c, NEW a, NEW n, NEW s, LruAgree(c, a, n), LruSorted(s, a),
         NEW k \in LruKeys \ DOMAIN c, NEW value \in LruValues
  PROVE /\ LruAgree(LruWith(c, k, [val |-> value, time |-> n]), a \cup {LruStamp(k, n)}, n + 1)
        /\ LruSorted(Append(s, LruStamp(k, n)), a \cup {LruStamp(k, n)})
  <1> DEFINE e == LruStamp(k, n)
             w == [val |-> value, time |-> n]
             d == LruWith(c, k, w)
             b == a \cup {e}
             m == Cardinality(a)
  <1>1. e.key = k /\ e.time = n /\ e \in LruEntries /\ e \notin a /\ w.time = n
    BY DEF LruAgree, LruStamp, LruEntries
  <1>2. /\ IsFiniteSet(DOMAIN c \cup {k}) /\ Cardinality(DOMAIN c \cup {k}) = Cardinality(DOMAIN c) + 1
        /\ IsFiniteSet(b) /\ Cardinality(b) = m + 1
    BY <1>1, FS_AddElement DEF LruAgree, LruSorted
  <1>3. DOMAIN d = DOMAIN c \cup {k} /\ d[k] = w /\ \A x \in DOMAIN c : d[x] = c[x]
    BY DEF LruWith
  <1>4. d \in [DOMAIN d -> [val : LruValues, time : Nat]]
    BY <1>3 DEF LruWith, LruAgree
  <1>5. n \in Nat /\ n + 1 \in Nat /\ \A t \in Nat : t < n => t < n + 1
    BY DEF LruAgree
  <1> HIDE DEF d, w
  <1>6. LruAgree(d, b, n + 1)
    <2>1. \A x \in DOMAIN d : LruStamp(x, d[x].time) \in b
      BY <1>1, <1>3 DEF LruAgree
    <2>2. \A x \in b : x.key \in DOMAIN d /\ d[x.key].time = x.time /\ x.time < n + 1
      <3>1. \A x \in a : x.key \in DOMAIN c /\ c[x.key].time = x.time /\ x.time \in Nat /\ x.time < n
        BY DEF LruAgree, LruSorted, LruEntries
      <3>2. QED
        BY <1>1, <1>3, <1>5, <3>1
    <2>3. QED
      BY <1>2, <1>3, <1>4, <1>5, <2>1, <2>2 DEF LruAgree
  <1>7. m \in Nat /\ DOMAIN s = 1..m /\ s \in [1..m -> a] /\ s \in Seq(a) /\ Len(s) = m
    <2>1. m \in Nat /\ DOMAIN s = 1..m /\ s \in [1..m -> a]
      BY LruAll DEF LruSorted
    <2>2. s \in Seq(a)
      BY <2>1
    <2>3. QED
      BY <2>1, <2>2
  <1> DEFINE u == Append(s, e)
  <1>8. DOMAIN u = 1..(m + 1) /\ u[m + 1] = e /\ \A j \in 1..m : u[j] = s[j]
    BY <1>7
  <1>9. u \in Seq(b)
    BY <1>7
  <1> HIDE DEF u
  <1>10. LruSorted(u, b)
    <2>1. u \in [1..(m + 1) -> b]
      <3>1. \A j \in 1..(m + 1) : j = m + 1 \/ j \in 1..m
        BY <1>7
      <3>2. \A j \in 1..(m + 1) : u[j] \in b
        BY <1>7, <1>8, <3>1
      <3>3. QED
        BY <1>8, <1>9, <3>2
    <2>2. ASSUME NEW j \in 1..(m + 1), NEW l \in 1..(m + 1), j < l PROVE u[j].time < u[l].time
      <3>1. j \in 1..m
        BY <1>7, <2>2
      <3>2. CASE l = m + 1
        <4>1. s[j] \in a
          BY <1>7, <3>1
        <4>2. QED
          BY <1>1, <1>8, <3>1, <3>2, <4>1 DEF LruAgree
      <3>3. CASE l # m + 1
        <4>1. l \in 1..m
          BY <1>7, <3>3
        <4>2. QED
          BY <1>7, <1>8, <2>2, <3>1, <4>1 DEF LruSorted
      <3>4. QED
        BY <3>2, <3>3
    <2>3. b \subseteq LruEntries
      BY <1>1 DEF LruSorted
    <2>4. QED
      BY <1>2, <1>8, <2>1, <2>2, <2>3 DEF LruSorted
  <1>11. QED
    BY <1>6, <1>10 DEF d, u, w

\* The keys in the order of their uses
LEMMA LruKeysOf ==
  ASSUME NEW c, NEW a, NEW n, NEW s, LruAgree(c, a, n), LruSorted(s, a)
  PROVE LET o == L!KeysOf(s) IN
        /\ Cardinality(DOMAIN c) \in Nat /\ o \in Seq(LruKeys) /\ Len(o) = Cardinality(DOMAIN c)
        /\ DOMAIN o = 1..Len(o) /\ DOMAIN s = 1..Len(o) /\ s \in Seq(LruEntries) /\ Len(s) = Len(o)
        /\ \A i \in DOMAIN o : o[i] = s[i].key
        /\ L!R!ToSet(o) = DOMAIN c
        /\ \A k : L!R!Contains(o, k) <=> k \in DOMAIN c
  <1> DEFINE o == L!KeysOf(s)
             m == Cardinality(DOMAIN c)
  <1>1. m \in Nat /\ DOMAIN s = 1..m /\ s \in [1..m -> a]
    BY LruAll DEF LruAgree, LruSorted
  <1>2. \A i \in 1..m : s[i] \in LruEntries /\ s[i].key \in LruKeys /\ s[i].key \in DOMAIN c
    BY <1>1 DEF LruAgree, LruSorted, LruEntries
  <1>3. DOMAIN o = 1..m /\ \A i \in 1..m : o[i] = s[i].key
    BY <1>1 DEF L!KeysOf
  <1>4. o \in [1..m -> LruKeys] /\ s \in [1..m -> LruEntries]
    BY <1>1, <1>2 DEF L!KeysOf
  <1> HIDE DEF o
  <1>5. o \in Seq(LruKeys) /\ s \in Seq(LruEntries)
    BY <1>1, <1>4
  <1>6. Len(o) = m /\ Len(s) = m
    BY <1>1, <1>3, <1>5
  <1>7. \A k \in DOMAIN c : \E i \in 1..m : o[i] = k
    <2> TAKE k \in DOMAIN c
    <2>1. LruStamp(k, c[k].time) \in a /\ LruStamp(k, c[k].time).key = k
      BY DEF LruAgree, LruStamp
    <2>2. PICK i \in 1..Cardinality(a) : s[i] = LruStamp(k, c[k].time)
      BY <2>1, LruAll
    <2>3. QED
      BY <1>3, <2>1, <2>2 DEF LruAgree
  <1>8. L!R!ToSet(o) = DOMAIN c
    <2>1. L!R!ToSet(o) = {o[i] : i \in 1..m}
      BY <1>3 DEF L!R!ToSet
    <2>2. \A i \in 1..m : o[i] \in DOMAIN c
      BY <1>2, <1>3
    <2>3. QED
      BY <1>7, <2>1, <2>2
  <1>9. \A k : L!R!Contains(o, k) <=> k \in DOMAIN c
    BY <1>2, <1>3, <1>6, <1>7 DEF L!R!Contains
  <1>10. QED
    BY <1>1, <1>3, <1>5, <1>6, <1>8, <1>9 DEF o

LEMMA LruKeysCut ==
  ASSUME NEW s \in Seq(LruEntries), NEW i \in 1..Len(s)
  PROVE L!KeysOf(L!R!RemoveAt(s, i)) = L!R!RemoveAt(L!KeysOf(s), i)
  <1> DEFINE o == L!KeysOf(s)
             u == L!R!RemoveAt(s, i)
             w == L!R!RemoveAt(o, i)
             m == Len(s)
  <1>1. m \in Nat /\ DOMAIN s = 1..m /\ s \in [1..m -> LruEntries]
    OBVIOUS
  <1>2. DOMAIN o = 1..m /\ \A j \in 1..m : o[j] = s[j].key
    BY <1>1 DEF L!KeysOf
  <1>3. o \in [1..m -> LruKeys]
    BY <1>1 DEF L!KeysOf, LruEntries
  <1> HIDE DEF o
  <1>4. o \in Seq(LruKeys) /\ Len(o) = m
    <2>1. o \in Seq(LruKeys)
      BY <1>1, <1>3
    <2>2. QED
      BY <1>1, <1>2, <2>1
  <1>5. /\ DOMAIN u = 1..(m - 1)
        /\ \A j \in 1..(m - 1) : u[j] = IF j < i THEN s[j] ELSE s[j + 1]
    BY LruCut
  <1>6. /\ w \in Seq(LruKeys) /\ DOMAIN w = 1..(m - 1)
        /\ \A j \in 1..(m - 1) : w[j] = IF j < i THEN o[j] ELSE o[j + 1]
    BY <1>4, LruCut
  <1> HIDE DEF u, w
  <1>7. L!KeysOf(u) = [j \in 1..(m - 1) |-> u[j].key]
    BY <1>5 DEF L!KeysOf
  <1>8. w = [j \in 1..(m - 1) |-> w[j]]
    BY <1>6
  <1>9. \A j \in 1..(m - 1) : w[j] = u[j].key
    <2> TAKE j \in 1..(m - 1)
    <2>1. j \in 1..m /\ j + 1 \in 1..m
      BY <1>1
    <2>2. QED
      BY <1>2, <1>5, <1>6, <2>1
  <1>10. QED
    BY <1>7, <1>8, <1>9 DEF o, u, w

LEMMA LruKeysAppend ==
  ASSUME NEW s \in Seq(LruEntries), NEW e \in LruEntries
  PROVE L!KeysOf(Append(s, e)) = Append(L!KeysOf(s), e.key)
  <1> DEFINE o == L!KeysOf(s)
             u == Append(s, e)
             w == Append(o, e.key)
             m == Len(s)
  <1>1. m \in Nat /\ DOMAIN s = 1..m /\ s \in [1..m -> LruEntries]
    OBVIOUS
  <1>2. DOMAIN o = 1..m /\ \A j \in 1..m : o[j] = s[j].key
    BY <1>1 DEF L!KeysOf
  <1>3. o \in [1..m -> LruKeys]
    BY <1>1 DEF L!KeysOf, LruEntries
  <1> HIDE DEF o
  <1>4. o \in Seq(LruKeys) /\ Len(o) = m
    <2>1. o \in Seq(LruKeys)
      BY <1>1, <1>3
    <2>2. QED
      BY <1>1, <1>2, <2>1
  <1>5. DOMAIN u = 1..(m + 1) /\ u[m + 1] = e /\ \A j \in 1..m : u[j] = s[j]
    BY <1>1
  <1>6. e.key \in LruKeys
    BY DEF LruEntries
  <1>7. w \in Seq(LruKeys) /\ DOMAIN w = 1..(m + 1) /\ w[m + 1] = e.key /\ \A j \in 1..m : w[j] = o[j]
    BY <1>4, <1>6
  <1> HIDE DEF u, w
  <1>8. L!KeysOf(u) = [j \in 1..(m + 1) |-> u[j].key]
    BY <1>5 DEF L!KeysOf
  <1>9. w = [j \in 1..(m + 1) |-> w[j]]
    BY <1>7
  <1>10. \A j \in 1..(m + 1) : w[j] = u[j].key
    <2> TAKE j \in 1..(m + 1)
    <2>1. j = m + 1 \/ j \in 1..m
      BY <1>1
    <2>2. QED
      BY <1>2, <1>5, <1>7, <2>1
  <1>11. QED
    BY <1>8, <1>9, <1>10 DEF o, u, w

\* The inductive invariant: the index agrees with the map and can be put in order, and the
\* bound holds.
LruInv ==
  /\ LruAgree(cache, access_time, cur)
  /\ LruSorted(L!InOrder(access_time), access_time)
  /\ Cardinality(DOMAIN cache) <= LruSize

\* The variables of RecencyList
LruOrder == L!KeysOf(L!InOrder(access_time))
LruVals == L!ValuesOf(cache)

\* What a step leaves is in order too, in the only way there is.
LEMMA LruOrdered ==
  ASSUME NEW s, LruSorted(s, access_time')
  PROVE L!InOrder(access_time)' = s /\ LruSorted(L!InOrder(access_time), access_time)'
  BY LruInOrder

LEMMA LruUnchanged ==
  ASSUME UNCHANGED lruVars, LruInv
  PROVE LruInv' /\ UNCHANGED <<LruOrder, LruVals>>
  BY DEF lruVars, LruInv, LruOrder, LruVals

\* A use of a key that is there puts it at the end of the order.
LEMMA LruUsed ==
  ASSUME LruInv, NEW k \in DOMAIN cache, NEW value \in LruValues,
         access_time' = L!Touched(k), cache' = [cache EXCEPT ![k] = [val |-> value, time |-> cur]],
         cur' = cur + 1
  PROVE /\ LruInv'
        /\ \E i \in DOMAIN LruOrder :
             LruOrder[i] = k /\ LruOrder' = Append(L!R!RemoveAt(LruOrder, i), k)
        /\ LruVals' = [LruVals EXCEPT ![k] = value]
  <1> DEFINE s == L!InOrder(access_time)
             e == LruStamp(k, cache[k].time)
             f == LruStamp(k, cur)
             w == [val |-> value, time |-> cur]
             d == LruWithout(cache, k)
             b == access_time \ {e}
  <1>1. /\ LruAgree(cache, access_time, cur) /\ LruSorted(s, access_time)
        /\ Cardinality(DOMAIN cache) <= LruSize
    BY DEF LruInv
  <1> HIDE DEF s
  <1>2. k \in LruKeys /\ DOMAIN cache' = DOMAIN cache /\ cur \in Nat
    BY <1>1 DEF LruAgree
  <1>3. PICK i \in DOMAIN s : s[i] = e /\ LruSorted(L!R!RemoveAt(s, i), b)
    BY <1>1, LruDrop
  <1> DEFINE r == L!R!RemoveAt(s, i)
             u == Append(r, f)
  <1>4. LruAgree(d, b, cur)
    BY <1>1, LruDrop
  <1>5. k \in LruKeys \ DOMAIN d
    BY <1>2 DEF LruWithout
  <1>6. LruAgree(LruWith(d, k, w), b \cup {f}, cur + 1) /\ LruSorted(u, b \cup {f})
    BY <1>3, <1>4, <1>5, LruAdd
  <1>7. access_time' = b \cup {f}
    BY DEF L!Touched, LruStamp
  <1>8. cache' = LruWith(d, k, w)
    BY DEF LruWith, LruWithout
  <1>9. L!InOrder(access_time)' = u /\ LruSorted(L!InOrder(access_time), access_time)'
    BY <1>6, <1>7, LruOrdered
  <1>10. LruInv'
    BY <1>1, <1>2, <1>6, <1>7, <1>8, <1>9 DEF LruInv
  <1>11. /\ s \in Seq(LruEntries) /\ DOMAIN s = 1..Len(s) /\ DOMAIN LruOrder = DOMAIN s
         /\ \A j \in DOMAIN s : LruOrder[j] = s[j].key
    BY <1>1, LruKeysOf DEF LruOrder, s
  <1>12. r \in Seq(LruEntries)
    BY <1>11, LruCut
  <1>13. f \in LruEntries /\ f.key = k /\ e.key = k
    BY <1>2 DEF LruStamp, LruEntries
  <1>14. LruOrder' = Append(L!R!RemoveAt(LruOrder, i), k)
    <2>1. LruOrder' = L!KeysOf(u)
      BY <1>9 DEF LruOrder
    <2>2. L!KeysOf(u) = Append(L!KeysOf(r), k)
      BY <1>12, <1>13, LruKeysAppend
    <2>3. L!KeysOf(r) = L!R!RemoveAt(LruOrder, i)
      BY <1>11, LruKeysCut DEF LruOrder, s
    <2>4. QED
      BY <2>1, <2>2, <2>3
  <1>15. i \in DOMAIN LruOrder /\ LruOrder[i] = k
    BY <1>3, <1>11, <1>13
  <1>16. LruVals' = [LruVals EXCEPT ![k] = value]
    BY <1>2 DEF LruVals, L!ValuesOf
  <1>17. QED
    BY <1>10, <1>14, <1>15, <1>16

\* set() throws out the first of the order when there is no room, and otherwise nothing.
LEMMA LruEvicts ==
  ASSUME L!LruAssumption, LruInv
  PROVE L!Evicted = IF Cardinality(DOMAIN cache) = LruSize
                      THEN {L!InOrder(access_time)[1]} ELSE {}
  <1> DEFINE s == L!InOrder(access_time)
             n == Cardinality(DOMAIN cache)
             Goes(out) == /\ Cardinality(out) = IF n = LruSize THEN 1 ELSE 0
                          /\ \A x \in out, y \in access_time \ out : x.time < y.time
             first == IF n = LruSize THEN {s[1]} ELSE {}
  <1>1. LruAgree(cache, access_time, cur) /\ LruSorted(s, access_time) /\ n <= LruSize
    BY DEF LruInv
  <1>2. n \in Nat /\ LruSize \in Nat \ {0} /\ n = Cardinality(access_time) /\ IsFiniteSet(access_time)
    BY <1>1, FS_CardinalityType DEF LruAgree, LruSorted, L!LruAssumption
  <1>3. L!Max({0, n - LruSize + 1}) = IF n = LruSize THEN 1 ELSE 0
    <2>1. CASE n = LruSize
      <3>1. {0, n - LruSize + 1} = {0, 1}
        BY <1>2, <2>1
      <3>2. \A x \in {0, 1} : (\A y \in {0, 1} : x >= y) <=> x = 1
        OBVIOUS
      <3>3. QED
        BY <2>1, <3>1, <3>2 DEF L!Max
    <2>2. CASE n # LruSize
      <3> DEFINE z == n - LruSize + 1
      <3>1. z \in Int /\ z <= 0
        BY <1>1, <1>2, <2>2
      <3> HIDE DEF z
      <3>2. \A x \in {0, z} : (\A y \in {0, z} : x >= y) <=> x = 0
        BY <3>1
      <3>3. L!Max({0, z}) = 0
        BY <3>2 DEF L!Max
      <3>4. QED
        BY <2>2, <3>3 DEF z
    <2>3. QED
      BY <2>1, <2>2
  <1>4. L!Evicted = CHOOSE out \in SUBSET access_time : Goes(out)
    BY <1>3, LruCard DEF L!Evicted
  <1>5. first \in SUBSET access_time /\ Goes(first)
    <2>1. CASE n = LruSize
      <3>1. 1 \in 1..n /\ s \in [1..n -> access_time]
        BY <1>1, <1>2, <2>1 DEF LruSorted
      <3>2. Cardinality({s[1]}) = 1
        BY FS_Singleton
      <3>3. ASSUME NEW y \in access_time \ {s[1]} PROVE s[1].time < y.time
        <4>1. PICK i \in 1..n : s[i] = y
          BY <1>1, <1>2, LruAll
        <4>2. 1 < i /\ 1 \in DOMAIN s /\ i \in DOMAIN s
          BY <1>2, <3>1, <3>3, <4>1
        <4>3. QED
          BY <1>1, <4>1, <4>2 DEF LruSorted
      <3>4. QED
        BY <2>1, <3>1, <3>2, <3>3
    <2>2. CASE n # LruSize
      BY <2>2, FS_EmptySet
    <2>3. QED
      BY <2>1, <2>2
  <1>6. ASSUME NEW out \in SUBSET access_time, Goes(out) PROVE out = first
    <2>1. IsFiniteSet(out)
      BY <1>2, FS_Subset
    <2>2. CASE n = LruSize
      <3>1. PICK x : out = {x}
        BY <1>6, <2>1, <2>2, FS_Singleton
      <3>2. s[1] \in access_time /\ s[1].time \in Nat /\ x \in access_time /\ x.time \in Nat
        BY <1>2, <1>5, <1>1, <2>2, <3>1 DEF LruSorted, LruEntries
      <3>3. x = s[1]
        <4> SUFFICES ASSUME x # s[1] PROVE FALSE
          OBVIOUS
        <4>1. x.time < s[1].time
          BY <1>6, <3>1, <3>2
        <4>2. s[1].time < x.time
          BY <1>5, <2>2, <3>2
        <4>3. QED
          BY <3>2, <4>1, <4>2
      <3>4. QED
        BY <2>2, <3>1, <3>3
    <2>3. CASE n # LruSize
      BY <1>6, <2>1, <2>3, FS_EmptySet
    <2>4. QED
      BY <2>2, <2>3
  <1> HIDE DEF Goes, first
  <1>7. L!Evicted = first
    BY <1>4, <1>5, <1>6
  <1>8. QED
    BY <1>7 DEF first

\* An empty cache
LEMMA LruNothing ==
  ASSUME L!LruAssumption, access_time' = {}, cache' = <<>>, cur' \in Nat
  PROVE LruInv' /\ LruOrder' = <<>> /\ LruVals' = <<>>
  <1>1. DOMAIN cache' = {} /\ IsFiniteSet({}) /\ Cardinality({}) = 0
    BY FS_EmptySet
  <1>2. LruAgree(cache', access_time', cur')
    BY <1>1 DEF LruAgree
  <1>3. LruSorted(<<>>, access_time')
    BY <1>1 DEF LruSorted
  <1>4. L!InOrder(access_time)' = <<>> /\ LruSorted(L!InOrder(access_time), access_time)'
    BY <1>3, LruOrdered
  <1>5. Cardinality(DOMAIN cache') <= LruSize
    BY <1>1 DEF L!LruAssumption
  <1>6. LruInv'
    BY <1>2, <1>4, <1>5 DEF LruInv
  <1>7. LruOrder' = <<>>
    BY <1>4 DEF LruOrder, L!KeysOf
  <1>8. LruVals' = <<>>
    BY <1>1 DEF LruVals, L!ValuesOf
  <1>9. QED
    BY <1>6, <1>7, <1>8

\* A key that leaves
LEMMA LruLeft ==
  ASSUME L!LruAssumption, LruInv, NEW k \in DOMAIN cache,
         access_time' = access_time \ {LruStamp(k, cache[k].time)},
         cache' = LruWithout(cache, k), cur' = cur
  PROVE /\ LruInv'
        /\ \E i \in DOMAIN LruOrder : LruOrder[i] = k /\ LruOrder' = L!R!RemoveAt(LruOrder, i)
        /\ LruVals' = [x \in L!R!ToSet(LruOrder') |-> LruVals[x]]
  <1> DEFINE s == L!InOrder(access_time)
             e == LruStamp(k, cache[k].time)
  <1>1. /\ LruAgree(cache, access_time, cur) /\ LruSorted(s, access_time)
        /\ Cardinality(DOMAIN cache) <= LruSize /\ IsFiniteSet(DOMAIN cache)
    BY DEF LruInv, LruAgree
  <1> HIDE DEF s
  <1>2. PICK i \in DOMAIN s : s[i] = e /\ LruSorted(L!R!RemoveAt(s, i), access_time \ {e})
    BY <1>1, LruDrop
  <1> DEFINE r == L!R!RemoveAt(s, i)
  <1>3. L!InOrder(access_time)' = r /\ LruSorted(L!InOrder(access_time), access_time)'
    BY <1>2, LruOrdered
  <1>4. LruAgree(cache, access_time, cur)'
    BY <1>1, LruDrop
  <1>5. DOMAIN cache' = DOMAIN cache \ {k} /\ \A x \in DOMAIN cache' : cache'[x] = cache[x]
    BY DEF LruWithout
  <1>6. Cardinality(DOMAIN cache') <= LruSize
    <2>1. Cardinality(DOMAIN cache') = Cardinality(DOMAIN cache) - 1
      BY <1>1, <1>5, FS_RemoveElement
    <2>2. Cardinality(DOMAIN cache) \in Nat /\ LruSize \in Nat
      BY <1>1, FS_CardinalityType DEF L!LruAssumption
    <2>3. QED
      BY <1>1, <2>1, <2>2
  <1>7. LruInv'
    BY <1>3, <1>4, <1>6 DEF LruInv
  <1>8. /\ s \in Seq(LruEntries) /\ DOMAIN s = 1..Len(s) /\ DOMAIN LruOrder = DOMAIN s
        /\ \A j \in DOMAIN s : LruOrder[j] = s[j].key
    BY <1>1, LruKeysOf DEF LruOrder, s
  <1>9. LruOrder' = L!R!RemoveAt(LruOrder, i)
    <2>1. LruOrder' = L!KeysOf(r)
      BY <1>3 DEF LruOrder
    <2>2. QED
      BY <2>1, <1>8, LruKeysCut DEF LruOrder, s
  <1>10. LruOrder[i] = k /\ i \in DOMAIN LruOrder
    BY <1>2, <1>8 DEF LruStamp
  <1>11. L!R!ToSet(LruOrder') = DOMAIN cache'
    <2>1. LruAgree(cache', access_time', cur') /\ LruSorted(L!InOrder(access_time'), access_time')
      BY <1>7 DEF LruInv
    <2>2. L!R!ToSet(L!KeysOf(L!InOrder(access_time'))) = DOMAIN cache'
      BY <2>1, LruKeysOf
    <2>3. QED
      BY <2>2 DEF LruOrder
  <1>12. LruVals' = [x \in DOMAIN cache' |-> LruVals[x]]
    BY <1>5 DEF LruVals, L!ValuesOf
  <1>13. QED
    BY <1>7, <1>9, <1>10, <1>11, <1>12

\* A key that comes in: after the others, or after all but the first.
LEMMA LruEntered ==
  ASSUME L!LruAssumption, LruInv, NEW k \in LruKeys, NEW value \in LruValues, L!Set(k, value)
  PROVE LruInv' /\ L!R!Enter(k, value)
  <1> DEFINE s == L!InOrder(access_time)
             n == Cardinality(DOMAIN cache)
             w == [val |-> value, time |-> cur]
             f == LruStamp(k, cur)
             out == L!Evicted
             gone == {x.key : x \in out}
             rest == [x \in DOMAIN cache \ gone |-> cache[x]]
             left == access_time \ out
             order == IF n = LruSize THEN L!R!RemoveAt(s, 1) ELSE s
  <1>1. LruAgree(cache, access_time, cur) /\ LruSorted(s, access_time) /\ n <= LruSize
    BY DEF LruInv
  <1>2. /\ k \notin DOMAIN cache /\ cur' = cur + 1 /\ access_time' = left \cup {f}
        /\ cache' = [x \in (DOMAIN cache \ gone) \cup {k} |-> IF x = k THEN w ELSE cache[x]]
    BY DEF L!Set, L!Has, LruStamp
  <1>3. /\ n \in Nat /\ LruSize \in Nat \ {0} /\ DOMAIN s = 1..n /\ s \in Seq(LruEntries) /\ Len(s) = n
        /\ LruOrder \in Seq(LruKeys) /\ Len(LruOrder) = n /\ DOMAIN LruOrder = 1..n
        /\ L!R!ToSet(LruOrder) = DOMAIN cache /\ ~L!R!Contains(LruOrder, k)
    BY <1>1, <1>2, LruKeysOf DEF LruOrder, L!LruAssumption
  <1> HIDE DEF s
  <1>4. /\ LruAgree(rest, left, cur) /\ LruSorted(order, left)
        /\ Cardinality(DOMAIN rest) < LruSize
    <2>1. CASE n = LruSize
      <3> DEFINE e == s[1]
      <3>1. out = {e}
        BY <2>1, LruEvicts DEF s
      <3>2. 1 \in 1..n /\ e \in access_time /\ e \in LruEntries
        <4>1. 1 \in DOMAIN s
          BY <1>3, <2>1
        <4>2. s \in [DOMAIN s -> access_time] /\ access_time \subseteq LruEntries
          BY <1>1, LruAll DEF LruSorted
        <4>3. QED
          BY <1>3, <4>1, <4>2
      <3>3. e.key \in DOMAIN cache /\ e = LruStamp(e.key, cache[e.key].time)
        BY <1>1, <3>2 DEF LruAgree, LruEntries, LruStamp
      <3> DEFINE h == e.key
      <3>4. h \in DOMAIN cache /\ e = LruStamp(h, cache[h].time)
        BY <3>3
      <3> HIDE DEF h
      <3>5. LruSorted(L!R!RemoveAt(s, 1), access_time \ {e})
        <4>1. 1 \in DOMAIN s /\ s[1] = LruStamp(h, cache[h].time)
          BY <1>3, <3>2, <3>4
        <4>2. LruSorted(L!R!RemoveAt(s, 1), access_time \ {LruStamp(h, cache[h].time)})
          BY <1>1, <3>4, <4>1, LruDrop
        <4>3. QED
          BY <3>4, <4>2
      <3>6. gone = {h} /\ left = access_time \ {e}
        BY <3>1 DEF h
      <3>7. rest = LruWithout(cache, h)
        BY <3>6 DEF LruWithout
      <3>8. LruAgree(rest, left, cur)
        <4>1. LruAgree(LruWithout(cache, h), access_time \ {LruStamp(h, cache[h].time)}, cur)
          BY <1>1, <3>4, LruDrop
        <4>2. QED
          BY <3>4, <3>6, <3>7, <4>1
      <3>9. Cardinality(DOMAIN rest) = n - 1
        <4>1. DOMAIN rest = DOMAIN cache \ {h}
          BY <3>6
        <4>2. IsFiniteSet(DOMAIN cache)
          BY <1>1 DEF LruAgree
        <4>3. QED
          BY <3>4, <4>1, <4>2, FS_RemoveElement
      <3>10. LruSorted(order, left)
        BY <2>1, <3>5, <3>6
      <3>11. QED
        BY <1>3, <2>1, <3>8, <3>9, <3>10
    <2>2. CASE n # LruSize
      <3>1. out = {}
        BY <2>2, LruEvicts
      <3>2. gone = {} /\ left = access_time
        BY <3>1
      <3>3. rest = cache
        BY <1>1, <3>2 DEF LruAgree
      <3>4. order = s /\ n < LruSize
        BY <1>1, <1>3, <2>2
      <3> HIDE DEF rest, left, order
      <3>5. QED
        BY <1>1, <3>2, <3>3, <3>4
    <2>3. QED
      BY <2>1, <2>2
  <1> DEFINE u == Append(order, f)
  <1>5. DOMAIN rest = DOMAIN cache \ gone
    OBVIOUS
  <1>6. cache' = LruWith(rest, k, w)
    BY <1>2 DEF LruWith
  <1> HIDE DEF rest, gone, left, order, out
  <1>7. k \in LruKeys \ DOMAIN rest
    BY <1>2, <1>5
  <1>8. LruAgree(LruWith(rest, k, w), left \cup {f}, cur + 1) /\ LruSorted(u, left \cup {f})
    BY <1>4, <1>7, LruAdd
  <1>9. L!InOrder(access_time)' = u /\ LruSorted(L!InOrder(access_time), access_time)'
    BY <1>2, <1>8, LruOrdered
  <1>10. Cardinality(DOMAIN cache') <= LruSize
    <2>1. IsFiniteSet(DOMAIN rest)
      BY <1>4 DEF LruAgree
    <2>2. DOMAIN cache' = DOMAIN rest \cup {k}
      BY <1>6 DEF LruWith
    <2>3. Cardinality(DOMAIN cache') = Cardinality(DOMAIN rest) + 1 /\ Cardinality(DOMAIN rest) \in Nat
      BY <1>7, <2>1, <2>2, FS_AddElement, FS_CardinalityType
    <2>4. QED
      BY <1>3, <1>4, <2>3
  <1>11. LruInv'
    BY <1>2, <1>6, <1>8, <1>9, <1>10 DEF LruInv
  <1>12. order \in Seq(LruEntries)
    BY <1>4, LruKeysOf
  <1>13. f \in LruEntries /\ f.key = k
    BY <1>1 DEF LruStamp, LruEntries, LruAgree
  <1>14. L!KeysOf(order) = IF n = LruSize THEN Tail(LruOrder) ELSE LruOrder
    <2>1. CASE n = LruSize
      <3>1. 1 \in 1..Len(s)
        BY <1>3, <2>1
      <3>2. L!KeysOf(order) = L!R!RemoveAt(LruOrder, 1)
        BY <1>3, <2>1, <3>1, LruKeysCut DEF order, LruOrder, s
      <3>3. L!R!RemoveAt(LruOrder, 1) = Tail(LruOrder)
        <4> DEFINE r == L!R!RemoveAt(LruOrder, 1)
        <4>1. r \in Seq(LruKeys) /\ DOMAIN r = 1..(n - 1) /\ \A j \in 1..(n - 1) : r[j] = LruOrder[j + 1]
          <5>1. 1 \in 1..Len(LruOrder)
            BY <1>3, <2>1
          <5>2. \A j \in 1..(n - 1) : ~(j < 1)
            BY <1>3
          <5>3. QED
            BY <1>3, <5>1, <5>2, LruCut
        <4>2. /\ Tail(LruOrder) \in Seq(LruKeys) /\ DOMAIN Tail(LruOrder) = 1..(n - 1)
              /\ \A j \in 1..(n - 1) : Tail(LruOrder)[j] = LruOrder[j + 1]
          BY <1>3, <2>1
        <4> DEFINE q == Tail(LruOrder)
        <4> HIDE DEF r, q
        <4>3. r = [j \in 1..(n - 1) |-> r[j]]
          BY <4>1
        <4>4. q \in Seq(LruKeys) /\ DOMAIN q = 1..(n - 1) /\ \A j \in 1..(n - 1) : q[j] = LruOrder[j + 1]
          BY <4>2 DEF q
        <4>5. q = [j \in 1..(n - 1) |-> q[j]]
          BY <4>4
        <4>6. r = q
          BY <4>1, <4>3, <4>4, <4>5
        <4>7. QED
          BY <4>6 DEF r, q
      <3>4. QED
        BY <2>1, <3>2, <3>3
    <2>2. CASE n # LruSize
      BY <2>2 DEF order, LruOrder, s
    <2>3. QED
      BY <2>1, <2>2
  <1>15. LruOrder' = Append(IF Len(LruOrder) = LruSize THEN Tail(LruOrder) ELSE LruOrder, k)
    <2>1. LruOrder' = L!KeysOf(u)
      BY <1>9 DEF LruOrder
    <2>2. L!KeysOf(u) = Append(L!KeysOf(order), k)
      BY <1>12, <1>13, LruKeysAppend
    <2>3. QED
      BY <1>3, <1>14, <2>1, <2>2
  <1>16. L!R!ToSet(LruOrder') = DOMAIN cache'
    <2>1. LruAgree(cache', access_time', cur') /\ LruSorted(L!InOrder(access_time'), access_time')
      BY <1>11 DEF LruInv
    <2>2. L!R!ToSet(L!KeysOf(L!InOrder(access_time'))) = DOMAIN cache'
      BY <2>1, LruKeysOf
    <2>3. QED
      BY <2>2 DEF LruOrder
  <1>17. LruVals' = [x \in DOMAIN cache' |-> IF x = k THEN value ELSE LruVals[x]]
    <2>1. /\ DOMAIN cache' \subseteq DOMAIN cache \cup {k} /\ cache'[k] = w /\ k \in DOMAIN cache'
          /\ \A x \in DOMAIN cache' : x # k => cache'[x] = cache[x] /\ x \in DOMAIN cache
      BY <1>2
    <2>2. QED
      BY <2>1 DEF LruVals, L!ValuesOf
  <1>18. QED
    BY <1>3, <1>11, <1>15, <1>16, <1>17 DEF L!R!Enter, LruOrder, LruVals

\* Every step keeps the invariant and is a step of RecencyList.
LEMMA LruInvNext ==
  ASSUME L!LruAssumption, LruInv, [L!Next]_lruVars
  PROVE LruInv' /\ [L!R!Next]_(L!R!vars)
  <1>1. LruAgree(cache, access_time, cur) /\ DOMAIN cache \subseteq LruKeys
    BY DEF LruInv, LruAgree
  <1>2. ASSUME NEW k \in LruKeys, L!Touch(k) PROVE LruInv' /\ L!R!Use(k)
    <2> DEFINE value == cache[k].val
    <2>1. k \in DOMAIN cache /\ value \in LruValues /\ cache[k] \in [val : LruValues, time : Nat]
      BY <1>1, <1>2 DEF L!Touch, L!Has, LruAgree
    <2>2. cache' = [cache EXCEPT ![k] = [val |-> value, time |-> cur]]
      <3>1. cache' = [cache EXCEPT ![k] = [cache[k] EXCEPT !.time = cur]]
        BY <1>2, <2>1 DEF L!Touch
      <3>2. [cache[k] EXCEPT !.time = cur] = [val |-> value, time |-> cur]
        BY <2>1
      <3>3. QED
        BY <3>1, <3>2
    <2> HIDE DEF value
    <2>3. /\ LruInv'
          /\ \E i \in DOMAIN LruOrder :
               LruOrder[i] = k /\ LruOrder' = Append(L!R!RemoveAt(LruOrder, i), k)
          /\ LruVals' = [LruVals EXCEPT ![k] = value]
      BY <1>2, <2>1, <2>2, LruUsed DEF L!Touch
    <2>4. [LruVals EXCEPT ![k] = value] = LruVals
      BY <2>1 DEF LruVals, L!ValuesOf, value
    <2>5. QED
      BY <2>3, <2>4 DEF L!R!Use, LruOrder, LruVals
  <1>3. ASSUME NEW k \in LruKeys, NEW value \in LruValues, L!At(k, value)
        PROVE LruInv' /\ (L!R!Overwrite(k, value) \/ L!R!Enter(k, value))
    <2>1. CASE L!Set(k, value)
      BY <2>1, LruEntered
    <2>2. CASE ~L!Set(k, value)
      <3>1. /\ k \in DOMAIN cache /\ access_time' = L!Touched(k) /\ cur' = cur + 1
            /\ cache' = [cache EXCEPT ![k] = [val |-> value, time |-> cur]]
        BY <1>3, <2>2 DEF L!At, L!Has
      <3>2. /\ LruInv'
            /\ \E i \in DOMAIN LruOrder :
                 LruOrder[i] = k /\ LruOrder' = Append(L!R!RemoveAt(LruOrder, i), k)
            /\ LruVals' = [LruVals EXCEPT ![k] = value]
        BY <3>1, LruUsed
      <3>3. QED
        BY <3>2 DEF L!R!Overwrite, LruOrder, LruVals
    <2>3. QED
      BY <2>1, <2>2
  <1>4. ASSUME NEW k \in LruKeys, L!RemoveKey(k) PROVE LruInv' /\ L!R!Leave(k)
    <2>1. /\ k \in DOMAIN cache /\ cur' = cur
          /\ access_time' = access_time \ {LruStamp(k, cache[k].time)}
          /\ cache' = LruWithout(cache, k)
      BY <1>4 DEF L!RemoveKey, L!Has, LruStamp, LruWithout
    <2>2. /\ LruInv'
          /\ \E i \in DOMAIN LruOrder : LruOrder[i] = k /\ LruOrder' = L!R!RemoveAt(LruOrder, i)
          /\ LruVals' = [x \in L!R!ToSet(LruOrder') |-> LruVals[x]]
      BY <2>1, LruLeft
    <2>3. QED
      BY <2>2 DEF L!R!Leave, LruOrder, LruVals
  <1>5. CASE L!Clear
    <2>1. access_time' = {} /\ cache' = <<>> /\ cur' = cur /\ cur \in Nat
      BY <1>1, <1>5 DEF L!Clear, LruAgree
    <2>2. LruInv' /\ LruOrder' = <<>> /\ LruVals' = <<>>
      BY <2>1, LruNothing
    <2>3. QED
      BY <2>2 DEF L!R!Next, L!R!Empty, LruOrder, LruVals
  <1>6. CASE UNCHANGED lruVars
    BY <1>6, LruUnchanged DEF L!R!vars, LruOrder, LruVals
  <1>7. ASSUME NEW k \in LruKeys, L!Peek(k)
        PROVE LruInv' /\ (L!R!Use(k) \/ \E value \in LruValues : L!R!Enter(k, value))
    BY <1>2, <1>7, LruEntered DEF L!Peek, L!LruAssumption
  <1>8. QED
    BY <1>2, <1>3, <1>4, <1>5, <1>6, <1>7, LruEntered DEF L!Next, L!R!Next

\* At first there is nothing.
LEMMA LruInvInit == ASSUME L!LruAssumption, L!Init PROVE LruInv /\ L!R!Init
  <1>1. cur = 0 /\ cache = <<>> /\ access_time = {} /\ DOMAIN cache = {}
    BY DEF L!Init
  <1>2. IsFiniteSet({}) /\ Cardinality({}) = 0
    BY FS_EmptySet
  <1>3. LruAgree(cache, access_time, cur)
    BY <1>1, <1>2 DEF LruAgree
  <1>4. LruSorted(<<>>, access_time)
    BY <1>1, <1>2 DEF LruSorted
  <1>5. L!InOrder(access_time) = <<>>
    BY <1>4, LruInOrder
  <1>6. LruInv
    BY <1>1, <1>2, <1>3, <1>4, <1>5 DEF LruInv, L!LruAssumption
  <1>7. L!KeysOf(<<>>) = <<>> /\ L!ValuesOf(cache) = <<>>
    BY <1>1 DEF L!KeysOf, L!ValuesOf
  <1>8. QED
    BY <1>5, <1>6, <1>7 DEF L!R!Init

-----------------------------------------------------------------------------
(* Functions of the positions of a text that go on at a later position     *)

\* Numbers up to b are in T if all that follow them are.
LEMMA FromBehind ==
  ASSUME NEW a \in Int, NEW b \in Int, NEW T,
         \A i \in a..b : (\A j \in (i + 1)..b : j \in T) => i \in T
  PROVE  \A i \in a..b : i \in T
<1> DEFINE D == {n \in Nat : b - n \in a..b => b - n \in T}
<1>1. ASSUME NEW n \in Nat, \A m \in Nat : m < n => m \in D PROVE n \in D
  <2> SUFFICES ASSUME b - n \in a..b PROVE b - n \in T OBVIOUS
  <2>1. ASSUME NEW j \in (b - n + 1)..b PROVE j \in T
    <3>1. b - j \in Nat /\ b - j < n /\ b - (b - j) = j /\ j \in a..b OBVIOUS
    <3>2. b - j \in D BY <1>1, <3>1
    <3> QED BY <3>1, <3>2
  <2> QED BY <2>1
<1> HIDE DEF D
<1>2. \A n \in Nat : n \in D BY <1>1, FromSmaller
<1>3. ASSUME NEW i \in a..b PROVE i \in T
  <2>1. b - i \in Nat /\ b - (b - i) = i OBVIOUS
  <2>2. b - i \in D BY <1>2, <2>1
  <2> QED BY <2>1, <2>2 DEF D
<1> QED BY <1>3

\* At i such a function g is next of what it is at to[i], or an end of its own.
WalkAt(b, to, next, end, g, i) == IF to[i] \in (i + 1)..b THEN next[<<i, g[to[i]]>>] ELSE end[i]

\* The positions from a to b, the values, and next and end with their types.
IsWalk(a, b, Values, next, end) ==
  a \in Int /\ b \in Int /\ next \in [(a..b) \X Values -> Values] /\ end \in [a..b -> Values]
WalkIs(a, b, Values, to, next, end, g) ==
  g \in [a..b -> Values] /\ \A i \in a..b : g[i] = WalkAt(b, to, next, end, g, i)

LEMMA WalkExists ==
  ASSUME NEW a, NEW b, NEW Values, NEW to, NEW next, NEW end, IsWalk(a, b, Values, next, end)
  PROVE  \E g : WalkIs(a, b, Values, to, next, end, g)
<1> USE DEF IsWalk
<1> SUFFICES \E g \in [a..b -> Values] : \A i \in a..b : g[i] = WalkAt(b, to, next, end, g, i)
  BY DEF WalkIs
<1> DEFINE T == {i \in a..b : \E g \in [a..b -> Values] : \A j \in i..b : g[j] = WalkAt(b, to, next, end, g, j)}
<1>1. ASSUME NEW i \in a..b, \A j \in (i + 1)..b : j \in T PROVE i \in T
  <2>1. \E g \in [a..b -> Values] : \A j \in (i + 1)..b : g[j] = WalkAt(b, to, next, end, g, j)
    <3>1. CASE i = b
      <4>1. (i + 1)..b = {} BY <3>1
      <4> QED BY <4>1
    <3>2. CASE i # b
      <4>1. i + 1 \in (i + 1)..b BY <3>2
      <4> QED BY <1>1, <4>1
    <3> QED BY <3>1, <3>2
  <2>2. PICK g \in [a..b -> Values] : \A j \in (i + 1)..b : g[j] = WalkAt(b, to, next, end, g, j) BY <2>1
  <2> DEFINE val == WalkAt(b, to, next, end, g, i)
  <2>3. val \in Values
    <3>1. CASE to[i] \in (i + 1)..b
      <4>1. to[i] \in a..b BY <3>1
      <4>2. g[to[i]] \in Values BY <4>1
      <4> QED BY <3>1, <4>2 DEF WalkAt
    <3>2. CASE to[i] \notin (i + 1)..b BY <3>2 DEF WalkAt
    <3> QED BY <3>1, <3>2
  <2> DEFINE h == [j \in a..b |-> IF j = i THEN val ELSE g[j]]
  <2>4. h \in [a..b -> Values] BY <2>3
  <2>5. ASSUME NEW j \in i..b PROVE h[j] = WalkAt(b, to, next, end, g, j)
    <3>0. j \in a..b OBVIOUS
    <3>1. CASE j = i BY <3>0, <3>1
    <3>2. CASE j # i
      <4>1. j \in (i + 1)..b BY <3>2
      <4> QED BY <2>2, <3>0, <3>2, <4>1
    <3> QED BY <3>1, <3>2
  <2>6. ASSUME NEW j \in i..b, to[j] \in (j + 1)..b PROVE h[to[j]] = g[to[j]]
    <3>1. to[j] \in a..b /\ to[j] # i BY <2>6
    <3> QED BY <3>1
  <2> HIDE DEF h, val
  <2>7. ASSUME NEW j \in i..b PROVE h[j] = WalkAt(b, to, next, end, h, j)
    <3>1. CASE to[j] \in (j + 1)..b
      <4>1. h[to[j]] = g[to[j]] BY <2>6, <3>1
      <4> QED BY <2>5, <4>1 DEF WalkAt
    <3>2. CASE to[j] \notin (j + 1)..b BY <2>5, <3>2 DEF WalkAt
    <3> QED BY <3>1, <3>2
  <2> QED BY <2>4, <2>7
<1>2. \A i \in a..b : i \in T
  <2> HIDE DEF T
  <2> QED BY <1>1, FromBehind
<1>3. CASE a <= b
  <2>1. a \in a..b BY <1>3
  <2> QED BY <1>2, <2>1
<1>4. CASE ~(a <= b)
  <2>1. a..b = {} BY <1>4
  <2> QED BY <2>1
<1> QED BY <1>3, <1>4

\* Every such function has its values in Values.
LEMMA WalkTyped ==
  ASSUME NEW a, NEW b, NEW Values, NEW to, NEW next, NEW end, IsWalk(a, b, Values, next, end), NEW g,
         \A i \in a..b : (to[i] \in (i + 1)..b => g[to[i]] \in Values) => g[i] = WalkAt(b, to, next, end, g, i)
  PROVE  \A i \in a..b : g[i] \in Values
<1> USE DEF IsWalk
<1> DEFINE T == {i \in a..b : g[i] \in Values}
<1>1. ASSUME NEW i \in a..b, \A j \in (i + 1)..b : j \in T PROVE i \in T
  <2>1. to[i] \in (i + 1)..b => g[to[i]] \in Values BY <1>1
  <2>2. g[i] = WalkAt(b, to, next, end, g, i) BY <2>1
  <2> QED BY <2>1, <2>2 DEF WalkAt
<1> HIDE DEF T
<1>2. \A i \in a..b : i \in T BY <1>1, FromBehind
<1> QED BY <1>2 DEF T

-----------------------------------------------------------------------------
(* Csv: what stands where in a text                                        *)

\* t stands in s at p.
Stands(s, p, t) == p + Len(t) - 1 <= Len(s) /\ \A k \in 1..Len(t) : s[p + k - 1] = t[k]

LEMMA StandsJoined ==
  ASSUME NEW B, NEW s \in Seq(B), NEW t \in Seq(B), NEW u \in Seq(B), NEW p \in Nat \ {0}
  PROVE  /\ Stands(s, p, t \o u) <=> Stands(s, p, t) /\ Stands(s, p + Len(t), u)
         /\ Len(t \o u) = Len(t) + Len(u)
<1> DEFINE n == Len(t)
<1> DEFINE m == Len(u)
<1> DEFINE w == t \o u
<1>1. n \in Nat /\ m \in Nat /\ Len(s) \in Nat OBVIOUS
<1>2. Len(w) = n + m /\ \A i \in 1..(n + m) : w[i] = IF i <= n THEN t[i] ELSE u[i - n] BY ConcatProperties
<1> HIDE DEF w
<1>3. ASSUME Stands(s, p, w) PROVE Stands(s, p, t) /\ Stands(s, p + n, u)
  <2>1. p + n - 1 <= Len(s) /\ (p + n) + m - 1 <= Len(s) BY <1>1, <1>2, <1>3 DEF Stands
  <2>2. ASSUME NEW k \in 1..n PROVE s[p + k - 1] = t[k]
    <3>1. k \in 1..(n + m) /\ k <= n BY <1>1
    <3> QED BY <1>2, <1>3, <3>1 DEF Stands
  <2>3. ASSUME NEW k \in 1..m PROVE s[(p + n) + k - 1] = u[k]
    <3> DEFINE l == n + k
    <3>1. l \in 1..(n + m) /\ ~(l <= n) /\ l - n = k /\ (p + n) + k - 1 = p + l - 1 BY <1>1
    <3> HIDE DEF l
    <3>2. s[p + l - 1] = w[l] BY <1>2, <1>3, <3>1 DEF Stands
    <3> QED BY <1>2, <3>1, <3>2
  <2> QED BY <2>1, <2>2, <2>3 DEF Stands
<1>4. ASSUME Stands(s, p, t), Stands(s, p + n, u) PROVE Stands(s, p, w)
  <2>1. p + Len(w) - 1 <= Len(s) BY <1>1, <1>2, <1>4 DEF Stands
  <2>2. ASSUME NEW i \in 1..(n + m) PROVE s[p + i - 1] = w[i]
    <3>1. CASE i <= n
      <4>1. i \in 1..n BY <3>1
      <4> QED BY <1>2, <1>4, <3>1, <4>1 DEF Stands
    <3>2. CASE ~(i <= n)
      <4> DEFINE k == i - n
      <4>1. k \in 1..m /\ (p + n) + k - 1 = p + i - 1 BY <1>1, <3>2
      <4> HIDE DEF k
      <4>2. s[(p + n) + k - 1] = u[k] BY <1>4, <4>1 DEF Stands
      <4> QED BY <1>2, <3>2, <4>1, <4>2 DEF k
    <3> QED BY <3>1, <3>2
  <2> QED BY <1>2, <2>1, <2>2 DEF Stands
<1> QED BY <1>2, <1>3, <1>4 DEF w

LEMMA StandsSub ==
  ASSUME NEW B, NEW s \in Seq(B), NEW t \in Seq(B), NEW p \in Nat \ {0}, Stands(s, p, t)
  PROVE  SubSeq(s, p, p + Len(t) - 1) = t
<1> DEFINE n == Len(t)
<1> DEFINE e == p + n - 1
<1> DEFINE r == SubSeq(s, p, e)
<1>1. n \in Nat /\ t = [i \in 1..n |-> t[i]] /\ t \in Seq(B) OBVIOUS
<1>2. e <= Len(s) /\ e \in Int BY <1>1 DEF Stands
<1>3. Len(r) = n /\ \A i \in 1..n : r[i] = s[p + i - 1] /\ r \in Seq(B)
  <2>1. CASE n = 0
    <3>1. e < p BY <1>1, <2>1
    <3>2. r = <<>> BY <1>2, <3>1
    <3> QED BY <2>1, <3>2
  <2>2. CASE n # 0
    <3>1. p <= e /\ p \in 1..Len(s) /\ e \in 1..Len(s) BY <1>1, <1>2, <2>2
    <3>2. r = [i \in 1..(e - p + 1) |-> s[i + p - 1]] BY <3>1
    <3>3. e - p + 1 = n BY <1>1
    <3>4. \A i \in 1..n : i + p - 1 = p + i - 1 BY <1>1
    <3> HIDE DEF e, n
    <3>5. Len(r) = n BY <1>1, <3>2, <3>3
    <3>6. \A i \in 1..n : r[i] = s[p + i - 1] BY <3>2, <3>3, <3>4
    <3>7. r \in Seq(B) BY <3>1
    <3> QED BY <3>5, <3>6, <3>7
  <2> QED BY <2>1, <2>2
<1> HIDE DEF r, e
<1>4. r \in Seq(B) BY <1>3, <1>1, <1>2 DEF r, e
<1>5. \A i \in 1..n : r[i] = t[i] BY <1>3 DEF Stands
<1>6. Len(r) = Len(t) BY <1>3
<1> HIDE DEF n
<1>7. r = t BY <1>4, <1>5, <1>6, <1>1, <1>3
<1> QED BY <1>7 DEF r, e, n

\* One character.
LEMMA StandsOne ==
  ASSUME NEW B, NEW s \in Seq(B), NEW c \in B, NEW p \in Nat \ {0}
  PROVE  /\ Len(<<c>>) = 1 /\ <<c>> \in Seq(B)
         /\ Stands(s, p, <<c>>) <=> p <= Len(s) /\ s[p] = c
<1>1. Len(<<c>>) = 1 /\ <<c>> \in Seq(B) /\ <<c>>[1] = c OBVIOUS
<1>2. 1..1 = {1} /\ p + 1 - 1 = p OBVIOUS
<1> QED BY <1>1, <1>2 DEF Stands

\* The first of the stops from p on, when nothing before e is one.
LEMMA ToIs ==
  ASSUME NEW B, NEW s \in Seq(B), NEW p \in Nat \ {0}, NEW e \in Nat, p <= e, e <= Len(s) + 1, NEW stops,
         \A i \in p..(e - 1) : s[i] \notin stops, e = Len(s) + 1 \/ s[e] \in stops
  PROVE  C!To(s, p, stops) = e
<1> DEFINE Places == {j \in p..Len(s) : s[j] \in stops} \cup {Len(s) + 1}
<1>1. Len(s) \in Nat OBVIOUS
<1>2. e \in Places
  <2>1. CASE e = Len(s) + 1 BY <2>1
  <2>2. CASE e # Len(s) + 1
    <3>1. e \in p..Len(s) /\ s[e] \in stops BY <1>1, <2>2
    <3> QED BY <3>1
  <2> QED BY <2>1, <2>2
<1>3. ASSUME NEW j \in Places PROVE e <= j /\ j \in Nat
  <2>1. CASE j = Len(s) + 1 BY <1>1, <2>1
  <2>2. CASE j \in p..Len(s) /\ s[j] \in stops
    <3>1. j \notin p..(e - 1) BY <2>2
    <3> QED BY <1>1, <2>2, <3>1
  <2> QED BY <2>1, <2>2
<1> HIDE DEF Places
<1>4. \A x \in Places : (\A y \in Places : x <= y) => x = e BY <1>2, <1>3
<1>5. C!Min(Places) = e BY <1>2, <1>3, <1>4 DEF C!Min
<1> QED BY <1>5 DEF C!To, Places

\* There is one, or the end.
LEMMA ToFound ==
  ASSUME NEW B, NEW s \in Seq(B), NEW p \in Nat \ {0}, NEW stops
  PROVE  LET q == C!To(s, p, stops)
         IN /\ q \in Nat \ {0} /\ q <= Len(s) + 1 /\ (q = Len(s) + 1 \/ (q >= p /\ s[q] \in stops))
            /\ \A i \in p..(q - 1) : i <= Len(s) => s[i] \notin stops
<1> DEFINE Places == {j \in p..Len(s) : s[j] \in stops} \cup {Len(s) + 1}
<1>1. Len(s) \in Nat OBVIOUS
<1>2. Places \subseteq Nat /\ Len(s) + 1 \in Places BY <1>1
<1>3. PICK q \in Places : \A j \in Places : q <= j BY <1>2, LeastOf
<1>4. \A x \in Places : (\A y \in Places : x <= y) => x = q
  <2> SUFFICES ASSUME NEW x \in Places, \A y \in Places : x <= y PROVE x = q OBVIOUS
  <2>1. x <= q /\ q <= x BY <1>3
  <2>2. x \in Nat /\ q \in Nat BY <1>2
  <2> QED BY <2>1, <2>2
<1>5. C!To(s, p, stops) = q BY <1>3, <1>4 DEF C!To, C!Min
<1>6. q \in Nat \ {0} /\ q <= Len(s) + 1 /\ (q = Len(s) + 1 \/ (q >= p /\ s[q] \in stops))
  <2>a. \A x \in Places : x = Len(s) + 1 \/ (x \in p..Len(s) /\ s[x] \in stops) OBVIOUS
  <2>b. q \in Places BY <1>3
  <2>0. q = Len(s) + 1 \/ (q \in p..Len(s) /\ s[q] \in stops)
    <3> HIDE DEF Places
    <3> QED BY <2>a, <2>b
  <2> HIDE DEF Places
  <2>1. ASSUME q = Len(s) + 1 PROVE q \in Nat \ {0} /\ q <= Len(s) + 1 BY <1>1, <2>1
  <2>2. ASSUME q \in p..Len(s) PROVE q \in Nat \ {0} /\ q <= Len(s) + 1 /\ q >= p BY <1>1, <2>2
  <2> QED BY <2>0, <2>1, <2>2
<1>7. ASSUME NEW i \in p..(q - 1), i <= Len(s) PROVE s[i] \notin stops
  <2>1. i \in p..Len(s) BY <1>6, <1>7
  <2>2. s[i] \in stops => i \in Places BY <2>1
  <2>3. i \notin Places
    <3>1. ~(q <= i) BY <1>6
    <3> QED BY <1>3, <3>1
  <2> QED BY <2>2, <2>3
<1> QED BY <1>5, <1>6, <1>7

-----------------------------------------------------------------------------
(* Csv: pieces joined                                                      *)

\* The last items of a sequence, from k on.
LEMMA LastItems ==
  ASSUME NEW B, NEW t \in Seq(B)
  PROVE  /\ SubSeq(t, 1, Len(t)) = t /\ SubSeq(t, Len(t) + 1, Len(t)) = <<>>
         /\ \A k \in 1..Len(t) : /\ SubSeq(t, k + 1, Len(t)) \in Seq(B)
                                 /\ <<t[k]>> \o SubSeq(t, k + 1, Len(t)) = SubSeq(t, k, Len(t))
<1>1. Len(t) \in Nat /\ \A k \in 1..Len(t) : t[k] \in B OBVIOUS
<1>2. SubSeq(t, 1, Len(t)) = t BY SubSeqFull
<1>3. SubSeq(t, Len(t) + 1, Len(t)) = <<>> BY <1>1, SubSeqEmpty
<1>4. ASSUME NEW k \in 1..Len(t) PROVE SubSeq(t, k + 1, Len(t)) \in Seq(B)
  <2>1. k + 1 \in Int /\ Len(t) \in Int /\ \A i \in (k + 1)..Len(t) : t[i] \in B BY <1>1
  <2> QED BY <2>1, SubSeqProperties
<1>5. ASSUME NEW k \in 1..Len(t) PROVE <<t[k]>> \o SubSeq(t, k + 1, Len(t)) = SubSeq(t, k, Len(t))
  <2>1. Len(t) \in k..Len(t) BY <1>1
  <2> QED BY <2>1, SubSeqRecursiveFirst
<1> QED BY <1>2, <1>3, <1>4, <1>5

\* The pieces from i on, joined, of which the first comes first
Joins(parts, h) ==
  h[Len(parts) + 1] = <<>> /\ \A i \in 1..Len(parts) : h[i] = parts[i] \o h[i + 1]

LEMMA JoinsExist ==
  ASSUME NEW B, NEW parts \in Seq(Seq(B))
  PROVE  \E h \in [1..(Len(parts) + 1) -> Seq(B)] : Joins(parts, h)
<1> DEFINE n == Len(parts)
<1> DEFINE Values == Seq(B)
<1> DEFINE to == [i \in 1..(n + 1) |-> i + 1]
<1> DEFINE next == [x \in (1..(n + 1)) \X Values |-> IF x[1] = n + 1 THEN <<>> ELSE parts[x[1]] \o x[2]]
<1> DEFINE end == [i \in 1..(n + 1) |-> <<>>]
<1>1. n \in Nat /\ \A i \in 1..n : parts[i] \in Values OBVIOUS
<1>2. <<>> \in Values /\ \A x, y \in Values : x \o y \in Values OBVIOUS
<1>3. 1 \in Int /\ n + 1 \in Int BY <1>1
<1> HIDE DEF n, Values
<1>4. next \in [(1..(n + 1)) \X Values -> Values]
  <2>1. ASSUME NEW x \in (1..(n + 1)) \X Values PROVE (IF x[1] = n + 1 THEN <<>> ELSE parts[x[1]] \o x[2]) \in Values
    <3>1. x[1] # n + 1 => x[1] \in 1..n BY <1>1
    <3> QED BY <1>1, <1>2, <3>1
  <2> QED BY <2>1
<1>5. end \in [1..(n + 1) -> Values] BY <1>2
<1>6. \A i \in 1..(n + 1) : to[i] = i + 1 /\ end[i] = <<>> OBVIOUS
<1>7. \A i \in 1..(n + 1), x \in Values : next[<<i, x>>] = IF i = n + 1 THEN <<>> ELSE parts[i] \o x OBVIOUS
<1> HIDE DEF to, next, end
<1> DEFINE m == n + 1
<1>a. IsWalk(1, m, Values, next, end) BY <1>3, <1>4, <1>5 DEF IsWalk
<1> HIDE DEF m
<1>b. PICK h : WalkIs(1, m, Values, to, next, end, h) BY <1>a, WalkExists
<1>8. h \in [1..(n + 1) -> Values] /\ \A i \in 1..(n + 1) : h[i] = WalkAt(n + 1, to, next, end, h, i)
  BY <1>b DEF m, WalkIs
<1>9. h[n + 1] = <<>>
  <2>1. n + 1 \in 1..(n + 1) /\ (n + 1) + 1 \notin ((n + 1) + 1)..(n + 1) BY <1>1
  <2> QED BY <1>6, <1>8, <2>1 DEF WalkAt
<1>10. ASSUME NEW i \in 1..n PROVE h[i] = parts[i] \o h[i + 1]
  <2>1. i \in 1..(n + 1) /\ i + 1 \in (i + 1)..(n + 1) /\ i # n + 1 /\ i + 1 \in 1..(n + 1) BY <1>1
  <2>2. h[i + 1] \in Values BY <1>8, <2>1
  <2>3. to[i] = i + 1 BY <1>6, <2>1
  <2>4. h[i] = next[<<i, h[i + 1]>>] BY <1>8, <2>1, <2>3 DEF WalkAt
  <2>5. next[<<i, h[i + 1]>>] = parts[i] \o h[i + 1] BY <1>7, <2>1, <2>2
  <2> QED BY <2>4, <2>5
<1> QED BY <1>8, <1>9, <1>10 DEF Joins, n, Values

\* The recursion of FlattenSeq
FlattenOf(parts, f) == [i \in 1..Len(parts) |-> IF i = 1 THEN parts[i] ELSE f[i - 1] \o parts[i]]

LEMMA FlattenIs ==
  \A parts : C!FlattenSeq(parts) = IF Len(parts) = 0 THEN parts ELSE (CHOOSE f : f = FlattenOf(parts, f))[Len(parts)]
BY DEF C!FlattenSeq, FlattenOf

LEMMA Flattened ==
  ASSUME NEW B, NEW parts \in Seq(Seq(B)), NEW h \in [1..(Len(parts) + 1) -> Seq(B)], Joins(parts, h)
  PROVE  C!FlattenSeq(parts) = h[1] /\ h[1] \in Seq(B)
<1> DEFINE n == Len(parts)
<1> DEFINE Values == Seq(B)
<1>1. n \in Nat /\ (\A i \in 1..n : parts[i] \in Values) /\ DOMAIN parts = 1..n /\ parts \in [1..n -> Values] OBVIOUS
<1>2. <<>> \in Values /\ \A x, y \in Values : x \o y \in Values OBVIOUS
<1>a. \A x \in Values : <<>> \o x = x /\ x \o <<>> = x OBVIOUS
<1>b. \A x, y, z \in Values : (x \o y) \o z = x \o (y \o z) BY ConcatAssociative
<1>c. n = 0 => parts = <<>> OBVIOUS
<1>d. h[n + 1] = <<>> /\ \A i \in 1..n : h[i] = parts[i] \o h[i + 1] BY DEF Joins
<1>e. \A i \in 1..(n + 1) : h[i] \in Values OBVIOUS
<1> HIDE DEF n, Values
<1>f. 1 \in 1..(n + 1) BY <1>1
<1>3. CASE n = 0 BY <1>1, <1>c, <1>d, <1>e, <1>f, <1>3, FlattenIs DEF n, Values
<1>4. CASE n # 0
  <2> DEFINE next == [x \in Values \X Values |-> x[1] \o x[2]]
  <2>1. next \in [Values \X Values -> Values] /\ \A x, y \in Values : next[<<x, y>>] = x \o y BY <1>2
  <2> HIDE DEF next
  <2>2. PICK g : g = FoldsOf(<<>>, next, parts, g) BY <1>1, FoldsExist
  <2>3. Folding(<<>>, next, Values, Values, n, parts, g) BY <1>1, <1>2, <2>1, <2>2 DEF Folding
  <2>4. /\ \A set \in SUBSET (1..n) : g[set] \in Values
        /\ g[1..0] = <<>>
        /\ \A k \in 1..n : g[1..k] = next[<<g[1..(k - 1)], parts[k]>>]
    BY <2>3, FoldIs
  <2> DEFINE f == [i \in 1..n |-> g[1..i]]
  <2>5. ASSUME NEW i \in 1..n PROVE f[i] = IF i = 1 THEN parts[i] ELSE f[i - 1] \o parts[i]
    <3>1. 1..(i - 1) \in SUBSET (1..n) BY <1>1
    <3>2. g[1..(i - 1)] \in Values BY <2>4, <3>1
    <3>3. f[i] = g[1..(i - 1)] \o parts[i] BY <1>1, <2>1, <2>4, <3>2
    <3>4. CASE i = 1
      <4>1. i - 1 = 0 BY <3>4
      <4> QED BY <1>1, <1>a, <2>4, <3>3, <3>4, <4>1
    <3>5. CASE i # 1
      <4>1. i - 1 \in 1..n BY <1>1, <3>5
      <4>2. f[i - 1] = g[1..(i - 1)] BY <4>1
      <4> HIDE DEF f
      <4> QED BY <3>3, <3>5, <4>2
    <3> QED BY <3>4, <3>5
  <2>6. f = FlattenOf(parts, f)
    <3>1. f = [i \in 1..n |-> f[i]] OBVIOUS
    <3> HIDE DEF f
    <3> QED BY <2>5, <3>1 DEF FlattenOf, n
  <2> HIDE DEF f
  <2> DEFINE e == CHOOSE e : e = FlattenOf(parts, e)
  <2>7. e = FlattenOf(parts, e) BY <2>6
  <2>8. C!FlattenSeq(parts) = e[n] BY <1>4, FlattenIs DEF n
  <2> HIDE DEF e
  <2>9. \A i \in 1..n : e[i] = IF i = 1 THEN parts[i] ELSE e[i - 1] \o parts[i] BY <2>7 DEF FlattenOf, n
  <2> DEFINE Is(k) == e[k] \in Values /\ e[k] \o h[k + 1] = h[1]
  <2> DEFINE D == {k \in Nat : k \in 1..n => Is(k)}
  <2>10. 0 \in D OBVIOUS
  <2>11. ASSUME NEW k \in Nat, k \in 1..n => Is(k), k + 1 \in 1..n PROVE Is(k + 1)
    <3> DEFINE x == h[(k + 1) + 1]
    <3> DEFINE y == parts[k + 1]
    <3>1. h[k + 1] = y \o x /\ y \in Values BY <1>1, <1>d, <2>11
    <3>2. x \in Values
      <4>1. (k + 1) + 1 \in 1..(n + 1) BY <1>1, <2>11
      <4> QED BY <1>e, <4>1
    <3>a. e[k + 1] = IF k + 1 = 1 THEN y ELSE e[(k + 1) - 1] \o y BY <2>9, <2>11
    <3> HIDE DEF x, y
    <3>3. CASE k = 0
      <4>1. e[1] = y /\ h[1] = y \o x BY <3>1, <3>3, <3>a
      <4>2. Is(1) BY <3>1, <3>3, <4>1 DEF x
      <4>3. k + 1 = 1 BY <3>3
      <4> HIDE DEF Is
      <4> QED BY <4>2, <4>3
    <3>4. CASE k # 0
      <4>1. k \in 1..n /\ k + 1 # 1 /\ (k + 1) - 1 = k BY <1>1, <2>11, <3>4
      <4>2. e[k] \in Values /\ e[k] \o h[k + 1] = h[1] BY <2>11, <4>1
      <4>3. e[k + 1] = e[k] \o y BY <3>a, <4>1
      <4>4. e[k + 1] \in Values BY <1>2, <3>1, <4>2, <4>3
      <4>5. e[k] \o (y \o x) = h[1] BY <3>1, <4>2
      <4>6. (e[k] \o y) \o x = e[k] \o (y \o x) BY <1>b, <3>1, <3>2, <4>2
      <4> QED BY <4>3, <4>4, <4>5, <4>6 DEF x
    <3> QED BY <3>3, <3>4
  <2> HIDE DEF Is
  <2>a. ASSUME NEW k \in Nat, k \in D PROVE k + 1 \in D
    <3>1. k + 1 \in Nat OBVIOUS
    <3> QED BY <2>11, <2>a, <3>1
  <2> HIDE DEF D
  <2>12. \A k \in Nat : k \in D BY <2>10, <2>a, FromBefore
  <2>13. n \in 1..n BY <1>1, <1>4
  <2>14. e[n] \in Values /\ e[n] \o h[n + 1] = h[1] BY <2>12, <2>13, <1>1 DEF D, Is
  <2> QED BY <1>a, <1>d, <1>e, <1>f, <2>8, <2>14 DEF Values
<1> QED BY <1>3, <1>4

-----------------------------------------------------------------------------
(* Csv: quoted texts                                                       *)

\* Where a quote behind j is doubled it goes on.
DoubledAt(s, j) == j + 1 <= Len(s) /\ s[j + 1] = AQuote
CloseAt(s, close, j) ==
  LET q == C!To(s, j, {AQuote}) IN IF DoubledAt(s, q) THEN close[q + 2] ELSE q
CloseOf(s, i, close) == [j \in i..(Len(s) + 2) |-> CloseAt(s, close, j)]

LEMMA QuotedEndIs == \A s, i : C!QuotedEnd(s, i) = (CHOOSE close : close = CloseOf(s, i, close))[i]
BY DEF C!QuotedEnd, CloseOf, CloseAt, DoubledAt

LEMMA Closes ==
  ASSUME NEW B, NEW s \in Seq(B), NEW p \in 1..(Len(s) + 1)
  PROVE  \E close : /\ C!QuotedEnd(s, p) = close[p]
                    /\ \A j \in p..(Len(s) + 2) : close[j] = CloseAt(s, close, j) /\ close[j] \in p..(Len(s) + 1)
<1> DEFINE n == Len(s) + 2
<1> DEFINE Values == p..(Len(s) + 1)
<1> DEFINE q == [j \in p..n |-> C!To(s, j, {AQuote})]
<1> DEFINE to == [j \in p..n |-> IF DoubledAt(s, q[j]) THEN q[j] + 2 ELSE 0]
<1> DEFINE next == [x \in (p..n) \X Values |-> x[2]]
<1>1. Len(s) \in Nat /\ n \in Nat /\ p \in Nat \ {0} OBVIOUS
<1>2. ASSUME NEW j \in p..n
      PROVE  q[j] = C!To(s, j, {AQuote}) /\ q[j] \in Values /\ (DoubledAt(s, q[j]) => q[j] + 2 \in (j + 1)..n)
  <2>1. j \in Nat \ {0} BY <1>1
  <2> DEFINE r == C!To(s, j, {AQuote})
  <2>2. r \in Nat \ {0} /\ r <= Len(s) + 1 /\ (r = Len(s) + 1 \/ r >= j) BY <2>1, ToFound
  <2>3. q[j] = r OBVIOUS
  <2> HIDE DEF q, r
  <2>4. r \in Values BY <1>1, <2>2
  <2>5. ASSUME DoubledAt(s, r) PROVE r + 2 \in (j + 1)..n
    <3>1. r + 1 <= Len(s) BY <2>5 DEF DoubledAt
    <3> QED BY <1>1, <2>1, <2>2, <3>1
  <2> QED BY <2>3, <2>4, <2>5 DEF r
<1>3. q \in [p..n -> Values] BY <1>2
<1> HIDE DEF q
<1>4. next \in [(p..n) \X Values -> Values] /\ \A j \in p..n, x \in Values : next[<<j, x>>] = x OBVIOUS
<1>5. \A j \in p..n : to[j] = IF DoubledAt(s, q[j]) THEN q[j] + 2 ELSE 0 OBVIOUS
<1> HIDE DEF n, Values, to, next
<1>6. IsWalk(p, n, Values, next, q) BY <1>1, <1>3, <1>4 DEF IsWalk
<1>7. PICK g : WalkIs(p, n, Values, to, next, q, g) BY <1>6, WalkExists
<1>8. ASSUME NEW j \in p..n PROVE to[j] \in (j + 1)..n <=> DoubledAt(s, q[j])
  <2>1. CASE DoubledAt(s, q[j]) BY <1>2, <1>5, <2>1
  <2>2. CASE ~DoubledAt(s, q[j])
    <3>1. to[j] = 0 /\ j >= 1 BY <1>1, <1>5, <2>2
    <3> QED BY <1>1, <2>2, <3>1
  <2> QED BY <2>1, <2>2
<1>9. ASSUME NEW g1, NEW j \in p..n, DoubledAt(s, q[j]) => g1[q[j] + 2] \in Values
      PROVE  CloseAt(s, g1, j) = WalkAt(n, to, next, q, g1, j)
  <2>1. CASE DoubledAt(s, q[j])
    <3>1. to[j] \in (j + 1)..n /\ to[j] = q[j] + 2 BY <1>5, <1>8, <2>1
    <3>2. next[<<j, g1[q[j] + 2]>>] = g1[q[j] + 2] BY <1>4, <1>9, <2>1
    <3> QED BY <1>2, <2>1, <3>1, <3>2 DEF CloseAt, WalkAt
  <2>2. CASE ~DoubledAt(s, q[j])
    <3>1. to[j] \notin (j + 1)..n BY <1>8, <2>2
    <3> QED BY <1>2, <2>2, <3>1 DEF CloseAt, WalkAt
  <2> QED BY <2>1, <2>2
<1>10. \A j \in p..n : g[j] = CloseAt(s, g, j)
  <2> TAKE j \in p..n
  <2>1. DoubledAt(s, q[j]) => g[q[j] + 2] \in Values
    <3> SUFFICES ASSUME DoubledAt(s, q[j]) PROVE g[q[j] + 2] \in Values OBVIOUS
    <3>1. q[j] + 2 \in p..n BY <1>1, <1>2
    <3> QED BY <1>7, <3>1 DEF WalkIs
  <2> QED BY <1>7, <1>9, <2>1 DEF WalkIs
<1>11. g = CloseOf(s, p, g)
  <2>1. g = [j \in p..n |-> g[j]] BY <1>7 DEF WalkIs
  <2> QED BY <1>10, <2>1 DEF CloseOf, n
<1> DEFINE close == CHOOSE close : close = CloseOf(s, p, close)
<1>12. close = CloseOf(s, p, close) BY <1>11
<1>13. C!QuotedEnd(s, p) = close[p] BY QuotedEndIs
<1> HIDE DEF close
<1>14. \A j \in p..n : close[j] = CloseAt(s, close, j) BY <1>12 DEF CloseOf, n
<1>15. \A j \in p..n : (to[j] \in (j + 1)..n => close[to[j]] \in Values) => close[j] = WalkAt(n, to, next, q, close, j)
  <2> SUFFICES ASSUME NEW j \in p..n, to[j] \in (j + 1)..n => close[to[j]] \in Values
               PROVE  close[j] = WalkAt(n, to, next, q, close, j)
    OBVIOUS
  <2>1. DoubledAt(s, q[j]) => close[q[j] + 2] \in Values BY <1>5, <1>8
  <2> QED BY <1>9, <1>14, <2>1
<1>16. \A j \in p..n : close[j] \in Values
  BY <1>6, <1>15, WalkTyped, SMTT(60)
<1> QED BY <1>13, <1>14, <1>16 DEF n, Values

\* A quote stands twice.
Twice(c) == IF c = AQuote THEN <<AQuote, AQuote>> ELSE <<c>>

LEMMA DoubledJoins ==
  ASSUME NEW B, AQuote \in B, NEW t \in Seq(B)
  PROVE  \E h \in [1..(Len(t) + 1) -> Seq(B)] :
           /\ h[1] = C!Doubled(t) /\ h[Len(t) + 1] = <<>>
           /\ \A i \in 1..Len(t) : h[i] = Twice(t[i]) \o h[i + 1]
<1> DEFINE n == Len(t)
<1> DEFINE parts == [i \in DOMAIN t |-> Twice(t[i])]
<1>1. n \in Nat /\ DOMAIN t = 1..n /\ \A i \in 1..n : t[i] \in B OBVIOUS
<1>2. \A c \in B : Twice(c) \in Seq(B) BY DEF Twice
<1>3. parts \in [1..n -> Seq(B)] BY <1>1, <1>2
<1>4. parts \in Seq(Seq(B)) /\ Len(parts) = n /\ \A i \in 1..n : parts[i] = Twice(t[i]) BY <1>1, <1>3
<1>5. C!Doubled(t) = C!FlattenSeq(parts) BY DEF C!Doubled, Twice
<1> HIDE DEF parts, n
<1>6. PICK h \in [1..(Len(parts) + 1) -> Seq(B)] : Joins(parts, h) BY <1>4, JoinsExist
<1>7. C!FlattenSeq(parts) = h[1] BY <1>4, <1>6, Flattened
<1>8. h \in [1..(n + 1) -> Seq(B)] /\ h[n + 1] = <<>> /\ \A i \in 1..n : h[i] = Twice(t[i]) \o h[i + 1]
  BY <1>4, <1>6 DEF Joins
<1> QED BY <1>5, <1>7, <1>8 DEF n

\* What Twice(c) at the front of a text means for its characters
LEMMA TwiceStands ==
  ASSUME NEW B, AQuote \in B, NEW s \in Seq(B), NEW c \in B, NEW u \in Seq(B), NEW p \in Nat \ {0},
         Stands(s, p, Twice(c) \o u)
  PROVE  \E k \in {1, 2} :
           /\ Stands(s, p + k, u) /\ Len(Twice(c) \o u) = k + Len(u) /\ p <= Len(s) /\ s[p] = c
           /\ IF c = AQuote THEN k = 2 /\ p + 1 <= Len(s) /\ s[p + 1] = AQuote ELSE k = 1
<1>1. Twice(c) \in Seq(B) BY DEF Twice
<1>2. Stands(s, p, Twice(c)) /\ Stands(s, p + Len(Twice(c)), u) /\ Len(Twice(c) \o u) = Len(Twice(c)) + Len(u)
  BY <1>1, StandsJoined
<1>3. CASE c = AQuote
  <2> DEFINE w == <<AQuote, AQuote>>
  <2>1. Twice(c) = w BY <1>3 DEF Twice
  <2>2. Len(w) = 2 /\ w[1] = AQuote /\ w[2] = AQuote OBVIOUS
  <2> HIDE DEF w
  <2>3. p + 2 - 1 <= Len(s) /\ \A k \in 1..2 : s[p + k - 1] = w[k] BY <1>2, <2>1, <2>2 DEF Stands
  <2>4. 1 \in 1..2 /\ 2 \in 1..2 /\ p + 1 - 1 = p /\ p + 2 - 1 = p + 1 OBVIOUS
  <2>5. s[p] = AQuote /\ s[p + 1] = AQuote /\ p + 1 <= Len(s) BY <2>2, <2>3, <2>4
  <2>6. p <= Len(s) BY <2>5
  <2> QED BY <1>2, <1>3, <2>1, <2>2, <2>5, <2>6
<1>4. CASE c # AQuote
  <2>1. Twice(c) = <<c>> BY <1>4 DEF Twice
  <2> QED BY <1>2, <1>4, <2>1, StandsOne
<1> QED BY <1>3, <1>4

\* A text with its quotes doubled is closed by the quote behind it.
LEMMA QuotedEndFound ==
  ASSUME NEW B, AQuote \in B, NEW s \in Seq(B), NEW t \in Seq(B), NEW p \in Nat \ {0},
         Stands(s, p, C!Doubled(t)), NEW e, e = p + Len(C!Doubled(t)), e <= Len(s), s[e] = AQuote, ~DoubledAt(s, e)
  PROVE  C!QuotedEnd(s, p) = e
<1> DEFINE n == Len(t)
<1>1. PICK h \in [1..(n + 1) -> Seq(B)] :
        /\ h[1] = C!Doubled(t) /\ h[n + 1] = <<>>
        /\ \A i \in 1..n : h[i] = Twice(t[i]) \o h[i + 1]
  BY DoubledJoins, ZenonT(60)
<1>2. n \in Nat /\ Len(s) \in Nat /\ \A i \in 1..n : t[i] \in B OBVIOUS
<1>3. \A i \in 1..(n + 1) : h[i] \in Seq(B) /\ Len(h[i]) \in Nat OBVIOUS
<1> HIDE DEF n
<1>a. 1 \in 1..(n + 1) BY <1>2
<1>4. e \in Nat /\ p <= e BY <1>1, <1>3, <1>a
<1>5. p \in 1..(Len(s) + 1) BY <1>2, <1>4
<1>6. PICK close : /\ C!QuotedEnd(s, p) = close[p]
                   /\ \A j \in p..(Len(s) + 2) : close[j] = CloseAt(s, close, j) /\ close[j] \in p..(Len(s) + 1)
  BY <1>5, Closes
<1> DEFINE Good(i) == \A j \in p..e : Stands(s, j, h[i]) /\ j + Len(h[i]) = e => close[j] = e
<1> DEFINE D == {i \in 1..(n + 1) : Good(i)}
<1>7. Good(n + 1)
  <2> SUFFICES ASSUME NEW j \in p..e, j + Len(<<>>) = e PROVE close[j] = e BY <1>1
  <2>1. j = e BY <1>2
  <2>2. C!To(s, e, {AQuote}) = e
    <3>1. e \in Nat \ {0} /\ e <= Len(s) + 1 /\ s[e] \in {AQuote} /\ e..(e - 1) = {} BY <1>2, <1>4
    <3> QED BY <3>1, ToIs
  <2>3. e \in p..(Len(s) + 2) BY <1>2, <1>4
  <2> QED BY <1>6, <2>1, <2>2, <2>3 DEF CloseAt
<1>8. ASSUME NEW i \in 1..n, Good(i + 1) PROVE Good(i)
  <2> SUFFICES ASSUME NEW j \in p..e, Stands(s, j, h[i]), j + Len(h[i]) = e PROVE close[j] = e OBVIOUS
  <2> DEFINE u == h[i + 1]
  <2>1. i + 1 \in 1..(n + 1) BY <1>2
  <2>2. u \in Seq(B) /\ Len(u) \in Nat /\ h[i] = Twice(t[i]) \o u /\ t[i] \in B BY <1>1, <1>2, <1>3, <2>1
  <2>3. j \in Nat \ {0} BY <1>4
  <2> HIDE DEF u
  <2>4. PICK k \in {1, 2} :
          /\ Stands(s, j + k, u) /\ Len(h[i]) = k + Len(u) /\ j <= Len(s) /\ s[j] = t[i]
          /\ IF t[i] = AQuote THEN k = 2 /\ j + 1 <= Len(s) /\ s[j + 1] = AQuote ELSE k = 1
    <3> DEFINE c == t[i]
    <3>1. c \in B /\ Stands(s, j, Twice(c) \o u) BY <2>2
    <3> HIDE DEF c
    <3>2. \E k \in {1, 2} :
           /\ Stands(s, j + k, u) /\ Len(Twice(c) \o u) = k + Len(u) /\ j <= Len(s) /\ s[j] = c
           /\ IF c = AQuote THEN k = 2 /\ j + 1 <= Len(s) /\ s[j + 1] = AQuote ELSE k = 1
      BY <2>2, <2>3, <3>1, TwiceStands
    <3> QED BY <2>2, <3>2 DEF c
  <2>5. j + k \in p..e /\ (j + k) + Len(u) = e
    <3> DEFINE m == Len(u)
    <3>1. m \in Nat /\ j + (k + m) = e /\ j \in Nat /\ j >= p /\ k \in Nat BY <1>4, <2>2, <2>4
    <3> HIDE DEF m
    <3>2. (j + k) + m = e /\ j + k >= p /\ j + k <= e /\ j + k \in Nat BY <1>4, <3>1
    <3> QED BY <1>4, <3>2 DEF m
  <2>6. close[j + k] = e BY <1>8, <2>4, <2>5 DEF u
  <2>7. j \in p..(Len(s) + 2) /\ j + k \in p..(Len(s) + 2) BY <1>2, <1>4, <2>5, SMTT(60)
  <2>8. CASE t[i] = AQuote
    <3>1. C!To(s, j, {AQuote}) = j
      <4>1. j <= j /\ j <= Len(s) + 1 /\ j..(j - 1) = {} /\ s[j] \in {AQuote}
        <5>1. j <= Len(s) /\ s[j] = t[i] BY <2>4
        <5>2. s[j] \in {AQuote} BY <2>8, <5>1
        <5> QED BY <1>2, <2>3, <5>1, <5>2
      <4> QED BY <2>3, <4>1, ToIs
    <3>2. DoubledAt(s, j) /\ k = 2 BY <2>4, <2>8 DEF DoubledAt
    <3> QED BY <1>6, <2>6, <2>7, <3>1, <3>2 DEF CloseAt
  <2>9. CASE t[i] # AQuote
    <3> DEFINE q == C!To(s, j + 1, {AQuote})
    <3>1. k = 1 /\ s[j] # AQuote BY <2>4, <2>9
    <3>2. j + 1 \in Nat \ {0} BY <2>3
    <3>3. q \in Nat \ {0} /\ q <= Len(s) + 1 /\ (q = Len(s) + 1 \/ (q >= j + 1 /\ s[q] \in {AQuote}))
          /\ \A l \in (j + 1)..(q - 1) : l <= Len(s) => s[l] \notin {AQuote}
      BY <3>2, ToFound
    <3> HIDE DEF q
    <3>4. \A l \in j..(q - 1) : s[l] \notin {AQuote}
      <4> TAKE l \in j..(q - 1)
      <4>1. l <= Len(s) BY <1>2, <2>3, <3>3
      <4>2. l = j \/ l \in (j + 1)..(q - 1) BY <2>3, <3>3
      <4> QED BY <3>1, <3>3, <4>1, <4>2
    <3>5. j <= q /\ q \in Nat BY <1>2, <2>3, <2>4, <3>3
    <3>6. C!To(s, j, {AQuote}) = q
      <4>1. q = Len(s) + 1 \/ s[q] \in {AQuote} BY <3>3
      <4>2. q <= Len(s) + 1 BY <3>3
      <4> QED BY <2>3, <3>4, <3>5, <4>1, <4>2, ToIs
    <3>7. close[j] = close[j + 1] BY <1>6, <2>7, <3>1, <3>6 DEF CloseAt, q
    <3> QED BY <2>6, <3>1, <3>7
  <2> QED BY <2>8, <2>9
<1> HIDE DEF Good
<1>9. ASSUME NEW i \in 1..(n + 1), \A j \in (i + 1)..(n + 1) : j \in D PROVE i \in D
  <2>1. CASE i = n + 1 BY <1>7, <2>1
  <2>2. CASE i # n + 1
    <3>1. i \in 1..n /\ i + 1 \in (i + 1)..(n + 1) BY <1>2, <2>2
    <3>2. Good(i + 1) BY <1>9, <3>1
    <3> QED BY <1>8, <3>1, <3>2
  <2> QED BY <2>1, <2>2
<1> HIDE DEF D
<1>10. 1 \in Int /\ n + 1 \in Int BY <1>2
<1>11. 1 \in D BY <1>9, <1>10, <1>a, FromBehind
<1>12. p \in p..e BY <1>4
<1>13. close[p] = e
  <2>1. Good(1) BY <1>11 DEF D
  <2> QED BY <1>1, <1>12, <2>1 DEF Good
<1> QED BY <1>6, <1>13

\* The recursion of Unquoted
PairsAt(t, g, i) == IF i > Len(t) THEN <<>> ELSE <<t[i]>> \o g[IF t[i] = AQuote THEN i + 2 ELSE i + 1]
PairsOf(t, g) == [i \in 1..(Len(t) + 2) |-> PairsAt(t, g, i)]

LEMMA UnquotedIs == \A t : C!Unquoted(t) = (CHOOSE g : g = PairsOf(t, g))[1]
BY DEF C!Unquoted, PairsOf, PairsAt

LEMMA Pairs ==
  ASSUME NEW B, NEW t \in Seq(B)
  PROVE  \E g : /\ C!Unquoted(t) = g[1]
                /\ \A i \in 1..(Len(t) + 2) : g[i] = PairsAt(t, g, i) /\ g[i] \in Seq(B)
<1> DEFINE n == Len(t) + 2
<1> DEFINE Values == Seq(B)
<1> DEFINE to == [i \in 1..n |-> IF i > Len(t) THEN 0 ELSE IF t[i] = AQuote THEN i + 2 ELSE i + 1]
<1> DEFINE next == [x \in (1..n) \X Values |-> IF x[1] > Len(t) THEN <<>> ELSE <<t[x[1]]>> \o x[2]]
<1> DEFINE end == [i \in 1..n |-> <<>>]
<1>1. Len(t) \in Nat /\ n = Len(t) + 2 /\ n \in Int /\ \A i \in 1..n : i <= Len(t) => t[i] \in B OBVIOUS
<1>2. <<>> \in Values /\ \A c \in B : \A y \in Values : <<c>> \o y \in Values OBVIOUS
<1> HIDE DEF Values
<1>3. next \in [(1..n) \X Values -> Values]
  <2>1. ASSUME NEW x \in (1..n) \X Values PROVE (IF x[1] > Len(t) THEN <<>> ELSE <<t[x[1]]>> \o x[2]) \in Values
    <3>1. x[1] \in 1..n /\ x[2] \in Values OBVIOUS
    <3>2. ~(x[1] > Len(t)) => t[x[1]] \in B BY <1>1, <3>1
    <3> QED BY <1>2, <3>1, <3>2
  <2> QED BY <2>1
<1>4. end \in [1..n -> Values] BY <1>2
<1>5. \A i \in 1..n, x \in Values : next[<<i, x>>] = IF i > Len(t) THEN <<>> ELSE <<t[i]>> \o x OBVIOUS
<1>6. \A i \in 1..n : to[i] = (IF i > Len(t) THEN 0 ELSE IF t[i] = AQuote THEN i + 2 ELSE i + 1) /\ end[i] = <<>> OBVIOUS
<1> HIDE DEF n, to, next, end
<1>7. IsWalk(1, n, Values, next, end) BY <1>1, <1>3, <1>4 DEF IsWalk
<1>8. PICK g : WalkIs(1, n, Values, to, next, end, g) BY <1>7, WalkExists
<1>9. ASSUME NEW i \in 1..n
      PROVE  IF i > Len(t) THEN to[i] = 0
             ELSE to[i] = (IF t[i] = AQuote THEN i + 2 ELSE i + 1) /\ to[i] \in (i + 1)..n /\ to[i] \in 1..n
  <2>1. CASE i > Len(t) BY <1>6, <2>1
  <2>2. CASE ~(i > Len(t))
    <3>1. to[i] = IF t[i] = AQuote THEN i + 2 ELSE i + 1 BY <1>6, <2>2
    <3>2. i + 2 <= n /\ i \in Nat BY <1>1, <2>2
    <3>3. to[i] = i + 2 \/ to[i] = i + 1 BY <3>1
    <3> QED BY <1>1, <2>2, <3>1, <3>2, <3>3
  <2> QED BY <2>1, <2>2
<1>10. ASSUME NEW g1, NEW i \in 1..n, to[i] \in (i + 1)..n => g1[to[i]] \in Values
       PROVE  PairsAt(t, g1, i) = WalkAt(n, to, next, end, g1, i)
  <2>1. CASE i > Len(t)
    <3>1. to[i] \notin (i + 1)..n BY <1>9, <2>1
    <3> QED BY <1>6, <2>1, <3>1 DEF PairsAt, WalkAt
  <2>2. CASE ~(i > Len(t)) BY <1>5, <1>9, <1>10, <2>2 DEF PairsAt, WalkAt
  <2> QED BY <2>1, <2>2
<1>11. \A i \in 1..n : g[i] = PairsAt(t, g, i)
  <2> TAKE i \in 1..n
  <2>1. to[i] \in (i + 1)..n => g[to[i]] \in Values BY <1>1, <1>8, <1>9 DEF WalkIs
  <2> QED BY <1>8, <1>10, <2>1 DEF WalkIs
<1>12. g = PairsOf(t, g)
  <2>1. g = [i \in 1..n |-> g[i]] BY <1>8 DEF WalkIs
  <2> QED BY <1>11, <2>1 DEF PairsOf, n
<1> DEFINE pairs == CHOOSE f : f = PairsOf(t, f)
<1>13. pairs = PairsOf(t, pairs) BY <1>12
<1>14. C!Unquoted(t) = pairs[1] BY UnquotedIs
<1> HIDE DEF pairs
<1>15. \A i \in 1..n : pairs[i] = PairsAt(t, pairs, i) BY <1>13 DEF PairsOf, n
<1>16. \A i \in 1..n : (to[i] \in (i + 1)..n => pairs[to[i]] \in Values) => pairs[i] = WalkAt(n, to, next, end, pairs, i)
  BY <1>10, <1>15
<1>17. \A i \in 1..n : pairs[i] \in Values BY <1>7, <1>16, WalkTyped
<1> QED BY <1>14, <1>15, <1>17 DEF n, Values

\* What was doubled is undoubled.
LEMMA UnquotedDoubled ==
  ASSUME NEW B, AQuote \in B, NEW t \in Seq(B)
  PROVE  C!Doubled(t) \in Seq(B) /\ C!Unquoted(C!Doubled(t)) = t
<1> DEFINE n == Len(t)
<1> DEFINE s == C!Doubled(t)
<1>1. PICK h \in [1..(n + 1) -> Seq(B)] :
        /\ h[1] = s /\ h[n + 1] = <<>>
        /\ \A i \in 1..n : h[i] = Twice(t[i]) \o h[i + 1]
  BY DoubledJoins
<1>2. n \in Nat /\ \A i \in 1..n : t[i] \in B OBVIOUS
<1>3. \A i \in 1..(n + 1) : h[i] \in Seq(B) /\ Len(h[i]) \in Nat OBVIOUS
<1>4. /\ SubSeq(t, 1, n) = t /\ SubSeq(t, n + 1, n) = <<>>
      /\ \A k \in 1..n : <<t[k]>> \o SubSeq(t, k + 1, n) = SubSeq(t, k, n)
  BY LastItems
<1> HIDE DEF n, s
<1>5. 1 \in 1..(n + 1) BY <1>2
<1>6. s \in Seq(B) /\ Len(s) \in Nat BY <1>1, <1>3, <1>5
<1>7. PICK g : C!Unquoted(s) = g[1] /\ \A i \in 1..(Len(s) + 2) : g[i] = PairsAt(s, g, i) BY <1>6, Pairs
<1> DEFINE Good(i) == \A j \in 1..(Len(s) + 1) : Stands(s, j, h[i]) /\ j + Len(h[i]) = Len(s) + 1 => g[j] = SubSeq(t, i, n)
<1> DEFINE D == {i \in 1..(n + 1) : Good(i)}
<1>8. Good(n + 1)
  <2> SUFFICES ASSUME NEW j \in 1..(Len(s) + 1), j + Len(<<>>) = Len(s) + 1 PROVE g[j] = <<>> BY <1>1, <1>4
  <2>1. j > Len(s) /\ j \in 1..(Len(s) + 2) BY <1>6
  <2> QED BY <1>7, <2>1 DEF PairsAt
<1>9. ASSUME NEW i \in 1..n, Good(i + 1) PROVE Good(i)
  <2> SUFFICES ASSUME NEW j \in 1..(Len(s) + 1), Stands(s, j, h[i]), j + Len(h[i]) = Len(s) + 1
               PROVE  g[j] = SubSeq(t, i, n)
    OBVIOUS
  <2> DEFINE u == h[i + 1]
  <2> DEFINE c == t[i]
  <2>1. i + 1 \in 1..(n + 1) BY <1>2
  <2>2. u \in Seq(B) /\ Len(u) \in Nat /\ h[i] = Twice(c) \o u /\ c \in B BY <1>1, <1>2, <1>3, <2>1
  <2>3. j \in Nat \ {0} BY <1>6
  <2> HIDE DEF u, c
  <2>4. PICK k \in {1, 2} :
          /\ Stands(s, j + k, u) /\ Len(Twice(c) \o u) = k + Len(u) /\ j <= Len(s) /\ s[j] = c
          /\ IF c = AQuote THEN k = 2 /\ j + 1 <= Len(s) /\ s[j + 1] = AQuote ELSE k = 1
    BY <1>6, <2>2, <2>3, TwiceStands
  <2>5. j + k \in 1..(Len(s) + 1) /\ (j + k) + Len(u) = Len(s) + 1
    <3> DEFINE m == Len(u)
    <3>1. m \in Nat /\ j + (k + m) = Len(s) + 1 /\ j \in Nat /\ k \in Nat BY <2>2, <2>3, <2>4
    <3> HIDE DEF m
    <3>2. (j + k) + m = Len(s) + 1 /\ j + k >= 1 /\ j + k <= Len(s) + 1 /\ j + k \in Nat BY <1>6, <2>3, <3>1
    <3> QED BY <1>6, <3>2 DEF m
  <2>6. g[j + k] = SubSeq(t, i + 1, n) BY <1>9, <2>4, <2>5 DEF u
  <2>7. g[j] = <<c>> \o g[j + k]
    <3>1. j \in 1..(Len(s) + 2) /\ ~(j > Len(s)) BY <1>6, <2>3, <2>4
    <3>2. j + k = IF s[j] = AQuote THEN j + 2 ELSE j + 1 BY <2>4
    <3> QED BY <1>7, <2>4, <3>1, <3>2 DEF PairsAt
  <2> QED BY <1>4, <2>6, <2>7 DEF c
<1> HIDE DEF Good
<1>10. ASSUME NEW i \in 1..(n + 1), \A j \in (i + 1)..(n + 1) : j \in D PROVE i \in D
  <2>1. CASE i = n + 1 BY <1>8, <2>1
  <2>2. CASE i # n + 1
    <3>1. i \in 1..n /\ i + 1 \in (i + 1)..(n + 1) BY <1>2, <2>2
    <3>2. Good(i + 1) BY <1>10, <3>1
    <3> QED BY <1>9, <3>1, <3>2
  <2> QED BY <2>1, <2>2
<1> HIDE DEF D
<1>11. 1 \in Int /\ n + 1 \in Int BY <1>2
<1>12. 1 \in D BY <1>5, <1>10, <1>11, FromBehind
<1>13. Stands(s, 1, s) /\ 1 + Len(s) = Len(s) + 1 /\ 1 \in 1..(Len(s) + 1)
  <2>1. 1 + Len(s) - 1 <= Len(s) /\ 1 \in 1..(Len(s) + 1) /\ 1 + Len(s) = Len(s) + 1 BY <1>6
  <2>2. \A k \in 1..Len(s) : 1 + k - 1 = k BY <1>6
  <2> QED BY <2>1, <2>2 DEF Stands
<1>14. g[1] = SubSeq(t, 1, n)
  <2>1. Good(1) BY <1>12 DEF D
  <2> QED BY <1>1, <1>13, <2>1 DEF Good
<1> QED BY <1>4, <1>6, <1>7, <1>14 DEF s

-----------------------------------------------------------------------------
(* Csv: one field                                                          *)

LEMMA SignsApart ==
  /\ AQuote # AComma /\ AQuote # ACr /\ AQuote # ALf
  /\ AComma # ACr /\ AComma # ALf /\ ACr # ALf
<1> DEFINE E == {AQuote, AComma, ACr, ALf}
<1>1. Cardinality(E) = 4
  <2>1. C!CsvAssumption BY MCStoresAssumption DEF MCStoresAssumption
  <2>2. C!Cardinality(E) = Cardinality(E) BY DEF C!Cardinality, Cardinality
  <2> QED BY <2>1, <2>2 DEF C!CsvAssumption
<1>2. ASSUME NEW a, NEW b, NEW c, E = {a, b, c} PROVE FALSE
  <2>1. IsFiniteSet({}) /\ Cardinality({}) = 0 BY FS_EmptySet
  <2>2. IsFiniteSet({c}) /\ Cardinality({c}) = 1 BY FS_Singleton
  <2>3. IsFiniteSet({c} \cup {b}) /\ Cardinality({c} \cup {b}) \in {1, 2} BY <2>2, FS_AddElement
  <2>4. Cardinality(({c} \cup {b}) \cup {a}) \in {1, 2, 3} BY <2>3, FS_AddElement
  <2>5. ({c} \cup {b}) \cup {a} = E BY <1>2
  <2> QED BY <1>1, <2>4, <2>5
<1>3. AQuote # AComma BY <1>2
<1>4. AQuote # ACr BY <1>2
<1>5. AQuote # ALf BY <1>2
<1>6. AComma # ACr BY <1>2
<1>7. AComma # ALf BY <1>2
<1>8. ACr # ALf BY <1>2
<1> QED BY <1>3, <1>4, <1>5, <1>6, <1>7, <1>8

Signs == {AQuote, AComma, ACr, ALf}

\* Where a line ends at e, and the next one begins
LineEnds(s, e, after) ==
  \/ e = Len(s) + 1 /\ after = e + 1
  \/ e <= Len(s) /\ s[e] = ALf /\ after = e + 1
  \/ e + 1 <= Len(s) /\ s[e] = ACr /\ s[e + 1] = ALf /\ after = e + 2

\* The place that is looked at behind a field
Skipped(s, at) == IF at <= Len(s) /\ s[at] = ACr THEN at + 1 ELSE at

IsField(s, p, t, at) ==
  C!Field(s, p).text = t /\ C!Field(s, p).at = at /\ C!Field(s, p).ok = TRUE

\* A field that was written is read as it was, up to a comma or the end of the line; of a
\* carriage return there the parser has read over if the field was quoted.
LEMMA FieldFound ==
  ASSUME NEW B, Signs \subseteq B, NEW s \in Seq(B), NEW t \in Seq(B), NEW p \in Nat \ {0},
         Stands(s, p, C!WriteField(t)), NEW e, e = p + Len(C!WriteField(t)), NEW after,
         (e <= Len(s) /\ s[e] = AComma) \/ LineEnds(s, e, after)
  PROVE  /\ C!WriteField(t) \in Seq(B) /\ e \in Nat /\ p <= e /\ e <= Len(s) + 1
         /\ \E at \in {e, e + 1} : IsField(s, p, t, at) /\ (at = e + 1 => s[e] = ACr /\ e + 1 <= Len(s) /\ s[e + 1] = ALf)
<1> DEFINE Quoted == \E i \in DOMAIN t : t[i] \in C!Special
<1> DEFINE w == C!WriteField(t)
<1>1. Len(s) \in Nat /\ AQuote \in B /\ \A i \in DOMAIN t : t[i] \in B BY DEF Signs
<1>2. CASE Quoted
  <2> DEFINE d == C!Doubled(t)
  <2> DEFINE u == d \o <<AQuote>>
  <2> DEFINE q == e - 1
  <2>1. d \in Seq(B) /\ C!Unquoted(d) = t /\ Len(d) \in Nat BY <1>1, UnquotedDoubled
  <2>2. w = (<<AQuote>> \o d) \o <<AQuote>> BY <1>2 DEF C!WriteField
  <2> HIDE DEF d, w
  <2>3. <<AQuote>> \in Seq(B) /\ Len(<<AQuote>>) = 1 BY <1>1
  <2> DEFINE v1 == <<AQuote>> \o d
  <2>4. v1 \in Seq(B) /\ w = v1 \o <<AQuote>> BY <2>1, <2>2, <2>3
  <2>5. Stands(s, p, v1) /\ Stands(s, p + Len(v1), <<AQuote>>) /\ Len(w) = Len(v1) + 1 /\ w \in Seq(B)
    <3>1. Stands(s, p, v1 \o <<AQuote>>) BY <2>4 DEF w
    <3> HIDE DEF v1
    <3>2. v1 \o <<AQuote>> \in Seq(B) BY <2>3, <2>4
    <3>3. /\ Stands(s, p, v1) /\ Stands(s, p + Len(v1), <<AQuote>>)
          /\ Len(v1 \o <<AQuote>>) = Len(v1) + Len(<<AQuote>>)
      BY <2>3, <2>4, <3>1, StandsJoined
    <3> QED BY <2>3, <2>4, <3>2, <3>3
  <2>6. Stands(s, p, <<AQuote>>) /\ Stands(s, p + 1, d) /\ Len(v1) = 1 + Len(d)
    BY <2>1, <2>3, <2>5, StandsJoined
  <2> HIDE DEF v1
  <2>7. q = p + 1 + Len(d) /\ q \in Nat \ {0} /\ q = p + Len(v1) /\ e = q + 1 BY <2>1, <2>5, <2>6 DEF w
  <2> HIDE DEF q
  <2>8. s[p] = AQuote /\ p <= Len(s) BY <1>1, <2>6, StandsOne
  <2>9. s[q] = AQuote /\ q <= Len(s) BY <1>1, <2>5, <2>7, StandsOne
  <2>10. ~DoubledAt(s, q)
    BY <1>1, <2>7, SignsApart DEF DoubledAt, LineEnds
  <2>11. C!QuotedEnd(s, p + 1) = q
    <3>1. p + 1 \in Nat \ {0} OBVIOUS
    <3> QED BY <1>1, <2>1, <2>6, <2>7, <2>9, <2>10, <3>1, QuotedEndFound DEF d
  <2>12. SubSeq(s, p + 1, q - 1) = d
    <3>1. p + 1 \in Nat \ {0} /\ q - 1 = (p + 1) + Len(d) - 1 BY <2>1, <2>7
    <3> QED BY <2>1, <2>6, <3>1, StandsSub
  <2> DEFINE at == C!To(s, q + 1, {AComma, ALf})
  <2>13. C!Field(s, p).text = t /\ C!Field(s, p).at = at /\ C!Field(s, p).ok = TRUE
    BY <2>1, <2>8, <2>9, <2>11, <2>12 DEF C!Field
  <2>14. e \in Nat \ {0} /\ p <= e /\ e <= Len(s) + 1 BY <1>1, <2>1, <2>7, <2>9
  <2>15. (e = Len(s) + 1 \/ s[e] \in {AComma, ALf}) => at = e
    <3>1. e..(e - 1) = {} BY <2>14
    <3> SUFFICES ASSUME e = Len(s) + 1 \/ s[e] \in {AComma, ALf} PROVE C!To(s, e, {AComma, ALf}) = e BY <2>7
    <3>2. \A i \in e..(e - 1) : s[i] \notin {AComma, ALf} BY <3>1
    <3> QED BY <2>14, <3>2, ToIs
  <2>16. s[e] = ACr /\ e + 1 <= Len(s) /\ s[e + 1] = ALf => at = e + 1
    <3> SUFFICES ASSUME s[e] = ACr, e + 1 <= Len(s), s[e + 1] = ALf
                 PROVE  C!To(s, e, {AComma, ALf}) = e + 1
      BY <2>7
    <3>1. e + 1 \in Nat /\ e <= e + 1 /\ e + 1 <= Len(s) + 1 /\ s[e + 1] \in {AComma, ALf} BY <1>1, <2>14
    <3>2. \A i \in e..(e + 1 - 1) : s[i] \notin {AComma, ALf}
      <4>1. \A i \in e..(e + 1 - 1) : i = e BY <2>14
      <4> QED BY <4>1, SignsApart
    <3> DEFINE x == e + 1
    <3>3. x \in Nat /\ e <= x /\ x <= Len(s) + 1 /\ s[x] \in {AComma, ALf} /\ \A i \in e..(x - 1) : s[i] \notin {AComma, ALf}
      BY <3>1, <3>2
    <3> HIDE DEF x
    <3>4. C!To(s, e, {AComma, ALf}) = x BY <2>14, <3>3, ToIs
    <3> QED BY <3>4 DEF x
  <2>17. e = Len(s) + 1 \/ s[e] \in {AComma, ALf} \/ (s[e] = ACr /\ e + 1 <= Len(s) /\ s[e + 1] = ALf)
    BY DEF LineEnds
  <2> HIDE DEF at
  <2> QED BY <2>5, <2>13, <2>14, <2>15, <2>16, <2>17 DEF IsField, w
<1>3. CASE ~Quoted
  <2>1. w = t /\ \A i \in DOMAIN t : t[i] \notin C!Special BY <1>3 DEF C!WriteField
  <2> HIDE DEF w
  <2>2. Len(t) \in Nat /\ DOMAIN t = 1..Len(t) OBVIOUS
  <2>3. e = p + Len(t) /\ e \in Nat \ {0} /\ p <= e BY <2>1, <2>2 DEF w
  <2>4. Stands(s, p, t) BY <2>1 DEF w
  <2>5. \A i \in p..(e - 1) : i <= Len(s) /\ s[i] \notin C!Special
    <3> TAKE i \in p..(e - 1)
    <3>1. i - p + 1 \in 1..Len(t) /\ p + (i - p + 1) - 1 = i /\ i <= p + Len(t) - 1 BY <2>2, <2>3
    <3>2. s[i] = t[i - p + 1] /\ i <= Len(s) BY <1>1, <2>2, <2>4, <3>1 DEF Stands
    <3> QED BY <2>1, <2>2, <3>1, <3>2
  <2>6. e <= Len(s) + 1
    BY <1>1, <2>3 DEF LineEnds
  <2>7. e <= Len(s) => s[e] \in {AComma, ACr, ALf} BY <1>1 DEF LineEnds
  <2>8. C!To(s, p, {AComma, ACr, ALf}) = e
    <3>1. \A i \in p..(e - 1) : s[i] \notin {AComma, ACr, ALf} BY <2>5 DEF C!Special
    <3>2. e = Len(s) + 1 \/ s[e] \in {AComma, ACr, ALf} BY <1>1, <2>3, <2>6, <2>7
    <3> QED BY <2>3, <2>6, <3>1, <3>2, ToIs
  <2>9. ~(p <= Len(s) /\ s[p] = AQuote)
    <3>1. CASE p = e BY <2>7, <3>1, SignsApart
    <3>2. CASE p # e
      <4>1. p \in p..(e - 1) BY <2>3, <3>2
      <4> QED BY <2>5, <4>1 DEF C!Special
    <3> QED BY <3>1, <3>2
  <2>10. SubSeq(s, p, e - 1) = t BY <2>3, <2>4, StandsSub
  <2>11. C!Field(s, p).text = t /\ C!Field(s, p).at = e /\ C!Field(s, p).ok = TRUE
    BY <2>8, <2>9, <2>10 DEF C!Field
  <2> QED BY <2>1, <2>3, <2>6, <2>11 DEF IsField, w
<1> QED BY <1>2, <1>3

\* Whatever stands at a place: a field of the text, and it goes no way back.
LEMMA FieldTyped ==
  ASSUME NEW B, NEW s \in Seq(B), NEW p \in 1..(Len(s) + 1)
  PROVE  /\ C!Field(s, p).text \in Seq(B) /\ C!Field(s, p).ok \in BOOLEAN
         /\ C!Field(s, p).at \in p..(Len(s) + 1)
<1>1. Len(s) \in Nat /\ p \in Nat \ {0} OBVIOUS
<1>2. ASSUME NEW a \in Nat \ {0}, NEW b \in Int, b <= Len(s) PROVE SubSeq(s, a, b) \in Seq(B)
  <2>1. \A i \in a..b : s[i] \in B BY <1>1, <1>2
  <2> QED BY <2>1, SubSeqProperties
<1>3. CASE p <= Len(s) /\ s[p] = AQuote
  <2> DEFINE q == C!QuotedEnd(s, p + 1)
  <2> DEFINE at == C!To(s, q + 1, {AComma, ALf})
  <2>1. q \in (p + 1)..(Len(s) + 1)
    <3>1. p + 1 \in 1..(Len(s) + 1) BY <1>1, <1>3
    <3>2. p + 1 \in (p + 1)..(Len(s) + 2) BY <1>1, <1>3
    <3> QED BY <3>1, <3>2, Closes
  <2> HIDE DEF q
  <2>2. q + 1 \in Nat \ {0} /\ q - 1 \in Int /\ q - 1 <= Len(s) /\ p + 1 \in Nat \ {0} BY <1>1, <2>1
  <2>3. at \in Nat \ {0} /\ at <= Len(s) + 1 /\ (at = Len(s) + 1 \/ at >= q + 1) BY <2>2, ToFound
  <2>4. SubSeq(s, p + 1, q - 1) \in Seq(B) BY <1>2, <2>2
  <2>5. \E g : C!Unquoted(SubSeq(s, p + 1, q - 1)) = g[1]
               /\ \A i \in 1..(Len(SubSeq(s, p + 1, q - 1)) + 2) : g[i] \in Seq(B)
    BY <2>4, Pairs
  <2>6. 1 \in 1..(Len(SubSeq(s, p + 1, q - 1)) + 2)
    <3>1. \A x \in Seq(B) : 1 \in 1..(Len(x) + 2) OBVIOUS
    <3> QED BY <2>4, <3>1, Zenon
  <2>7. C!Unquoted(SubSeq(s, p + 1, q - 1)) \in Seq(B) BY <2>5, <2>6
  <2>8. /\ C!Field(s, p).text = C!Unquoted(SubSeq(s, p + 1, q - 1)) /\ C!Field(s, p).at = at
        /\ C!Field(s, p).ok = (q <= Len(s))
    BY <1>3 DEF C!Field, q
  <2>9. at \in p..(Len(s) + 1)
    <3> HIDE DEF at
    <3> QED BY <1>1, <2>1, <2>3
  <2> QED BY <2>7, <2>8, <2>9
<1>4. CASE ~(p <= Len(s) /\ s[p] = AQuote)
  <2> DEFINE at == C!To(s, p, {AComma, ACr, ALf})
  <2>1. at \in Nat \ {0} /\ at <= Len(s) + 1 /\ (at = Len(s) + 1 \/ at >= p) BY <1>1, ToFound
  <2>2. C!Field(s, p).text = SubSeq(s, p, at - 1) /\ C!Field(s, p).at = at /\ C!Field(s, p).ok = TRUE
    BY <1>4 DEF C!Field
  <2> HIDE DEF at
  <2>3. SubSeq(s, p, at - 1) \in Seq(B)
    <3>1. at - 1 \in Int /\ at - 1 <= Len(s) BY <1>1, <2>1
    <3> QED BY <1>1, <1>2, <3>1
  <2>4. at \in p..(Len(s) + 1) BY <1>1, <2>1
  <2> QED BY <2>2, <2>3, <2>4
<1> QED BY <1>3, <1>4

-----------------------------------------------------------------------------
(* Csv: one row                                                            *)

\* The recursion of Row
RowAt(s, read, j) ==
  LET rest(f, k) ==
        IF f.at > Len(s) \/ k > Len(s) \/ s[k] = ALf
        THEN [row |-> <<>>, at |-> k + 1, ok |-> f.at > Len(s) \/ k <= Len(s)]
        ELSE read[k + 1] IN
  LET with(f, r) == [row |-> <<f.text>> \o r.row, at |-> r.at, ok |-> f.ok /\ r.ok] IN
  LET after(f) == with(f, rest(f, IF f.at <= Len(s) /\ s[f.at] = ACr THEN f.at + 1 ELSE f.at))
  IN after(C!Field(s, j))
RowReadsOf(s, i, read) == [j \in i..(Len(s) + 1) |-> RowAt(s, read, j)]

LEMMA RowIs == \A s, i : C!Row(s, i) = (CHOOSE read : read = RowReadsOf(s, i, read))[i]
BY Zenon DEF C!Row, RowReadsOf, RowAt

\* Behind its field it goes on with another one, or ends.
GoesOn(s, f, k) == ~(f.at > Len(s) \/ k > Len(s) \/ s[k] = ALf)
EndOfRow(s, f, k) ==
  [row |-> <<f.text>> \o <<>>, at |-> k + 1, ok |-> f.ok /\ (f.at > Len(s) \/ k <= Len(s))]
FurtherRow(f, r) == [row |-> <<f.text>> \o r.row, at |-> r.at, ok |-> f.ok /\ r.ok]

LEMMA RowAtIs ==
  ASSUME NEW s, NEW read, NEW j, NEW f, f = C!Field(s, j), NEW k, k = Skipped(s, f.at)
  PROVE  RowAt(s, read, j) = IF GoesOn(s, f, k) THEN FurtherRow(f, read[k + 1]) ELSE EndOfRow(s, f, k)
BY Zenon DEF RowAt, Skipped, GoesOn, FurtherRow, EndOfRow

\* What is read as a row of B's, which goes forward
RowsOver(B, s, i) == [row : Seq(Seq(B)), at : (i + 1)..(Len(s) + 2), ok : BOOLEAN]

LEMMA RowReads ==
  ASSUME NEW B, NEW s \in Seq(B), NEW p \in 1..(Len(s) + 1)
  PROVE  \E read : /\ C!Row(s, p) = read[p]
                   /\ \A j \in p..(Len(s) + 1) : read[j] = RowAt(s, read, j) /\ read[j] \in RowsOver(B, s, p)
<1> DEFINE n == Len(s) + 1
<1> DEFINE Values == RowsOver(B, s, p)
<1> DEFINE f == [j \in p..n |-> C!Field(s, j)]
<1> DEFINE k == [j \in p..n |-> Skipped(s, f[j].at)]
<1> DEFINE to == [j \in p..n |-> IF GoesOn(s, f[j], k[j]) THEN k[j] + 1 ELSE 0]
<1> DEFINE next == [x \in (p..n) \X Values |-> FurtherRow(f[x[1]], x[2])]
<1> DEFINE end == [j \in p..n |-> IF GoesOn(s, f[j], k[j]) THEN [row |-> <<>>, at |-> p + 1, ok |-> TRUE] ELSE EndOfRow(s, f[j], k[j])]
<1>1. Len(s) \in Nat /\ n = Len(s) + 1 /\ n \in Int /\ p \in Nat \ {0} /\ p <= n OBVIOUS
<1>2. ASSUME NEW j \in p..n
      PROVE  /\ f[j] = C!Field(s, j) /\ f[j].text \in Seq(B) /\ f[j].ok \in BOOLEAN /\ f[j].at \in j..n
             /\ k[j] = Skipped(s, f[j].at) /\ k[j] \in j..n
  <2>1. j \in 1..(Len(s) + 1) /\ f[j] = C!Field(s, j) /\ k[j] = Skipped(s, f[j].at) BY <1>1
  <2>2. f[j].text \in Seq(B) /\ f[j].ok \in BOOLEAN /\ f[j].at \in j..n BY <2>1, FieldTyped
  <2>3. k[j] \in j..n BY <1>1, <2>1, <2>2 DEF Skipped
  <2> QED BY <2>1, <2>2, <2>3
<1> HIDE DEF f, k
<1>3. \A j \in p..n : to[j] = IF GoesOn(s, f[j], k[j]) THEN k[j] + 1 ELSE 0 OBVIOUS
<1>4. \A j \in p..n : GoesOn(s, f[j], k[j]) <=> to[j] \in (j + 1)..n
  <2> TAKE j \in p..n
  <2>1. CASE GoesOn(s, f[j], k[j])
    <3>1. k[j] <= Len(s) /\ k[j] \in j..n BY <1>1, <1>2, <2>1 DEF GoesOn
    <3> QED BY <1>1, <1>3, <2>1, <3>1
  <2>2. CASE ~GoesOn(s, f[j], k[j])
    <3>1. to[j] = 0 /\ j \in Nat BY <1>1, <1>3, <2>2
    <3> QED BY <2>2, <3>1
  <2> QED BY <2>1, <2>2
<1> HIDE DEF to
<1>5. ASSUME NEW j \in p..n, NEW r \in Values PROVE FurtherRow(f[j], r) \in Values
  <2>1. r.row \in Seq(Seq(B)) /\ r.at \in (p + 1)..(Len(s) + 2) /\ r.ok \in BOOLEAN BY DEF RowsOver
  <2>2. <<f[j].text>> \in Seq(Seq(B)) BY <1>2
  <2>3. <<f[j].text>> \o r.row \in Seq(Seq(B)) BY <2>1, <2>2
  <2>4. (f[j].ok /\ r.ok) \in BOOLEAN OBVIOUS
  <2> QED BY <2>1, <2>3, <2>4 DEF FurtherRow, RowsOver
<1>6. next \in [(p..n) \X Values -> Values] /\ \A j \in p..n, r \in Values : next[<<j, r>>] = FurtherRow(f[j], r)
  <2> HIDE DEF Values
  <2> QED BY <1>5
<1>7. ASSUME NEW j \in p..n PROVE end[j] \in Values /\ (~GoesOn(s, f[j], k[j]) => end[j] = EndOfRow(s, f[j], k[j]))
  <2>1. [row |-> <<>>, at |-> p + 1, ok |-> TRUE] \in Values BY <1>1 DEF RowsOver
  <2>2. EndOfRow(s, f[j], k[j]) \in Values
    <3>1. <<f[j].text>> \o <<>> \in Seq(Seq(B))
      <4>1. <<f[j].text>> \in Seq(Seq(B)) /\ <<>> \in Seq(Seq(B)) BY <1>2
      <4> QED BY <4>1
    <3>2. k[j] + 1 \in (p + 1)..(Len(s) + 2) BY <1>1, <1>2
    <3>3. (f[j].ok /\ (f[j].at > Len(s) \/ k[j] <= Len(s))) \in BOOLEAN OBVIOUS
    <3> QED BY <3>1, <3>2, <3>3 DEF EndOfRow, RowsOver
  <2> QED BY <2>1, <2>2
<1> HIDE DEF n, Values, next, end
<1>8. IsWalk(p, n, Values, next, end)
  <2>1. end = [j \in p..n |-> end[j]] BY DEF end
  <2>2. end \in [p..n -> Values] BY <1>7, <2>1
  <2> QED BY <1>1, <1>6, <2>2 DEF IsWalk
<1>9. PICK g : WalkIs(p, n, Values, to, next, end, g) BY <1>8, WalkExists
<1>10. ASSUME NEW g1, NEW j \in p..n, to[j] \in (j + 1)..n => g1[to[j]] \in Values
       PROVE  RowAt(s, g1, j) = WalkAt(n, to, next, end, g1, j)
  <2>1. RowAt(s, g1, j) = IF GoesOn(s, f[j], k[j]) THEN FurtherRow(f[j], g1[k[j] + 1]) ELSE EndOfRow(s, f[j], k[j])
    BY <1>2, RowAtIs
  <2>2. CASE GoesOn(s, f[j], k[j])
    <3>1. to[j] \in (j + 1)..n /\ to[j] = k[j] + 1 BY <1>3, <1>4, <2>2
    <3>2. next[<<j, g1[to[j]]>>] = FurtherRow(f[j], g1[to[j]]) BY <1>6, <1>10, <3>1
    <3> QED BY <2>1, <2>2, <3>1, <3>2 DEF WalkAt
  <2>3. CASE ~GoesOn(s, f[j], k[j])
    <3>1. to[j] \notin (j + 1)..n BY <1>4, <2>3
    <3> QED BY <1>7, <2>1, <2>3, <3>1 DEF WalkAt
  <2> QED BY <2>2, <2>3
<1>11. \A j \in p..n : g[j] = RowAt(s, g, j)
  <2> TAKE j \in p..n
  <2>1. to[j] \in (j + 1)..n => g[to[j]] \in Values
    <3>1. to[j] \in (j + 1)..n => to[j] \in p..n BY <1>1
    <3> QED BY <1>9, <3>1 DEF WalkIs
  <2> QED BY <1>9, <1>10, <2>1 DEF WalkIs
<1>12. g = RowReadsOf(s, p, g)
  <2>1. g = [j \in p..n |-> g[j]] BY <1>9 DEF WalkIs
  <2> QED BY <1>11, <2>1 DEF RowReadsOf, n
<1> DEFINE read == CHOOSE read : read = RowReadsOf(s, p, read)
<1>13. read = RowReadsOf(s, p, read) BY <1>12
<1>14. C!Row(s, p) = read[p] BY RowIs
<1> HIDE DEF read
<1>15. \A j \in p..n : read[j] = RowAt(s, read, j) BY <1>13 DEF RowReadsOf, n
<1>16. \A j \in p..n : (to[j] \in (j + 1)..n => read[to[j]] \in Values) => read[j] = WalkAt(n, to, next, end, read, j)
  BY <1>10, <1>15
<1>17. \A j \in p..n : read[j] \in Values BY <1>8, <1>16, WalkTyped, SMTT(60)
<1> QED BY <1>14, <1>15, <1>17 DEF n, Values

LEMMA WriteTyped ==
  ASSUME NEW B, Signs \subseteq B, NEW t \in Seq(B)
  PROVE  C!WriteField(t) \in Seq(B)
<1> DEFINE d == C!Doubled(t)
<1>1. AQuote \in B BY DEF Signs
<1>2. d \in Seq(B) BY <1>1, UnquotedDoubled
<1> HIDE DEF d
<1>3. (<<AQuote>> \o d) \o <<AQuote>> \in Seq(B) BY <1>1, <1>2
<1> QED BY <1>3 DEF C!WriteField, d

\* The fields of a row from i on as they are written, when h is the rest behind each.
WithRest(r, h, i) == C!WriteField(r[i]) \o h[i + 1]
CommaThen(w, u) == (<<AComma>> \o w) \o u

LEMMA RowJoins ==
  ASSUME NEW B, Signs \subseteq B, NEW r \in Seq(Seq(B)), Len(r) >= 1
  PROVE  \E h \in [1..(Len(r) + 1) -> Seq(B)] :
           /\ h[Len(r) + 1] = <<>> /\ C!WriteRow(r) = WithRest(r, h, 1) /\ C!WriteRow(r) \in Seq(B)
           /\ \A i \in 1..Len(r) : i > 1 => h[i] = CommaThen(C!WriteField(r[i]), h[i + 1])
<1> DEFINE n == Len(r)
<1> DEFINE parts == [i \in DOMAIN r |-> (IF i > 1 THEN <<AComma>> ELSE <<>>) \o C!WriteField(r[i])]
<1>1. n \in Nat /\ DOMAIN r = 1..n /\ \A i \in 1..n : r[i] \in Seq(B) OBVIOUS
<1>2. <<AComma>> \in Seq(B) /\ <<>> \in Seq(B) BY DEF Signs
<1>3. \A i \in 1..n : (IF i > 1 THEN <<AComma>> ELSE <<>>) \o C!WriteField(r[i]) \in Seq(B)
  <2> TAKE i \in 1..n
  <2> DEFINE a == IF i > 1 THEN <<AComma>> ELSE <<>>
  <2> DEFINE w == C!WriteField(r[i])
  <2>1. a \in Seq(B) /\ w \in Seq(B) BY <1>1, <1>2, WriteTyped
  <2> HIDE DEF a, w
  <2>2. a \o w \in Seq(B) BY <2>1
  <2> QED BY <2>2 DEF a, w
<1>4. parts \in [1..n -> Seq(B)] BY <1>1, <1>3
<1>5. parts \in Seq(Seq(B)) /\ Len(parts) = n
      /\ \A i \in 1..n : parts[i] = (IF i > 1 THEN <<AComma>> ELSE <<>>) \o C!WriteField(r[i])
  BY <1>1, <1>4
<1>6. C!WriteRow(r) = C!FlattenSeq(parts) BY DEF C!WriteRow
<1> HIDE DEF parts, n
<1>7. PICK h \in [1..(Len(parts) + 1) -> Seq(B)] : Joins(parts, h) BY <1>5, JoinsExist
<1>8. C!FlattenSeq(parts) = h[1] /\ h[1] \in Seq(B) BY <1>5, <1>7, Flattened
<1>9. h \in [1..(n + 1) -> Seq(B)] /\ h[n + 1] = <<>> /\ \A i \in 1..n : h[i] = parts[i] \o h[i + 1]
  BY <1>5, <1>7 DEF Joins
<1>10. h[1] = WithRest(r, h, 1)
  <2>1. 1 \in 1..n BY <1>1 DEF n
  <2>2. parts[1] = <<>> \o C!WriteField(r[1])
    <3>1. \A i \in 1..n : ~(i > 1) => parts[i] = <<>> \o C!WriteField(r[i]) BY <1>5, Zenon
    <3>2. ~(1 > 1) OBVIOUS
    <3> QED BY <2>1, <3>1, <3>2
  <2>3. C!WriteField(r[1]) \in Seq(B) BY <1>1, <2>1, WriteTyped
  <2>4. parts[1] = C!WriteField(r[1]) BY <2>2, <2>3, ConcatEmptySeq
  <2> QED BY <1>9, <2>1, <2>4 DEF WithRest
<1>11. \A i \in 1..n : i > 1 => h[i] = CommaThen(C!WriteField(r[i]), h[i + 1]) BY <1>5, <1>9 DEF CommaThen
<1> QED BY <1>6, <1>8, <1>9, <1>10, <1>11 DEF n

RowResult(row, at) == [row |-> row, at |-> at, ok |-> TRUE]

\* t stands as a field from b to m, where a row is being read.
ReadsField(B, s, t, b, m, read) ==
  /\ Signs \subseteq B /\ s \in Seq(B) /\ t \in Seq(B) /\ b \in Nat \ {0}
  /\ Stands(s, b, C!WriteField(t)) /\ m = b + Len(C!WriteField(t)) /\ read[b] = RowAt(s, read, b)

LEMMA FieldAhead ==
  ASSUME NEW B, NEW s, NEW t, NEW b, NEW m, NEW read, ReadsField(B, s, t, b, m, read), NEW after,
         (m <= Len(s) /\ s[m] = AComma) \/ LineEnds(s, m, after)
  PROVE  /\ m \in Nat /\ b <= m /\ m <= Len(s) + 1
         /\ \E at \in {m, m + 1} : IsField(s, b, t, at) /\ (at = m + 1 => s[m] = ACr /\ m + 1 <= Len(s) /\ s[m + 1] = ALf)
BY FieldFound DEF ReadsField

\* A field and the end of its line
LEMMA RowStops ==
  ASSUME NEW B, NEW s, NEW t, NEW b, NEW m, NEW read, ReadsField(B, s, t, b, m, read), NEW after,
         LineEnds(s, m, after)
  PROVE  read[b] = RowResult(<<t>> \o <<>>, after)
<1>0. read[b] = RowAt(s, read, b) /\ s \in Seq(B) /\ b \in Nat \ {0} BY DEF ReadsField
<1> DEFINE f == C!Field(s, b)
<1> DEFINE k == Skipped(s, f.at)
<1>1. RowAt(s, read, b) = IF GoesOn(s, f, k) THEN FurtherRow(f, read[k + 1]) ELSE EndOfRow(s, f, k)
  BY RowAtIs
<1>2. Len(s) \in Nat /\ b \in Nat \ {0} BY <1>0
<1>3. /\ m \in Nat /\ b <= m /\ m <= Len(s) + 1
      /\ \E at \in {m, m + 1} : IsField(s, b, t, at) /\ (at = m + 1 => s[m] = ACr /\ m + 1 <= Len(s) /\ s[m + 1] = ALf)
  BY FieldAhead
<1>4. PICK at \in {m, m + 1} : IsField(s, b, t, at) /\ (at = m + 1 => s[m] = ACr /\ m + 1 <= Len(s) /\ s[m + 1] = ALf)
  BY <1>3
<1>5. m \in Nat /\ b <= m /\ m <= Len(s) + 1 BY <1>3
<1>6. f.text = t /\ f.at = at /\ f.ok = TRUE BY <1>4 DEF IsField
<1> HIDE DEF f
<1>7. /\ ~GoesOn(s, f, k) /\ k + 1 = after /\ (f.at > Len(s) \/ k <= Len(s))
  <2>1. CASE m = Len(s) + 1
    <3>1. at = m BY <1>2, <1>4, <2>1
    <3>2. k = m BY <1>2, <1>6, <2>1, <3>1 DEF Skipped
    <3>3. after = m + 1 BY <1>2, <2>1 DEF LineEnds
    <3> QED BY <1>2, <1>6, <2>1, <3>1, <3>2, <3>3 DEF GoesOn
  <2>2. CASE m <= Len(s) /\ s[m] = ALf /\ after = m + 1
    <3>1. at = m BY <1>4, <2>2, SignsApart
    <3>2. k = m BY <1>6, <2>2, <3>1, SignsApart DEF Skipped
    <3> QED BY <2>2, <3>2 DEF GoesOn
  <2>3. CASE m + 1 <= Len(s) /\ s[m] = ACr /\ s[m + 1] = ALf /\ after = m + 2
    <3>1. k = m + 1
      <4>1. CASE at = m BY <1>2, <1>5, <1>6, <2>3, <4>1 DEF Skipped
      <4>2. CASE at = m + 1 BY <1>6, <2>3, <4>2, SignsApart DEF Skipped
      <4> QED BY <1>4, <4>1, <4>2
    <3> QED BY <1>2, <1>5, <2>3, <3>1 DEF GoesOn
  <2> QED BY <2>1, <2>2, <2>3 DEF LineEnds
<1>8. read[b] = EndOfRow(s, f, k) BY <1>0, <1>1, <1>7 DEF f
<1> HIDE DEF k
<1> QED BY <1>6, <1>7, <1>8 DEF EndOfRow, RowResult

\* A field and a comma: the next field begins behind it.
LEMMA RowContinues ==
  ASSUME NEW B, NEW s, NEW t, NEW b, NEW m, NEW read, ReadsField(B, s, t, b, m, read), NEW after,
         m <= Len(s), s[m] = AComma, NEW x, read[m + 1] = RowResult(x, after)
  PROVE  read[b] = RowResult(<<t>> \o x, after)
<1>0. read[b] = RowAt(s, read, b) /\ s \in Seq(B) /\ b \in Nat \ {0} BY DEF ReadsField
<1> DEFINE f == C!Field(s, b)
<1> DEFINE k == Skipped(s, f.at)
<1>1. RowAt(s, read, b) = IF GoesOn(s, f, k) THEN FurtherRow(f, read[k + 1]) ELSE EndOfRow(s, f, k)
  BY RowAtIs
<1>2. Len(s) \in Nat /\ b \in Nat \ {0} BY <1>0
<1>3. /\ m \in Nat /\ b <= m /\ m <= Len(s) + 1
      /\ \E at \in {m, m + 1} : IsField(s, b, t, at) /\ (at = m + 1 => s[m] = ACr /\ m + 1 <= Len(s) /\ s[m + 1] = ALf)
  BY FieldAhead
<1>4. PICK at \in {m, m + 1} : IsField(s, b, t, at) /\ (at = m + 1 => s[m] = ACr /\ m + 1 <= Len(s) /\ s[m + 1] = ALf)
  BY <1>3
<1>5. m \in Nat BY <1>3
<1>6. f.text = t /\ f.at = m /\ f.ok = TRUE BY <1>4, SignsApart DEF IsField
<1> HIDE DEF f
<1>7. k = m BY <1>6, SignsApart DEF Skipped
<1>8. GoesOn(s, f, k) BY <1>2, <1>5, <1>6, <1>7, SignsApart DEF GoesOn
<1>9. read[b] = FurtherRow(f, read[m + 1]) BY <1>0, <1>1, <1>7, <1>8 DEF f
<1> DEFINE g == read[m + 1]
<1>10. g.row = x /\ g.at = after /\ g.ok = TRUE BY DEF RowResult
<1>11. read[b] = [row |-> <<f.text>> \o g.row, at |-> g.at, ok |-> f.ok /\ g.ok] BY <1>9 DEF FurtherRow
<1> HIDE DEF g
<1>12. (f.ok /\ g.ok) = TRUE BY <1>6, <1>10
<1>13. read[b] = [row |-> <<t>> \o x, at |-> after, ok |-> TRUE] BY <1>6, <1>10, <1>11, <1>12, Zenon
<1> QED BY <1>13 DEF RowResult

\* Behind a comma
LEMMA CommaStands ==
  ASSUME NEW B, AComma \in B, NEW s \in Seq(B), NEW w \in Seq(B), NEW u \in Seq(B), NEW m \in Nat \ {0},
         Stands(s, m, CommaThen(w, u))
  PROVE  /\ m <= Len(s) /\ s[m] = AComma /\ Stands(s, m + 1, w \o u)
         /\ Len(CommaThen(w, u)) = 1 + Len(w \o u)
<1> USE DEF CommaThen
<1> DEFINE c == <<AComma>>
<1>1. c \in Seq(B) /\ Len(c) = 1 OBVIOUS
<1>2. Stands(s, m, <<AComma>>) <=> m <= Len(s) /\ s[m] = AComma BY StandsOne
<1> HIDE DEF c
<1>3. c \o w \in Seq(B) /\ Len(c \o w) = 1 + Len(w) /\ w \o u \in Seq(B) /\ Len(w \o u) = Len(w) + Len(u)
  BY <1>1, ConcatProperties
<1>4. /\ Stands(s, m, c \o w) /\ Stands(s, m + Len(c \o w), u)
      /\ Len((c \o w) \o u) = Len(c \o w) + Len(u)
  <2>1. Stands(s, m, (c \o w) \o u) BY DEF c
  <2> DEFINE cw == c \o w
  <2>2. cw \in Seq(B) /\ Stands(s, m, cw \o u) BY <1>3, <2>1
  <2> HIDE DEF cw
  <2>3. Stands(s, m, cw) /\ Stands(s, m + Len(cw), u) /\ Len(cw \o u) = Len(cw) + Len(u) BY <2>2, StandsJoined
  <2> QED BY <2>3 DEF cw
<1>5. Stands(s, m, c) /\ Stands(s, m + 1, w) BY <1>1, <1>4, StandsJoined
<1>6. Len(w) \in Nat /\ Len(u) \in Nat OBVIOUS
<1>7. Stands(s, m + 1, w \o u)
  <2>1. m + 1 \in Nat \ {0} /\ m + Len(c \o w) = (m + 1) + Len(w) BY <1>3, <1>6
  <2> QED BY <1>4, <1>5, <2>1, StandsJoined
<1> QED BY <1>2, <1>3, <1>4, <1>5, <1>6, <1>7 DEF c

\* r stands as a row from p to e, where its line ends.
RowStands(B, s, r, p, e, after) ==
  /\ Signs \subseteq B /\ s \in Seq(B) /\ r \in Seq(Seq(B)) /\ Len(r) >= 1 /\ p \in Nat \ {0}
  /\ Stands(s, p, C!WriteRow(r)) /\ e = p + Len(C!WriteRow(r)) /\ LineEnds(s, e, after)

\* A row that was written is read as it was, and the next one begins behind its line.
LEMMA RowFound ==
  ASSUME NEW B, NEW s, NEW r, NEW p, NEW e, NEW after, RowStands(B, s, r, p, e, after)
  PROVE  C!Row(s, p) = RowResult(r, after)
<1> USE DEF RowStands
<1> DEFINE n == Len(r)
<1>1. PICK h \in [1..(n + 1) -> Seq(B)] :
        /\ h[n + 1] = <<>> /\ C!WriteRow(r) = WithRest(r, h, 1) /\ C!WriteRow(r) \in Seq(B)
        /\ \A i \in 1..n : i > 1 => h[i] = CommaThen(C!WriteField(r[i]), h[i + 1])
  BY RowJoins
<1>2. n \in Nat /\ n >= 1 /\ Len(s) \in Nat /\ AComma \in B /\ \A i \in 1..n : r[i] \in Seq(B) BY DEF Signs
<1>3. \A i \in 1..(n + 1) : h[i] \in Seq(B) /\ Len(h[i]) \in Nat
  <2> TAKE i \in 1..(n + 1)
  <2>1. h[i] \in Seq(B) BY <1>1
  <2> QED BY <2>1
<1>4. /\ SubSeq(r, 1, n) = r /\ SubSeq(r, n + 1, n) = <<>>
      /\ \A k \in 1..n : <<r[k]>> \o SubSeq(r, k + 1, n) = SubSeq(r, k, n)
  BY LastItems
<1> HIDE DEF n
<1>5. \A i \in 1..n : C!WriteField(r[i]) \in Seq(B) /\ Len(C!WriteField(r[i])) \in Nat
  <2> TAKE i \in 1..n
  <2> DEFINE w == C!WriteField(r[i])
  <2>1. w \in Seq(B) BY <1>2, WriteTyped
  <2> HIDE DEF w
  <2>2. Len(w) \in Nat BY <2>1
  <2> QED BY <2>1, <2>2 DEF w
<1>6. e \in Nat /\ p <= e /\ e <= Len(s) + 1
  <2>1. Len(C!WriteRow(r)) \in Nat
    <3> DEFINE w == C!WriteRow(r)
    <3>1. w \in Seq(B) BY <1>1
    <3> HIDE DEF w
    <3>2. Len(w) \in Nat BY <3>1
    <3> QED BY <3>2 DEF w
  <2>2. e \in Nat /\ p <= e BY <2>1
  <2> QED BY <1>2, <2>2 DEF LineEnds
<1>7. p \in 1..(Len(s) + 1) BY <1>2, <1>6
<1>8. PICK read : /\ C!Row(s, p) = read[p]
                  /\ \A j \in p..(Len(s) + 1) : read[j] = RowAt(s, read, j) /\ read[j] \in RowsOver(B, s, p)
  BY <1>7, RowReads
<1> DEFINE Good(i) == \A b \in p..e : Stands(s, b, WithRest(r, h, i)) /\ b + Len(WithRest(r, h, i)) = e =>
                        read[b] = RowResult(SubSeq(r, i, n), after)
<1> DEFINE D == {i \in 1..n : Good(i)}
<1>9. ASSUME NEW i \in 1..n, i < n => Good(i + 1) PROVE Good(i)
  <2> SUFFICES ASSUME NEW b \in p..e, Stands(s, b, WithRest(r, h, i)), b + Len(WithRest(r, h, i)) = e
               PROVE  read[b] = RowResult(SubSeq(r, i, n), after)
    OBVIOUS
  <2> DEFINE w == C!WriteField(r[i])
  <2> DEFINE u == h[i + 1]
  <2> DEFINE t == r[i]
  <2> DEFINE m == b + Len(w)
  <2>1. i + 1 \in 1..(n + 1) /\ b \in Nat \ {0} /\ b \in p..(Len(s) + 1) BY <1>2, <1>6
  <2>2. w \in Seq(B) /\ Len(w) \in Nat /\ u \in Seq(B) /\ Len(u) \in Nat /\ t \in Seq(B) BY <1>2, <1>3, <1>5, <2>1
  <2>3. Stands(s, b, w \o u) /\ b + Len(w \o u) = e BY DEF WithRest
  <2>4. read[b] = RowAt(s, read, b) BY <1>8, <2>1
  <2>5. w = C!WriteField(t) OBVIOUS
  <2> HIDE DEF w, u, t
  <2>6. Stands(s, b, w) /\ Stands(s, m, u) /\ Len(w \o u) = Len(w) + Len(u) BY <2>1, <2>2, <2>3, StandsJoined
  <2>7. m + Len(u) = e /\ m \in Nat \ {0} /\ b <= m
    <3> DEFINE lw == Len(w)
    <3> DEFINE lu == Len(u)
    <3>1. lw \in Nat /\ lu \in Nat /\ b + (lw + lu) = e /\ m = b + lw BY <2>2, <2>3, <2>6
    <3> HIDE DEF lw, lu, m
    <3>2. m + lu = e /\ m \in Nat \ {0} /\ b <= m BY <2>1, <3>1
    <3> QED BY <3>2 DEF lu
  <2>8. m = b + Len(C!WriteField(t)) /\ Stands(s, b, C!WriteField(t)) BY <2>5, <2>6
  <2> HIDE DEF m
  <2>a. ReadsField(B, s, t, b, m, read) BY <2>1, <2>2, <2>4, <2>8 DEF ReadsField
  <2>9. CASE i = n
    <3>1. u = <<>> BY <1>1, <2>9 DEF u
    <3>2. Len(u) = 0 BY <3>1
    <3>3. m = e BY <1>6, <2>7, <3>2
    <3>4. LineEnds(s, m, after) BY <3>3
    <3>5. read[b] = RowResult(<<t>> \o <<>>, after) BY <2>a, <3>4, RowStops
    <3>6. <<t>> \o <<>> = SubSeq(r, i, n) BY <1>4, <2>9 DEF t
    <3> QED BY <3>5, <3>6
  <2>10. CASE i # n
    <3> DEFINE x == SubSeq(r, i + 1, n)
    <3> DEFINE w1 == C!WriteField(r[i + 1])
    <3> DEFINE u1 == h[i + 1 + 1]
    <3>1. i + 1 \in 1..n /\ i + 1 > 1 /\ i + 1 + 1 \in 1..(n + 1) /\ i < n BY <1>2, <2>10
    <3>2. u = CommaThen(w1, u1) BY <1>1, <3>1 DEF u
    <3>3. w1 \in Seq(B) /\ u1 \in Seq(B) BY <1>3, <1>5, <3>1
    <3>4. WithRest(r, h, i + 1) = w1 \o u1 BY DEF WithRest
    <3>5. <<t>> \o x = SubSeq(r, i, n) BY <1>4 DEF t
    <3> HIDE DEF w1, u1, x
    <3>6. m <= Len(s) /\ s[m] = AComma /\ Stands(s, m + 1, w1 \o u1) /\ Len(u) = 1 + Len(w1 \o u1)
      <4>1. Stands(s, m, CommaThen(w1, u1)) BY <2>6, <3>2
      <4>2. /\ m <= Len(s) /\ s[m] = AComma /\ Stands(s, m + 1, w1 \o u1)
            /\ Len(CommaThen(w1, u1)) = 1 + Len(w1 \o u1)
        BY <1>2, <2>7, <3>3, <4>1, CommaStands
      <4> QED BY <3>2, <4>2
    <3>7. m + 1 \in p..e /\ (m + 1) + Len(w1 \o u1) = e
      <4> DEFINE l == Len(w1 \o u1)
      <4>1. l \in Nat /\ m + (1 + l) = e BY <2>7, <3>3, <3>6
      <4> HIDE DEF l
      <4>2. (m + 1) + l = e /\ m + 1 \in p..e BY <1>6, <2>1, <2>7, <4>1
      <4> QED BY <4>2 DEF l
    <3>8. read[m + 1] = RowResult(x, after)
      <4>1. Good(i + 1) BY <1>9, <3>1
      <4> QED BY <3>4, <3>6, <3>7, <4>1 DEF x
    <3>9. read[b] = RowResult(<<t>> \o x, after) BY <2>a, <3>6, <3>8, RowContinues
    <3> QED BY <3>5, <3>9
  <2> QED BY <2>9, <2>10
<1> HIDE DEF Good
<1>10. ASSUME NEW i \in 1..n, \A j \in (i + 1)..n : j \in D PROVE i \in D
  <2>1. i < n => Good(i + 1)
    <3> SUFFICES ASSUME i < n PROVE Good(i + 1) OBVIOUS
    <3>1. i + 1 \in (i + 1)..n BY <1>2
    <3> QED BY <1>10, <3>1
  <2> QED BY <1>9, <2>1
<1> HIDE DEF D
<1>11. 1 \in 1..n /\ 1 \in Int /\ n \in Int BY <1>2
<1>12. 1 \in D BY <1>10, <1>11, FromBehind
<1>13. p \in p..e BY <1>6
<1>14. read[p] = RowResult(SubSeq(r, 1, n), after)
  <2>1. Good(1) BY <1>12 DEF D
  <2> QED BY <1>1, <1>13, <2>1 DEF Good
<1> QED BY <1>4, <1>8, <1>14

-----------------------------------------------------------------------------
(* Csv: the whole text                                                     *)

LEMMA RowTyped ==
  ASSUME NEW B, NEW s \in Seq(B), NEW p \in 1..(Len(s) + 1)
  PROVE  C!Row(s, p) \in RowsOver(B, s, p)
<1>1. p \in p..(Len(s) + 1) OBVIOUS
<1> QED BY <1>1, RowReads

\* The recursion of ParseCsv
FromAt(s, from, i) ==
  IF i > Len(s) THEN [rows |-> <<>>, ok |-> TRUE]
  ELSE LET with(r, rest) == [rows |-> <<r.row>> \o rest.rows, ok |-> rest.ok] IN
       LET after(r) == with(r, IF r.ok THEN from[r.at] ELSE [rows |-> <<>>, ok |-> FALSE])
       IN after(C!Row(s, i))
FromOf(s, from) == [i \in 1..(Len(s) + 2) |-> FromAt(s, from, i)]

LEMMA ParseIs == \A s : C!ParseCsv(s) = (CHOOSE from : from = FromOf(s, from))[1]
BY DEF C!ParseCsv, FromOf, FromAt

RowsResult(rows) == [rows |-> rows, ok |-> TRUE]
NotRead == [rows |-> <<>>, ok |-> FALSE]
FurtherRows(r, rest) == [rows |-> <<r.row>> \o rest.rows, ok |-> rest.ok]

LEMMA FromAtIs ==
  ASSUME NEW s, NEW from, NEW i, NEW r, r = C!Row(s, i)
  PROVE  FromAt(s, from, i) = IF i > Len(s) THEN RowsResult(<<>>)
                              ELSE FurtherRows(r, IF r.ok THEN from[r.at] ELSE NotRead)
BY DEF FromAt, RowsResult, FurtherRows, NotRead

Tables(B) == [rows : Seq(Seq(Seq(B))), ok : BOOLEAN]

\* from is what is read from each place of s on.
ReadsFrom(B, s, from) ==
  /\ C!ParseCsv(s) = from[1]
  /\ \A i \in 1..(Len(s) + 2) : from[i] = FromAt(s, from, i) /\ from[i] \in Tables(B)

LEMMA ParseReads ==
  ASSUME NEW B, NEW s \in Seq(B)
  PROVE  \E from : ReadsFrom(B, s, from)
<1> DEFINE n == Len(s) + 2
<1> DEFINE Values == Tables(B)
<1> DEFINE r == [i \in 1..n |-> C!Row(s, i)]
<1> DEFINE Goes(i) == i <= Len(s) /\ r[i].ok
<1> DEFINE to == [i \in 1..n |-> IF Goes(i) THEN r[i].at ELSE 0]
<1> DEFINE next == [x \in (1..n) \X Values |-> IF Goes(x[1]) THEN FurtherRows(r[x[1]], x[2]) ELSE NotRead]
<1> DEFINE end == [i \in 1..n |-> IF i > Len(s) THEN RowsResult(<<>>) ELSE IF Goes(i) THEN NotRead ELSE FurtherRows(r[i], NotRead)]
<1>1. Len(s) \in Nat /\ n = Len(s) + 2 /\ n \in Int OBVIOUS
<1>2. ASSUME NEW i \in 1..n, i <= Len(s)
      PROVE  r[i] = C!Row(s, i) /\ r[i].row \in Seq(Seq(B)) /\ r[i].at \in (i + 1)..n
  <2>1. i \in 1..(Len(s) + 1) BY <1>1, <1>2
  <2>2. C!Row(s, i) \in RowsOver(B, s, i) BY <2>1, RowTyped
  <2> QED BY <1>1, <2>2 DEF RowsOver
<1>3. \A i \in 1..n : r[i] = C!Row(s, i) OBVIOUS
<1> HIDE DEF r
<1>4. \A i \in 1..n : to[i] = IF Goes(i) THEN r[i].at ELSE 0 OBVIOUS
<1>5. \A i \in 1..n : Goes(i) <=> to[i] \in (i + 1)..n
  <2> TAKE i \in 1..n
  <2>1. CASE Goes(i)
    <3>1. r[i].at \in (i + 1)..n BY <1>2, <2>1
    <3> QED BY <1>4, <2>1, <3>1
  <2>2. CASE ~Goes(i)
    <3>1. to[i] = 0 /\ i \in Nat BY <1>4, <2>2
    <3> QED BY <2>2, <3>1
  <2> QED BY <2>1, <2>2
<1> HIDE DEF to
<1>6. RowsResult(<<>>) \in Values /\ NotRead \in Values BY DEF RowsResult, NotRead, Tables
<1>7. ASSUME NEW i \in 1..n, i <= Len(s), NEW x \in Values PROVE FurtherRows(r[i], x) \in Values
  <2>1. x.rows \in Seq(Seq(Seq(B))) /\ x.ok \in BOOLEAN BY DEF Tables
  <2>2. <<r[i].row>> \in Seq(Seq(Seq(B))) BY <1>2, <1>7
  <2>3. <<r[i].row>> \o x.rows \in Seq(Seq(Seq(B))) BY <2>1, <2>2
  <2> QED BY <2>1, <2>3 DEF FurtherRows, Tables
<1> HIDE DEF Values
<1>8. \A i \in 1..n, x \in Values : next[<<i, x>>] = IF Goes(i) THEN FurtherRows(r[i], x) ELSE NotRead OBVIOUS
<1>9. next \in [(1..n) \X Values -> Values]
  <2>1. ASSUME NEW x \in (1..n) \X Values PROVE (IF Goes(x[1]) THEN FurtherRows(r[x[1]], x[2]) ELSE NotRead) \in Values
    <3>1. x[1] \in 1..n /\ x[2] \in Values OBVIOUS
    <3> QED BY <1>6, <1>7, <3>1
  <2> QED BY <2>1
<1>10. ASSUME NEW i \in 1..n
       PROVE  end[i] \in Values /\ (~Goes(i) => end[i] = IF i > Len(s) THEN RowsResult(<<>>) ELSE FurtherRows(r[i], NotRead))
  <2>1. i > Len(s) \/ i <= Len(s) BY <1>1
  <2> QED BY <1>6, <1>7, <2>1
<1> HIDE DEF n, next, end
<1>11. IsWalk(1, n, Values, next, end)
  <2>1. end = [j \in 1..n |-> end[j]] BY DEF end
  <2>2. end \in [1..n -> Values] BY <1>10, <2>1
  <2> QED BY <1>1, <1>9, <2>2 DEF IsWalk
<1>12. PICK g : WalkIs(1, n, Values, to, next, end, g) BY <1>11, WalkExists
<1>13. ASSUME NEW g1, NEW i \in 1..n, to[i] \in (i + 1)..n => g1[to[i]] \in Values
       PROVE  FromAt(s, g1, i) = WalkAt(n, to, next, end, g1, i)
  <2>1. FromAt(s, g1, i) = IF i > Len(s) THEN RowsResult(<<>>)
                           ELSE FurtherRows(r[i], IF r[i].ok THEN g1[r[i].at] ELSE NotRead)
    BY <1>3, FromAtIs
  <2>2. CASE Goes(i)
    <3>1. to[i] \in (i + 1)..n /\ to[i] = r[i].at BY <1>4, <1>5, <2>2
    <3>2. next[<<i, g1[to[i]]>>] = FurtherRows(r[i], g1[to[i]]) BY <1>8, <1>13, <2>2, <3>1
    <3>3. ~(i > Len(s)) /\ r[i].ok BY <1>1, <2>2
    <3> QED BY <2>1, <3>1, <3>2, <3>3 DEF WalkAt
  <2>3. CASE ~Goes(i)
    <3>1. to[i] \notin (i + 1)..n BY <1>5, <2>3
    <3>2. i > Len(s) \/ ~r[i].ok BY <1>1, <2>3
    <3> QED BY <1>10, <2>1, <2>3, <3>1, <3>2 DEF WalkAt
  <2> QED BY <2>2, <2>3
<1> HIDE DEF Goes
<1>14. \A i \in 1..n : g[i] = FromAt(s, g, i)
  <2> TAKE i \in 1..n
  <2>1. to[i] \in (i + 1)..n => g[to[i]] \in Values
    <3>1. to[i] \in (i + 1)..n => to[i] \in 1..n BY <1>1
    <3> QED BY <1>12, <3>1 DEF WalkIs
  <2> QED BY <1>12, <1>13, <2>1 DEF WalkIs
<1>15. g = FromOf(s, g)
  <2>1. g = [i \in 1..n |-> g[i]] BY <1>12 DEF WalkIs
  <2> QED BY <1>14, <2>1 DEF FromOf, n
<1> DEFINE from == CHOOSE from : from = FromOf(s, from)
<1>16. from = FromOf(s, from) BY <1>15
<1>17. C!ParseCsv(s) = from[1] BY ParseIs
<1> HIDE DEF from
<1>18. \A i \in 1..n : from[i] = FromAt(s, from, i) BY <1>16 DEF FromOf, n
<1>19. \A i \in 1..n : (to[i] \in (i + 1)..n => from[to[i]] \in Values) => from[i] = WalkAt(n, to, next, end, from, i)
  BY <1>13, <1>18
<1>20. \A i \in 1..n : from[i] \in Values BY <1>11, <1>19, WalkTyped, SMTT(60)
<1> QED BY <1>17, <1>18, <1>20 DEF n, Values, ReadsFrom

\* A table: rows of one field or more.
Table(B, rows) == rows \in Seq(Seq(Seq(B))) /\ \A i \in 1..Len(rows) : Len(rows[i]) >= 1

NewLine(newline) == newline = <<ALf>> \/ newline = <<ACr, ALf>>

LEMMA NewLineTyped ==
  ASSUME NEW B, Signs \subseteq B, NEW newline, NewLine(newline)
  PROVE  newline \in Seq(B)
<1>1. ALf \in B /\ ACr \in B BY DEF Signs
<1>2. <<ALf>> \in Seq(B) /\ <<ACr, ALf>> \in Seq(B) BY <1>1
<1> QED BY <1>2 DEF NewLine

\* What a line end that stands at m does
LEMMA NewLineEnds ==
  ASSUME NEW B, Signs \subseteq B, NEW s \in Seq(B), NEW newline, NewLine(newline), NEW m \in Nat \ {0}, Stands(s, m, newline)
  PROVE  newline \in Seq(B) /\ Len(newline) \in Nat \ {0} /\ LineEnds(s, m, m + Len(newline))
<1>1. ALf \in B /\ ACr \in B BY DEF Signs
<1>2. CASE newline = <<ALf>>
  <2>1. newline \in Seq(B) /\ Len(newline) = 1 /\ m <= Len(s) /\ s[m] = ALf BY <1>1, <1>2, StandsOne
  <2> QED BY <2>1 DEF LineEnds
<1>3. CASE newline = <<ACr, ALf>>
  <2>1. newline \in Seq(B) /\ Len(newline) = 2 /\ newline[1] = ACr /\ newline[2] = ALf BY <1>1, <1>3
  <2>2. m + 2 - 1 <= Len(s) /\ \A k \in 1..2 : s[m + k - 1] = newline[k] BY <2>1 DEF Stands
  <2>3. 1 \in 1..2 /\ 2 \in 1..2 /\ m + 1 - 1 = m /\ m + 2 - 1 = m + 1 OBVIOUS
  <2>4. s[m] = ACr /\ s[m + 1] = ALf /\ m + 1 <= Len(s) BY <2>1, <2>2, <2>3
  <2> QED BY <2>1, <2>4 DEF LineEnds
<1> QED BY <1>2, <1>3 DEF NewLine

LEMMA WriteRowTyped ==
  ASSUME NEW B, Signs \subseteq B, NEW r \in Seq(Seq(B)), Len(r) >= 1
  PROVE  C!WriteRow(r) \in Seq(B) /\ Len(C!WriteRow(r)) \in Nat
<1> DEFINE w == C!WriteRow(r)
<1>1. w \in Seq(B) BY RowJoins
<1> HIDE DEF w
<1>2. Len(w) \in Nat BY <1>1
<1> QED BY <1>1, <1>2 DEF w

Line(r, newline) == C!WriteRow(r) \o newline

\* h is what is written from each line on.
LinesFrom(h, rows, newline) ==
  /\ h[Len(rows) + 1] = <<>> /\ h[1] = C!WriteCsv(rows, newline)
  /\ \A i \in 1..Len(rows) : h[i] = Line(rows[i], newline) \o h[i + 1]

LEMMA CsvJoins ==
  ASSUME NEW B, Signs \subseteq B, NEW rows, Table(B, rows), NEW newline, NewLine(newline)
  PROVE  \E h \in [1..(Len(rows) + 1) -> Seq(B)] : LinesFrom(h, rows, newline)
<1> DEFINE n == Len(rows)
<1> DEFINE parts == [i \in DOMAIN rows |-> Line(rows[i], newline)]
<1>1. n \in Nat /\ DOMAIN rows = 1..n /\ \A i \in 1..n : rows[i] \in Seq(Seq(B)) /\ Len(rows[i]) >= 1 BY DEF Table
<1>2. newline \in Seq(B) BY NewLineTyped
<1>3. \A i \in 1..n : Line(rows[i], newline) \in Seq(B)
  <2> TAKE i \in 1..n
  <2> DEFINE w == C!WriteRow(rows[i])
  <2>1. w \in Seq(B) BY <1>1, WriteRowTyped
  <2> HIDE DEF w
  <2>2. w \o newline \in Seq(B) BY <1>2, <2>1
  <2> QED BY <2>2 DEF w, Line
<1>4. parts \in [1..n -> Seq(B)] BY <1>1, <1>3
<1>5. parts \in Seq(Seq(B)) /\ Len(parts) = n /\ \A i \in 1..n : parts[i] = Line(rows[i], newline) BY <1>1, <1>4
<1>6. C!WriteCsv(rows, newline) = C!FlattenSeq(parts) BY DEF C!WriteCsv, Line
<1> HIDE DEF parts, n
<1>7. PICK h \in [1..(Len(parts) + 1) -> Seq(B)] : Joins(parts, h) BY <1>5, JoinsExist
<1>8. C!FlattenSeq(parts) = h[1] BY <1>5, <1>7, Flattened
<1>9. h \in [1..(n + 1) -> Seq(B)] /\ h[n + 1] = <<>> /\ \A i \in 1..n : h[i] = Line(rows[i], newline) \o h[i + 1]
  BY <1>5, <1>7 DEF Joins
<1>10. LinesFrom(h, rows, newline) BY <1>6, <1>8, <1>9 DEF n, LinesFrom
<1> QED BY <1>9, <1>10 DEF n

\* Of a line at b with u behind it the row is read, and u is k places on.
LineRead(s, b, r, newline, u, k) ==
  /\ Len(Line(r, newline) \o u) = k + Len(u) /\ Stands(s, b + k, u) /\ b + k <= Len(s) + 1
  /\ C!Row(s, b) = RowResult(r, b + k)

LEMMA LineFound ==
  ASSUME NEW B, Signs \subseteq B, NEW s \in Seq(B), NEW r \in Seq(Seq(B)), Len(r) >= 1,
         NEW newline, NewLine(newline), NEW u \in Seq(B), NEW b \in Nat \ {0},
         Stands(s, b, Line(r, newline) \o u)
  PROVE  \E k \in Nat \ {0} : LineRead(s, b, r, newline, u, k)
<1> DEFINE w == C!WriteRow(r)
<1> DEFINE line == w \o newline
<1> DEFINE k == Len(line)
<1>1. newline \in Seq(B) BY NewLineTyped
<1>2. w \in Seq(B) /\ Len(w) \in Nat BY WriteRowTyped
<1>3. w = C!WriteRow(r) /\ Line(r, newline) = line BY DEF Line
<1> HIDE DEF w
<1>4. line \in Seq(B) /\ Len(line) = Len(w) + Len(newline) BY <1>1, <1>2, ConcatProperties
<1> HIDE DEF line
<1>5. Stands(s, b, line) /\ Stands(s, b + k, u) /\ Len(line \o u) = k + Len(u) BY <1>3, <1>4, StandsJoined
<1>6. Stands(s, b, w) /\ Stands(s, b + Len(w), newline) BY <1>1, <1>2, <1>5, StandsJoined DEF line
<1> DEFINE m == b + Len(w)
<1>7. m \in Nat \ {0} BY <1>2
<1>8. Len(newline) \in Nat \ {0} /\ LineEnds(s, m, m + Len(newline)) /\ Stands(s, m, newline)
  <2>1. Stands(s, m, newline) BY <1>6
  <2> HIDE DEF m
  <2> QED BY <1>7, <2>1, NewLineEnds
<1>9. m + Len(newline) = b + k /\ k \in Nat \ {0}
  <2> DEFINE l == Len(newline)
  <2> DEFINE a == Len(w)
  <2>1. l \in Nat \ {0} /\ a \in Nat /\ k = a + l /\ m = b + a BY <1>2, <1>4, <1>8
  <2> HIDE DEF l, a, k, m
  <2>2. m + l = b + k /\ k \in Nat \ {0} BY <2>1
  <2> QED BY <2>2 DEF l
<1>10. b + k <= Len(s) + 1
  <2>1. b + k - 1 <= Len(s) /\ Len(s) \in Nat BY <1>5 DEF Stands
  <2> HIDE DEF k
  <2> QED BY <1>9, <2>1
<1>11. C!Row(s, b) = RowResult(r, b + k)
  <2> DEFINE after == b + k
  <2>1. LineEnds(s, m, after) BY <1>8, <1>9
  <2>2. Stands(s, b, C!WriteRow(r)) /\ m = b + Len(C!WriteRow(r)) BY <1>3, <1>6
  <2> HIDE DEF m, after
  <2>3. RowStands(B, s, r, b, m, after) BY <2>1, <2>2 DEF RowStands
  <2>4. C!Row(s, b) = RowResult(r, after) BY <2>3, RowFound
  <2> QED BY <2>4 DEF after
<1> HIDE DEF k
<1>12. LineRead(s, b, r, newline, u, k) BY <1>3, <1>5, <1>10, <1>11 DEF LineRead
<1> QED BY <1>9, <1>12

\* The lines of a table are read as its rows, and what follows them is read behind.
Written(B, s, rows, newline, from, e, tail) ==
  /\ Signs \subseteq B /\ s \in Seq(B) /\ Table(B, rows) /\ NewLine(newline) /\ ReadsFrom(B, s, from)
  /\ Stands(s, 1, C!WriteCsv(rows, newline)) /\ e = 1 + Len(C!WriteCsv(rows, newline))
  /\ tail \in Seq(Seq(Seq(B))) /\ from[e] = RowsResult(tail)

LEMMA ParseFound ==
  ASSUME NEW B, NEW s, NEW rows, NEW newline, NEW from, NEW e, NEW tail, Written(B, s, rows, newline, from, e, tail)
  PROVE  from[1] = RowsResult(rows \o tail)
<1> DEFINE n == Len(rows)
<1> DEFINE Rows == Seq(Seq(B))
<1>0. /\ Signs \subseteq B /\ s \in Seq(B) /\ Table(B, rows) /\ NewLine(newline) /\ tail \in Seq(Rows)
      /\ from[e] = RowsResult(tail)
      /\ \A i \in 1..(Len(s) + 2) : from[i] = FromAt(s, from, i)
  BY DEF Written, ReadsFrom
<1>a. PICK h \in [1..(n + 1) -> Seq(B)] : LinesFrom(h, rows, newline)
  <2>1. Signs \subseteq B /\ Table(B, rows) /\ NewLine(newline) BY <1>0
  <2> QED BY <2>1, CsvJoins
<1>1. /\ h[n + 1] = <<>> /\ h[1] = C!WriteCsv(rows, newline)
      /\ \A i \in 1..n : h[i] = Line(rows[i], newline) \o h[i + 1]
  BY <1>a DEF LinesFrom
<1>2. n \in Nat /\ Len(s) \in Nat /\ rows \in Seq(Rows) /\ \A i \in 1..n : rows[i] \in Rows /\ Len(rows[i]) >= 1
  BY <1>0 DEF Table
<1>3. /\ SubSeq(rows, 1, n) = rows /\ SubSeq(rows, n + 1, n) = <<>>
      /\ \A k \in 1..n : /\ SubSeq(rows, k + 1, n) \in Seq(Rows)
                         /\ <<rows[k]>> \o SubSeq(rows, k + 1, n) = SubSeq(rows, k, n)
  BY <1>2, LastItems
<1> HIDE DEF n, Rows
<1>4. \A i \in 1..(n + 1) : h[i] \in Seq(B) /\ Len(h[i]) \in Nat
  <2> TAKE i \in 1..(n + 1)
  <2>1. h[i] \in Seq(B) BY <1>1
  <2> QED BY <2>1
<1>5. e \in Nat /\ 1 <= e /\ Stands(s, 1, h[1]) /\ 1 + Len(h[1]) = e /\ 1 \in 1..(n + 1)
  <2>1. 1 \in 1..(n + 1) BY <1>2
  <2>2. Stands(s, 1, h[1]) /\ 1 + Len(h[1]) = e BY <1>1 DEF Written
  <2>3. Len(h[1]) \in Nat BY <1>4, <2>1
  <2> QED BY <2>1, <2>2, <2>3
<1>6. e <= Len(s) + 1
  <2> DEFINE l == Len(h[1])
  <2>1. l \in Nat /\ 1 + l - 1 <= Len(s) /\ e = 1 + l BY <1>4, <1>5 DEF Stands
  <2> HIDE DEF l
  <2> QED BY <1>2, <2>1
<1> DEFINE Good(i) == \A b \in 1..e : Stands(s, b, h[i]) /\ b + Len(h[i]) = e => from[b] = RowsResult(SubSeq(rows, i, n) \o tail)
<1> DEFINE D == {i \in 1..(n + 1) : Good(i)}
<1>7. Good(n + 1)
  <2> SUFFICES ASSUME NEW b \in 1..e, b + Len(<<>>) = e PROVE from[b] = RowsResult(<<>> \o tail) BY <1>1, <1>3
  <2>1. b = e BY <1>5
  <2>2. <<>> \o tail = tail BY <1>0, ConcatEmptySeq
  <2> QED BY <1>0, <2>1, <2>2
<1>8. ASSUME NEW i \in 1..n, Good(i + 1) PROVE Good(i)
  <2> SUFFICES ASSUME NEW b \in 1..e, Stands(s, b, h[i]), b + Len(h[i]) = e
               PROVE  from[b] = RowsResult(SubSeq(rows, i, n) \o tail)
    OBVIOUS
  <2> DEFINE u == h[i + 1]
  <2> DEFINE r == rows[i]
  <2> DEFINE x == SubSeq(rows, i + 1, n)
  <2>1. i + 1 \in 1..(n + 1) BY <1>2
  <2>2. u \in Seq(B) /\ Len(u) \in Nat /\ h[i] = Line(r, newline) \o u BY <1>1, <1>4, <2>1
  <2>3. r \in Rows /\ Len(r) >= 1 /\ b \in Nat \ {0} BY <1>2, <1>5
  <2>4. x \in Seq(Rows) /\ <<r>> \o x = SubSeq(rows, i, n) BY <1>3
  <2> HIDE DEF u, r, x
  <2>a. PICK k \in Nat \ {0} : LineRead(s, b, r, newline, u, k)
    <3>1. Signs \subseteq B /\ s \in Seq(B) /\ NewLine(newline) BY <1>0
    <3>2. r \in Seq(Seq(B)) /\ Stands(s, b, Line(r, newline) \o u) BY <2>2, <2>3 DEF Rows
    <3> QED BY <2>2, <2>3, <3>1, <3>2, LineFound
  <2>5. /\ Len(Line(r, newline) \o u) = k + Len(u) /\ Stands(s, b + k, u) /\ b + k <= Len(s) + 1
        /\ C!Row(s, b) = RowResult(r, b + k)
    BY <2>a DEF LineRead
  <2>6. b + k \in 1..e /\ (b + k) + Len(u) = e
    <3> DEFINE l == Len(u)
    <3>1. l \in Nat /\ b + (k + l) = e /\ b \in Nat /\ k \in Nat BY <2>2, <2>3, <2>5
    <3> HIDE DEF l
    <3>2. (b + k) + l = e /\ b + k >= 1 /\ b + k <= e /\ b + k \in Nat BY <2>3, <3>1
    <3> QED BY <1>5, <3>2 DEF l
  <2>7. from[b + k] = RowsResult(x \o tail) BY <1>8, <2>5, <2>6 DEF u, x
  <2>8. ~(b > Len(s)) /\ b \in 1..(Len(s) + 2) BY <1>2, <2>3, <2>5
  <2> DEFINE q == C!Row(s, b)
  <2>9. q.row = r /\ q.at = b + k /\ q.ok = TRUE BY <2>5 DEF RowResult
  <2>10. from[b] = FurtherRows(q, IF q.ok THEN from[q.at] ELSE NotRead)
    <3>1. from[b] = FromAt(s, from, b) BY <1>0, <2>8
    <3> QED BY <2>8, <3>1, FromAtIs
  <2> HIDE DEF q
  <2>11. from[b] = FurtherRows(q, RowsResult(x \o tail)) BY <2>7, <2>9, <2>10
  <2>12. from[b] = RowsResult(<<r>> \o (x \o tail)) BY <2>9, <2>11 DEF FurtherRows, RowsResult
  <2>13. <<r>> \o (x \o tail) = (<<r>> \o x) \o tail
    <3>1. <<r>> \in Seq(Rows) BY <2>3
    <3> QED BY <1>0, <2>4, <3>1, ConcatAssociative
  <2> QED BY <2>4, <2>12, <2>13
<1> HIDE DEF Good
<1>9. ASSUME NEW i \in 1..(n + 1), \A j \in (i + 1)..(n + 1) : j \in D PROVE i \in D
  <2>1. CASE i = n + 1 BY <1>7, <2>1
  <2>2. CASE i # n + 1
    <3>1. i \in 1..n /\ i + 1 \in (i + 1)..(n + 1) BY <1>2, <2>2
    <3>2. Good(i + 1) BY <1>9, <3>1
    <3> QED BY <1>8, <3>1, <3>2
  <2> QED BY <2>1, <2>2
<1> HIDE DEF D
<1>10. 1 \in Int /\ n + 1 \in Int BY <1>2
<1>11. 1 \in D BY <1>5, <1>9, <1>10, FromBehind
<1>12. 1 \in 1..e BY <1>5
<1>13. from[1] = RowsResult(SubSeq(rows, 1, n) \o tail)
  <2>1. Good(1) BY <1>11 DEF D
  <2> QED BY <1>5, <1>12, <2>1 DEF Good
<1> QED BY <1>3, <1>13

LEMMA WriteCsvTyped ==
  ASSUME NEW B, Signs \subseteq B, NEW rows, Table(B, rows), NEW newline, NewLine(newline)
  PROVE  C!WriteCsv(rows, newline) \in Seq(B) /\ Len(C!WriteCsv(rows, newline)) \in Nat
<1> DEFINE w == C!WriteCsv(rows, newline)
<1>1. w \in Seq(B)
  <2>1. PICK h \in [1..(Len(rows) + 1) -> Seq(B)] : LinesFrom(h, rows, newline) BY CsvJoins
  <2>2. 1 \in 1..(Len(rows) + 1) BY DEF Table
  <2> QED BY <2>1, <2>2 DEF LinesFrom
<1> HIDE DEF w
<1>2. Len(w) \in Nat BY <1>1
<1> QED BY <1>1, <1>2 DEF w

\* A whole text stands at its beginning.
LEMMA StandsWhole ==
  ASSUME NEW B, NEW w \in Seq(B), NEW u \in Seq(B)
  PROVE  Stands(w \o u, 1, w) /\ Stands(w \o u, 1 + Len(w), u) /\ Stands(w, 1, w)
<1>1. \A t \in Seq(B) : Stands(t, 1, t)
  <2> TAKE t \in Seq(B)
  <2>1. Len(t) \in Nat OBVIOUS
  <2>2. 1 + Len(t) - 1 <= Len(t) /\ \A k \in 1..Len(t) : 1 + k - 1 = k BY <2>1
  <2> QED BY <2>2 DEF Stands
<1> DEFINE s == w \o u
<1>2. s \in Seq(B) BY ConcatProperties
<1> HIDE DEF s
<1>a. Stands(s, 1, w \o u)
  <2>1. Stands(s, 1, s) BY <1>1, <1>2
  <2> QED BY <2>1 DEF s
<1>3. Stands(s, 1, w) /\ Stands(s, 1 + Len(w), u) BY <1>2, <1>a, StandsJoined
<1> QED BY <1>1, <1>3 DEF s

\* Whatever the fields are: a table is read as it was written, with either end of line, and
\* without one at its last line.
LEMMA RowsAreKept ==
  ASSUME NEW B, Signs \subseteq B, NEW rows, Table(B, rows)
  PROVE  C!RowsKept(rows)
<1> DEFINE Rows == Seq(Seq(B))
<1>1. rows \in Seq(Rows) BY DEF Table
<1>2. ASSUME NEW newline, NewLine(newline)
      PROVE  C!ParseCsv(C!WriteCsv(rows, newline)) = [rows |-> rows, ok |-> TRUE]
  <2> DEFINE s == C!WriteCsv(rows, newline)
  <2> DEFINE e == 1 + Len(s)
  <2>1. s \in Seq(B) /\ Len(s) \in Nat BY <1>2, WriteCsvTyped
  <2>2. e \in 1..(Len(s) + 2) /\ e > Len(s) BY <2>1
  <2>3. PICK from : ReadsFrom(B, s, from)
    <3> HIDE DEF s
    <3> QED BY <2>1, ParseReads
  <2>4. Stands(s, 1, s)
    <3> HIDE DEF s
    <3> QED BY <2>1, StandsWhole
  <2>5. from[e] = RowsResult(<<>>)
    <3>1. from[e] = FromAt(s, from, e) BY <2>2, <2>3 DEF ReadsFrom
    <3> HIDE DEF s
    <3> QED BY <2>2, <3>1, FromAtIs
  <2>6. <<>> \in Seq(Rows) OBVIOUS
  <2>7. Written(B, s, rows, newline, from, e, <<>>) BY <1>2, <2>1, <2>3, <2>4, <2>5, <2>6 DEF Written
  <2>8. from[1] = RowsResult(rows \o <<>>)
    <3> DEFINE tail == <<>>
    <3>1. Written(B, s, rows, newline, from, e, tail) BY <2>7
    <3> HIDE DEF s, e, tail
    <3>2. from[1] = RowsResult(rows \o tail) BY <3>1, ParseFound
    <3> QED BY <3>2 DEF tail
  <2>9. rows \o <<>> = rows BY <1>1, ConcatEmptySeq
  <2>10. C!ParseCsv(s) = from[1] BY <2>3 DEF ReadsFrom
  <2> QED BY <2>8, <2>9, <2>10 DEF RowsResult
<1>3. ASSUME rows # <<>>, C!WriteRow(C!Last(rows)) # <<>>
      PROVE  C!ParseCsv(C!WriteCsv(C!Front(rows), <<ALf>>) \o C!WriteRow(C!Last(rows))) = [rows |-> rows, ok |-> TRUE]
  <2> DEFINE n == Len(rows)
  <2> DEFINE front == C!Front(rows)
  <2> DEFINE r == C!Last(rows)
  <2> DEFINE w == C!WriteCsv(front, <<ALf>>)
  <2> DEFINE u == C!WriteRow(r)
  <2> DEFINE s == w \o u
  <2> DEFINE e == 1 + Len(w)
  <2> DEFINE end == 1 + Len(s)
  <2>1. n \in Nat /\ n >= 1 /\ n \in 1..n /\ r = rows[n] /\ front = SubSeq(rows, 1, n - 1) BY <1>1, <1>3 DEF C!Last, C!Front
  <2>2. r \in Rows /\ Len(r) >= 1 BY <1>1, <2>1 DEF Table
  <2>3. front \in Seq(Rows) /\ rows = front \o <<r>> /\ Len(front) = n - 1 /\ \A i \in 1..(n - 1) : front[i] = rows[i]
    <3> HIDE DEF r, front, Rows
    <3>1. \A i \in 1..(n - 1) : rows[i] \in Rows BY <1>1, <2>1
    <3>2. front \in Seq(Rows) /\ Len(front) = n - 1 /\ \A i \in 1..(n - 1) : front[i] = rows[i]
      <4> DEFINE k == n - 1
      <4>1. k \in Nat /\ k \in Int /\ 1 \in Int /\ \A i \in 1..k : rows[i] \in Rows BY <2>1, <3>1
      <4> HIDE DEF k
      <4>2. /\ SubSeq(rows, 1, k) \in Seq(Rows) /\ Len(SubSeq(rows, 1, k)) = IF 1 <= k THEN k - 1 + 1 ELSE 0
            /\ \A i \in 1..(k - 1 + 1) : SubSeq(rows, 1, k)[i] = rows[1 + i - 1]
        BY <4>1, SubSeqProperties
      <4>3. k - 1 + 1 = k /\ (~(1 <= k) => k = 0) /\ \A i \in 1..k : 1 + i - 1 = i BY <4>1
      <4>4. front = SubSeq(rows, 1, k) BY <2>1 DEF k
      <4> QED BY <4>2, <4>3, <4>4 DEF k
    <3>3. SubSeq(rows, 1, n) = SubSeq(rows, 1, n - 1) \o <<rows[n]>> BY <1>1, <2>1, SubSeqRecursiveSecond
    <3>4. SubSeq(rows, 1, n) = rows BY <1>1, SubSeqFull
    <3> QED BY <2>1, <3>2, <3>3, <3>4
  <2> HIDE DEF front, r
  <2>4. Table(B, front)
    <3>1. \A i \in 1..(n - 1) : Len(rows[i]) >= 1 BY <2>1 DEF Table
    <3> QED BY <2>3, <3>1 DEF Table
  <2>5. NewLine(<<ALf>>) BY DEF NewLine
  <2>6. w \in Seq(B) /\ Len(w) \in Nat BY <2>4, <2>5, WriteCsvTyped
  <2>7. u \in Seq(B) /\ Len(u) \in Nat /\ u # <<>> /\ Len(u) >= 1
    <3>1. u \in Seq(B) /\ Len(u) \in Nat BY <2>2, WriteRowTyped
    <3>2. u # <<>> BY <1>3 DEF r
    <3> HIDE DEF u
    <3> QED BY <3>1, <3>2
  <2>8. u = C!WriteRow(r) /\ w = C!WriteCsv(front, <<ALf>>) OBVIOUS
  <2> HIDE DEF w, u
  <2>9. s \in Seq(B) /\ Len(s) = Len(w) + Len(u) BY <2>6, <2>7, ConcatProperties
  <2>10. Stands(s, 1, w) /\ Stands(s, e, u) BY <2>6, <2>7, StandsWhole
  <2> HIDE DEF s
  <2>11. /\ Len(s) \in Nat /\ e \in 1..Len(s) /\ e \in 1..(Len(s) + 2) /\ end \in 1..(Len(s) + 2) /\ end = e + Len(u)
         /\ end + 1 \in 1..(Len(s) + 2) /\ end + 1 > Len(s) /\ e \in Nat \ {0}
    BY <2>6, <2>7, <2>9
  <2>12. PICK from : ReadsFrom(B, s, from) BY <2>9, ParseReads
  <2>13. C!Row(s, e) = RowResult(r, end + 1)
    <3> DEFINE after == end + 1
    <3>1. LineEnds(s, end, after) BY DEF LineEnds
    <3>2. RowStands(B, s, r, e, end, after) BY <2>2, <2>8, <2>9, <2>10, <2>11, <3>1 DEF RowStands
    <3> HIDE DEF after
    <3>3. C!Row(s, e) = RowResult(r, after) BY <3>2, RowFound
    <3> QED BY <3>3 DEF after
  <2>14. from[end + 1] = RowsResult(<<>>)
    <3>1. from[end + 1] = FromAt(s, from, end + 1) BY <2>11, <2>12 DEF ReadsFrom
    <3> QED BY <2>11, <3>1, FromAtIs
  <2>15. from[e] = RowsResult(<<r>>)
    <3> DEFINE q == C!Row(s, e)
    <3>1. from[e] = FromAt(s, from, e) BY <2>11, <2>12 DEF ReadsFrom
    <3>2. from[e] = FurtherRows(q, IF q.ok THEN from[q.at] ELSE NotRead) BY <2>11, <3>1, FromAtIs
    <3>3. q.row = r /\ q.at = end + 1 /\ q.ok = TRUE BY <2>13 DEF RowResult
    <3> HIDE DEF q
    <3>4. from[e] = FurtherRows(q, RowsResult(<<>>)) BY <2>14, <3>2, <3>3
    <3>5. FurtherRows(q, RowsResult(<<>>)) = RowsResult(<<r>> \o <<>>) BY <3>3 DEF FurtherRows, RowsResult
    <3>6. <<r>> \o <<>> = <<r>> OBVIOUS
    <3> QED BY <3>4, <3>5, <3>6
  <2>16. <<r>> \in Seq(Rows) BY <2>2
  <2>17. Written(B, s, front, <<ALf>>, from, e, <<r>>)
    BY <2>4, <2>5, <2>8, <2>9, <2>10, <2>12, <2>15, <2>16 DEF Written
  <2>18. from[1] = RowsResult(front \o <<r>>) BY <2>17, ParseFound
  <2>19. C!ParseCsv(s) = from[1] BY <2>12 DEF ReadsFrom
  <2> QED BY <2>3, <2>18, <2>19 DEF RowsResult, s, w, u, front, r
<1> QED BY <1>2, <1>3 DEF C!RowsKept, NewLine

-----------------------------------------------------------------------------
(* Csv: iterators                                                          *)

Parsers(B, s) == [text : {s}, at : Nat \ {0}, row : Seq(Seq(B))]
Cached(B) == [kind : {"cached"}, row : Seq(Seq(B))]
Runs(B, s) == [now : [parser : Parsers(B, s), iter : {[kind |-> "end"], C!Live}], left : Seq(Cached(B))]

\* The rows of the copies
RowsLeft(left) == [i \in DOMAIN left |-> left[i].row]

LEMMA LeftAppended ==
  ASSUME NEW B, NEW left \in Seq(Cached(B)), NEW c \in Cached(B)
  PROVE  /\ RowsLeft(left) \in Seq(Seq(Seq(B))) /\ Append(left, c) \in Seq(Cached(B))
         /\ RowsLeft(Append(left, c)) = RowsLeft(left) \o <<c.row>>
<1> DEFINE n == Len(left)
<1> DEFINE Rows == Seq(Seq(B))
<1> DEFINE more == Append(left, c)
<1>1. n \in Nat /\ DOMAIN left = 1..n /\ \A i \in 1..n : left[i] \in Cached(B) OBVIOUS
<1>2. \A x \in Cached(B) : x.row \in Rows BY DEF Cached
<1> HIDE DEF n, Rows
<1>3. RowsLeft(left) \in [1..n -> Rows] BY <1>1, <1>2 DEF RowsLeft
<1>4. RowsLeft(left) \in Seq(Rows) /\ Len(RowsLeft(left)) = n /\ \A i \in 1..n : RowsLeft(left)[i] = left[i].row
  BY <1>1, <1>3 DEF RowsLeft
<1>5. more \in Seq(Cached(B)) /\ Len(more) = n + 1 /\ (\A i \in 1..n : more[i] = left[i]) /\ more[n + 1] = c
  BY AppendProperties DEF n
<1>6. DOMAIN more = 1..(n + 1)
  <2> HIDE DEF more
  <2> QED BY <1>5
<1>7. RowsLeft(more) \in [1..(n + 1) -> Rows]
  <2>1. \A i \in 1..(n + 1) : more[i] \in Cached(B) BY <1>5, <1>6
  <2> HIDE DEF more
  <2> QED BY <1>2, <1>6, <2>1 DEF RowsLeft
<1>8. RowsLeft(more) \in Seq(Rows) /\ Len(RowsLeft(more)) = n + 1
      /\ \A i \in 1..(n + 1) : RowsLeft(more)[i] = more[i].row
  <2> HIDE DEF more
  <2> QED BY <1>1, <1>6, <1>7 DEF RowsLeft
<1> DEFINE joined == RowsLeft(left) \o <<c.row>>
<1>9. joined \in Seq(Rows) /\ Len(joined) = n + 1
      /\ \A i \in 1..(n + 1) : joined[i] = IF i <= n THEN RowsLeft(left)[i] ELSE <<c.row>>[i - n]
  <2>1. <<c.row>> \in Seq(Rows) /\ Len(<<c.row>>) = 1 BY <1>2
  <2> QED BY <1>4, <2>1, ConcatProperties
<1> HIDE DEF more, joined
<1>10. \A i \in 1..(n + 1) : joined[i] = more[i].row
  <2> TAKE i \in 1..(n + 1)
  <2>1. CASE i <= n
    <3>1. i \in 1..n BY <1>1, <2>1
    <3> QED BY <1>4, <1>5, <1>9, <2>1, <3>1
  <2>2. CASE ~(i <= n)
    <3>1. i = n + 1 /\ i - n = 1 BY <1>1, <2>2
    <3> QED BY <1>5, <1>9, <2>2, <3>1
  <2> QED BY <2>1, <2>2
<1>11. RowsLeft(more) = joined
  <2>1. RowsLeft(more) = [i \in 1..(n + 1) |-> RowsLeft(more)[i]] BY <1>7
  <2>2. joined = [i \in 1..(n + 1) |-> joined[i]] BY <1>9
  <2> QED BY <1>8, <1>10, <2>1, <2>2
<1> QED BY <1>4, <1>5, <1>11 DEF more, joined, Rows

\* The text can be read from b on, and r is the row there.
ReadableAt(B, s, from, b, r) ==
  /\ s \in Seq(B) /\ ReadsFrom(B, s, from) /\ b \in 1..(Len(s) + 2) /\ from[b].ok = TRUE /\ r = C!Row(s, b)

RowsEndAt(from, b) == from[b].rows = <<>>
RowsGoOn(B, s, from, b, r) ==
  /\ r.at \in (b + 1)..(Len(s) + 2) /\ r.row \in Seq(Seq(B)) /\ from[r.at].ok = TRUE
  /\ from[b].rows = <<r.row>> \o from[r.at].rows

LEMMA FromStep ==
  ASSUME NEW B, NEW s, NEW from, NEW b, NEW r, ReadableAt(B, s, from, b, r)
  PROVE  (b > Len(s) => RowsEndAt(from, b)) /\ (b <= Len(s) => RowsGoOn(B, s, from, b, r))
<1> USE DEF ReadableAt
<1>1. Len(s) \in Nat OBVIOUS
<1>2. from[b] = IF b > Len(s) THEN RowsResult(<<>>) ELSE FurtherRows(r, IF r.ok THEN from[r.at] ELSE NotRead)
  <2>1. from[b] = FromAt(s, from, b) BY DEF ReadsFrom
  <2> QED BY <2>1, FromAtIs
<1>3. b > Len(s) => from[b].rows = <<>> BY <1>2 DEF RowsResult
<1>4. ASSUME b <= Len(s)
      PROVE  /\ r.at \in (b + 1)..(Len(s) + 2) /\ r.row \in Seq(Seq(B)) /\ from[r.at].ok = TRUE
             /\ from[b].rows = <<r.row>> \o from[r.at].rows
  <2>1. b \in 1..(Len(s) + 1) BY <1>1, <1>4
  <2>2. r \in RowsOver(B, s, b) BY <2>1, RowTyped
  <2>3. r.at \in (b + 1)..(Len(s) + 2) /\ r.row \in Seq(Seq(B)) BY <2>2 DEF RowsOver
  <2>4. from[b] = FurtherRows(r, IF r.ok THEN from[r.at] ELSE NotRead) BY <1>1, <1>2, <1>4
  <2>5. CASE r.ok
    <3>1. from[b] = FurtherRows(r, from[r.at]) BY <2>4, <2>5
    <3>2. from[b].ok = from[r.at].ok /\ from[b].rows = <<r.row>> \o from[r.at].rows BY <3>1 DEF FurtherRows
    <3> QED BY <2>3, <3>2
  <2>6. CASE ~r.ok
    <3>1. from[b] = FurtherRows(r, NotRead) BY <2>4, <2>6
    <3>2. from[b].ok = FALSE BY <3>1 DEF FurtherRows, NotRead
    <3> QED BY <3>2
  <2> QED BY <2>5, <2>6
<1> QED BY <1>3, <1>4 DEF RowsEndAt, RowsGoOn

\* The rows are those of the copies, and if the iterator has not ended the one it is at and the
\* ones from m on.
RunInv(B, s, from, x, m) ==
  /\ x \in Runs(B, s)
  /\ \/ x.now.iter.kind = "end" /\ RowsLeft(x.left) = from[1].rows
     \/ /\ x.now.iter.kind = "live" /\ x.now.parser.at \in m..(Len(s) + 2) /\ from[x.now.parser.at].ok = TRUE
        /\ from[1].rows = (RowsLeft(x.left) \o <<x.now.parser.row>>) \o from[x.now.parser.at].rows

LEMMA AdvancedIs ==
  ASSUME NEW B, NEW s \in Seq(B), NEW p \in Parsers(B, s), NEW r, r = C!Row(s, p.at)
  PROVE  C!Advanced(p) = IF p.at > Len(s) THEN [parser |-> [text |-> s, at |-> p.at, row |-> <<>>], iter |-> [kind |-> "end"]]
                         ELSE [parser |-> [text |-> s, at |-> r.at, row |-> r.row], iter |-> C!Live]
<1> DEFINE Rows == Seq(Seq(B))
<1> HIDE DEF Rows
<1>1. p \in [text : {s}, at : Nat \ {0}, row : Rows] BY DEF Parsers, Rows
<1>2. p.text = s /\ [p EXCEPT !.row = <<>>] = [text |-> s, at |-> p.at, row |-> <<>>] BY <1>1
<1>3. ASSUME NEW u, NEW k PROVE [p EXCEPT !.row = u, !.at = k] = [text |-> s, at |-> k, row |-> u]
  <2>1. PICK at, row : p = [text |-> s, at |-> at, row |-> row] BY <1>1
  <2>2. [p EXCEPT !.row = u] = [text |-> s, at |-> at, row |-> u] BY <2>1
  <2>3. ASSUME NEW q, q = [text |-> s, at |-> at, row |-> u] PROVE [q EXCEPT !.at = k] = [text |-> s, at |-> k, row |-> u]
    BY <2>3
  <2> QED BY <2>2, <2>3, Zenon
<1>4. r = C!Row(p.text, p.at) BY <1>2
<1>5. [p EXCEPT !.row = r.row, !.at = r.at] = [text |-> s, at |-> r.at, row |-> r.row] BY <1>3
<1> QED BY <1>2, <1>4, <1>5 DEF C!Advanced

JoinedOnce(u, e, w) == u \o (<<e>> \o w) = (u \o <<e>>) \o w
LEMMA RowsJoined ==
  ASSUME NEW R, NEW u \in Seq(R), NEW e \in R, NEW w \in Seq(R)
  PROVE  JoinedOnce(u, e, w)
<1>1. <<e>> \in Seq(R) OBVIOUS
<1> QED BY <1>1, ConcatAssociative DEF JoinedOnce

LEMMA AdvanceKeeps ==
  ASSUME NEW B, NEW s \in Seq(B), NEW from, ReadsFrom(B, s, from), NEW p \in Parsers(B, s), NEW b, b = p.at,
         b \in 1..(Len(s) + 2), from[b].ok = TRUE, NEW left \in Seq(Cached(B)), RowsLeft(left) \in Seq(Seq(Seq(B))),
         from[1].rows = RowsLeft(left) \o from[b].rows
  PROVE  RunInv(B, s, from, [now |-> C!Advanced(p), left |-> left], b + 1)
<1> DEFINE Rows == Seq(Seq(B))
<1> DEFINE a == C!Advanced(p)
<1> DEFINE x == [now |-> a, left |-> left]
<1>1. Len(s) \in Nat /\ <<>> \in Rows OBVIOUS
<1>2. PICK r : r = C!Row(s, b) OBVIOUS
<1>3. a = IF b > Len(s) THEN [parser |-> [text |-> s, at |-> b, row |-> <<>>], iter |-> [kind |-> "end"]]
          ELSE [parser |-> [text |-> s, at |-> r.at, row |-> r.row], iter |-> C!Live]
  BY <1>2, AdvancedIs
<1>4. b \in Nat \ {0} /\ ReadableAt(B, s, from, b, r) BY <1>1, <1>2 DEF ReadableAt
<1> SUFFICES RunInv(B, s, from, x, b + 1) OBVIOUS
<1> HIDE DEF a
<1>5. x.now = a /\ x.left = left OBVIOUS
<1>6. \A y : y \in Parsers(B, s) <=> y \in [text : {s}, at : Nat \ {0}, row : Rows] BY DEF Parsers
<1>7. \A y \in [parser : Parsers(B, s), iter : {[kind |-> "end"], C!Live}] : y = a => x \in Runs(B, s) BY DEF Runs
<1> HIDE DEF x, Rows
<1>8. CASE b > Len(s)
  <2>1. a = [parser |-> [text |-> s, at |-> b, row |-> <<>>], iter |-> [kind |-> "end"]] BY <1>3, <1>8
  <2>2. [text |-> s, at |-> b, row |-> <<>>] \in Parsers(B, s) BY <1>1, <1>4, <1>6
  <2>3. a \in [parser : Parsers(B, s), iter : {[kind |-> "end"], C!Live}] BY <2>1, <2>2
  <2>4. a.iter.kind = "end" BY <2>1
  <2>5. from[b].rows = <<>> BY <1>4, <1>8, FromStep DEF RowsEndAt
  <2>6. RowsLeft(left) = from[1].rows BY <2>5, ConcatEmptySeq
  <2> QED BY <1>5, <1>7, <2>3, <2>4, <2>6 DEF RunInv
<1>9. CASE ~(b > Len(s))
  <2>1. b <= Len(s) BY <1>1, <1>4, <1>9
  <2>2. /\ r.at \in (b + 1)..(Len(s) + 2) /\ r.row \in Rows /\ from[r.at].ok = TRUE
        /\ from[b].rows = <<r.row>> \o from[r.at].rows
    <3>1. RowsGoOn(B, s, from, b, r) BY <1>4, <2>1, FromStep
    <3> QED BY ONLY <3>1 DEF RowsGoOn, Rows
  <2>3. a = [parser |-> [text |-> s, at |-> r.at, row |-> r.row], iter |-> C!Live] BY <1>3, <1>9
  <2>4. r.at \in Nat \ {0} BY <1>1, <1>4, <2>2
  <2>5. [text |-> s, at |-> r.at, row |-> r.row] \in Parsers(B, s) BY <1>6, <2>2, <2>4
  <2>6. a \in [parser : Parsers(B, s), iter : {[kind |-> "end"], C!Live}] BY <2>3, <2>5
  <2>7. a.iter.kind = "live" /\ a.parser.at = r.at /\ a.parser.row = r.row BY <2>3 DEF C!Live
  <2>8. from[1].rows = (RowsLeft(left) \o <<r.row>>) \o from[r.at].rows
    <3>1. from[r.at].rows \in Seq(Rows)
      <4>1. r.at \in 1..(Len(s) + 2) BY <1>1, <1>4, <2>2
      <4>2. from[r.at] \in Tables(B) BY <4>1 DEF ReadsFrom
      <4> QED BY <4>2 DEF Tables, Rows
    <3>2. RowsLeft(left) \in Seq(Rows) BY DEF Rows
    <3>3. from[1].rows = RowsLeft(left) \o (<<r.row>> \o from[r.at].rows) BY <2>2
    <3>4. RowsLeft(left) \o (<<r.row>> \o from[r.at].rows) = (RowsLeft(left) \o <<r.row>>) \o from[r.at].rows
      <4>1. r.row \in Rows BY <2>2
      <4>2. JoinedOnce(RowsLeft(left), r.row, from[r.at].rows) BY <3>1, <3>2, <4>1, RowsJoined
      <4> QED BY ONLY <4>2 DEF JoinedOnce
    <3> QED BY <3>3, <3>4
  <2>9. x \in Runs(B, s) BY <1>7, <2>6
  <2> QED BY <1>5, <2>2, <2>7, <2>8, <2>9 DEF RunInv
<1> QED BY <1>8, <1>9

\* The recursion of PostIncrements
FirstRun(s) == [now |-> C!Advanced(C!Parser(s)), left |-> <<>>]
NextRun(x) ==
  IF x.now.iter.kind = "end" THEN x
  ELSE [now |-> C!Advanced(x.now.parser), left |-> Append(x.left, C!CopyOf(x.now.parser))]
RunAt(s, run, n) == IF n = 0 THEN FirstRun(s) ELSE NextRun(run[n - 1])
RunOf(s, run) == [n \in 0..(Len(s) + 1) |-> RunAt(s, run, n)]

LEMMA PostIncrementsIs == \A s : C!PostIncrements(s) = (CHOOSE run : run = RunOf(s, run))[Len(s) + 1]
BY DEF C!PostIncrements, RunOf, RunAt, FirstRun, NextRun

LEMMA AdvancedTyped ==
  ASSUME NEW B, NEW s \in Seq(B), NEW p \in Parsers(B, s)
  PROVE  C!Advanced(p) \in [parser : Parsers(B, s), iter : {[kind |-> "end"], C!Live}]
<1> DEFINE Rows == Seq(Seq(B))
<1>1. Len(s) \in Nat /\ <<>> \in Rows /\ p.at \in Nat \ {0} BY DEF Parsers
<1>2. \A y : y \in Parsers(B, s) <=> y \in [text : {s}, at : Nat \ {0}, row : Rows] BY DEF Parsers
<1>3. PICK b : b = p.at OBVIOUS
<1>4. PICK r : r = C!Row(s, p.at) OBVIOUS
<1>5. C!Advanced(p) = IF b > Len(s) THEN [parser |-> [text |-> s, at |-> b, row |-> <<>>], iter |-> [kind |-> "end"]]
                      ELSE [parser |-> [text |-> s, at |-> r.at, row |-> r.row], iter |-> C!Live]
  BY <1>3, <1>4, AdvancedIs
<1>6. b \in Nat \ {0} BY <1>1, <1>3
<1>7. b <= Len(s) => r.at \in Nat \ {0} /\ r.row \in Rows
  <2>1. ASSUME b <= Len(s) PROVE r.at \in Nat \ {0} /\ r.row \in Rows
    <3>1. b \in 1..(Len(s) + 1) BY <1>1, <1>6, <2>1
    <3>2. r \in RowsOver(B, s, b) BY <1>3, <1>4, <3>1, RowTyped
    <3>3. r.at \in (b + 1)..(Len(s) + 2) /\ r.row \in Rows BY <3>2 DEF RowsOver
    <3> QED BY <1>1, <1>6, <3>3
  <2> QED BY <2>1
<1> HIDE DEF Rows
<1>8. CASE b > Len(s)
  <2>1. [text |-> s, at |-> b, row |-> <<>>] \in Parsers(B, s) BY <1>1, <1>2, <1>6
  <2> QED BY <1>5, <1>8, <2>1
<1>9. CASE ~(b > Len(s))
  <2>1. r.at \in Nat \ {0} /\ r.row \in Rows BY <1>1, <1>6, <1>7, <1>9
  <2>2. [text |-> s, at |-> r.at, row |-> r.row] \in Parsers(B, s) BY <1>2, <2>1
  <2> QED BY <1>5, <1>9, <2>2
<1> QED BY <1>8, <1>9

LEMMA ParserTyped ==
  ASSUME NEW B, NEW s \in Seq(B)
  PROVE  C!Parser(s) \in Parsers(B, s) /\ C!Parser(s).at = 1
<1>1. <<>> \in Seq(Seq(B)) OBVIOUS
<1>2. C!Parser(s) = [text |-> s, at |-> 1, row |-> <<>>] BY DEF C!Parser
<1> QED BY <1>1, <1>2 DEF Parsers

LEMMA CopyTyped ==
  ASSUME NEW B, NEW s, NEW p \in Parsers(B, s)
  PROVE  C!CopyOf(p) \in Cached(B) /\ C!CopyOf(p).row = p.row
<1>1. p.row \in Seq(Seq(B)) BY DEF Parsers
<1>2. C!CopyOf(p) = [kind |-> "cached", row |-> p.row] BY DEF C!CopyOf
<1> QED BY <1>1, <1>2 DEF Cached

LEMMA NextRunTyped ==
  ASSUME NEW B, NEW s \in Seq(B)
  PROVE  FirstRun(s) \in Runs(B, s) /\ \A x \in Runs(B, s) : NextRun(x) \in Runs(B, s)
<1> DEFINE Nows == [parser : Parsers(B, s), iter : {[kind |-> "end"], C!Live}]
<1>1. \A now \in Nows, left \in Seq(Cached(B)) : [now |-> now, left |-> left] \in Runs(B, s) BY DEF Runs
<1>2. \A p \in Parsers(B, s) : C!Advanced(p) \in Nows BY AdvancedTyped
<1>3. \A x \in Runs(B, s) : x.now.parser \in Parsers(B, s) /\ x.left \in Seq(Cached(B)) BY DEF Runs
<1> HIDE DEF Nows
<1>4. FirstRun(s) \in Runs(B, s)
  <2>1. <<>> \in Seq(Cached(B)) OBVIOUS
  <2> QED BY <1>1, <1>2, <2>1, ParserTyped DEF FirstRun
<1>5. ASSUME NEW x \in Runs(B, s) PROVE NextRun(x) \in Runs(B, s)
  <2>1. CASE x.now.iter.kind = "end" BY <2>1 DEF NextRun
  <2>2. CASE x.now.iter.kind # "end"
    <3>1. C!CopyOf(x.now.parser) \in Cached(B) BY <1>3, CopyTyped
    <3>2. Append(x.left, C!CopyOf(x.now.parser)) \in Seq(Cached(B)) BY <1>3, <3>1, AppendProperties
    <3>3. C!Advanced(x.now.parser) \in Nows BY <1>2, <1>3
    <3> QED BY <1>1, <2>2, <3>2, <3>3 DEF NextRun
  <2> QED BY <2>1, <2>2
<1> QED BY <1>4, <1>5

LEMMA RunExists ==
  ASSUME NEW B, NEW s \in Seq(B)
  PROVE  \E run : run = RunOf(s, run)
<1> DEFINE R == Runs(B, s)
<1> DEFINE next == [x \in R |-> NextRun(x)]
<1>1. PICK f : f = RecOf(FirstRun(s), next, f) BY Recursion
<1>2. f[0] = FirstRun(s) /\ \A n \in Nat : f[n + 1] = next[f[n]]
  <2>1. \A n \in Nat : f[n] = IF n = 0 THEN FirstRun(s) ELSE next[f[n - 1]]
    <3> HIDE DEF next
    <3> QED BY <1>1, Zenon DEF RecOf
  <2>2. ASSUME NEW n \in Nat PROVE f[n + 1] = next[f[n]]
    <3>1. n + 1 \in Nat /\ n + 1 # 0 /\ (n + 1) - 1 = n OBVIOUS
    <3> HIDE DEF next
    <3> QED BY <2>1, <3>1
  <2> QED BY <2>1, <2>2
<1> DEFINE T == {n \in Nat : f[n] \in R}
<1>3. \A n \in Nat : f[n] \in R
  <2>1. 0 \in T BY <1>2, NextRunTyped
  <2>2. ASSUME NEW n \in Nat, n \in T PROVE n + 1 \in T
    <3>1. f[n] \in R BY <2>2
    <3>2. next[f[n]] = NextRun(f[n]) BY <3>1
    <3>3. NextRun(f[n]) \in R BY <3>1, NextRunTyped
    <3>4. n + 1 \in Nat OBVIOUS
    <3> HIDE DEF R, next
    <3>5. f[n + 1] \in R BY <1>2, <3>2, <3>3
    <3> QED BY <3>4, <3>5
  <2> HIDE DEF T
  <2>3. \A n \in Nat : n \in T BY <2>1, <2>2, FromBefore
  <2> QED BY <2>3 DEF T
<1>4. \A n \in Nat : f[n + 1] = NextRun(f[n]) BY <1>2, <1>3
<1> DEFINE m == Len(s) + 1
<1>5. m \in Nat OBVIOUS
<1> DEFINE run == [n \in 0..m |-> f[n]]
<1>6. ASSUME NEW n \in 0..m PROVE run[n] = RunAt(s, run, n)
  <2>1. n \in Nat /\ run[n] = f[n] BY <1>5
  <2>2. CASE n = 0 BY <1>2, <2>1, <2>2 DEF RunAt
  <2>3. CASE n # 0
    <3>1. n - 1 \in Nat /\ n - 1 \in 0..m /\ (n - 1) + 1 = n BY <1>5, <2>1, <2>3
    <3>2. run[n - 1] = f[n - 1] BY <3>1
    <3>3. f[n] = NextRun(f[n - 1]) BY <1>4, <3>1
    <3> HIDE DEF run, m
    <3> QED BY <2>1, <2>3, <3>2, <3>3 DEF RunAt
  <2> QED BY <2>2, <2>3
<1>7. run = [n \in 0..m |-> run[n]] OBVIOUS
<1> HIDE DEF run
<1>8. run = [n \in 0..m |-> RunAt(s, run, n)] BY <1>6, <1>7
<1> QED BY <1>8 DEF RunOf, m

LEMMA RunLater ==
  ASSUME NEW B, NEW s \in Seq(B), NEW from, NEW x, NEW m \in Int, NEW k \in Int, m <= k, RunInv(B, s, from, x, k)
  PROVE  RunInv(B, s, from, x, m)
<1>1. Len(s) \in Nat OBVIOUS
<1>2. \A a \in k..(Len(s) + 2) : a \in m..(Len(s) + 2) BY <1>1
<1> QED BY <1>2, Zenon DEF RunInv

LEMMA RunEnded ==
  ASSUME NEW B, NEW s, NEW from, NEW x, NEW m, RunInv(B, s, from, x, m), x.now.iter.kind = "end"
  PROVE  \A k : RunInv(B, s, from, x, k)
BY DEF RunInv

\* What is known of an iterator that has not ended
RunLive(B, s, from, x, m) ==
  /\ x.now.parser \in Parsers(B, s) /\ x.left \in Seq(Cached(B))
  /\ x.now.parser.at \in m..(Len(s) + 2) /\ from[x.now.parser.at].ok = TRUE
  /\ from[1].rows = (RowsLeft(x.left) \o <<x.now.parser.row>>) \o from[x.now.parser.at].rows

LEMMA RunGoesOn ==
  ASSUME NEW B, NEW s \in Seq(B), NEW from, ReadsFrom(B, s, from), NEW n \in Nat, NEW x, RunInv(B, s, from, x, n + 2)
  PROVE  RunInv(B, s, from, NextRun(x), n + 3)
<1>1. CASE x.now.iter.kind = "end"
  <2>1. NextRun(x) = x BY <1>1 DEF NextRun
  <2> QED BY <1>1, <2>1, RunEnded
<1>2. CASE x.now.iter.kind # "end"
  <2>1. RunLive(B, s, from, x, n + 2)
    <3>1. x \in Runs(B, s) BY DEF RunInv
    <3>2. x.now.parser \in Parsers(B, s) /\ x.left \in Seq(Cached(B)) BY <3>1 DEF Runs
    <3> QED BY <1>2, <3>2, ZenonT(60) DEF RunInv, RunLive
  <2>2. PICK p : p = x.now.parser OBVIOUS
  <2>3. PICK b : b = p.at OBVIOUS
  <2>4. PICK left : left = x.left OBVIOUS
  <2>5. PICK c : c = C!CopyOf(p) OBVIOUS
  <2>6. p \in Parsers(B, s) /\ left \in Seq(Cached(B)) /\ b \in (n + 2)..(Len(s) + 2) /\ from[b].ok = TRUE
    BY <2>1, <2>2, <2>3, <2>4 DEF RunLive
  <2>7. from[1].rows = (RowsLeft(left) \o <<p.row>>) \o from[b].rows BY <2>1, <2>2, <2>3, <2>4, Zenon DEF RunLive
  <2>8. c \in Cached(B) /\ c.row = p.row BY <2>5, <2>6, CopyTyped
  <2>9. PICK more : more = Append(left, c) OBVIOUS
  <2>10. more \in Seq(Cached(B)) /\ RowsLeft(more) = RowsLeft(left) \o <<c.row>> BY <2>6, <2>8, <2>9, LeftAppended
  <2>11. RowsLeft(more) \in Seq(Seq(Seq(B))) BY <2>8, <2>10, LeftAppended, Zenon
  <2>12. from[1].rows = RowsLeft(more) \o from[b].rows BY <2>7, <2>8, <2>10, Zenon
  <2>13. b \in 1..(Len(s) + 2) /\ b + 1 \in Int /\ n + 3 \in Int /\ n + 3 <= b + 1 BY <2>6
  <2>14. RunInv(B, s, from, [now |-> C!Advanced(p), left |-> more], b + 1)
    BY <2>3, <2>6, <2>10, <2>11, <2>12, <2>13, AdvanceKeeps
  <2>15. NextRun(x) = [now |-> C!Advanced(p), left |-> more] BY <1>2, <2>2, <2>4, <2>5, <2>9 DEF NextRun
  <2> QED BY <2>13, <2>14, <2>15, RunLater
<1> QED BY <1>1, <1>2

LEMMA RunStarts ==
  ASSUME NEW B, NEW s \in Seq(B), NEW from, ReadsFrom(B, s, from), from[1].ok = TRUE
  PROVE  RunInv(B, s, from, FirstRun(s), 2)
<1>1. PICK p : p = C!Parser(s) OBVIOUS
<1>2. PICK left : left = <<>> OBVIOUS
<1>3. p \in Parsers(B, s) /\ p.at = 1 BY <1>1, ParserTyped
<1>4. left \in Seq(Cached(B)) /\ DOMAIN left = {} BY <1>2
<1>5. RowsLeft(left) = <<>> BY <1>4 DEF RowsLeft
<1>6. Len(s) \in Nat /\ 1 \in 1..(Len(s) + 2) /\ 1 + 1 = 2 OBVIOUS
<1>7. from[1].rows \in Seq(Seq(Seq(B)))
  <2>1. from[1] \in Tables(B) BY <1>6 DEF ReadsFrom
  <2> QED BY <2>1 DEF Tables
<1>8. from[1].rows = RowsLeft(left) \o from[1].rows BY <1>5, <1>7, ConcatEmptySeq
<1>9. RowsLeft(left) \in Seq(Seq(Seq(B))) BY <1>5
<1>10. RunInv(B, s, from, [now |-> C!Advanced(p), left |-> left], 1 + 1)
  BY <1>3, <1>4, <1>6, <1>8, <1>9, AdvanceKeeps
<1> QED BY <1>1, <1>2, <1>6, <1>10 DEF FirstRun

\* Every copy that post-increments leave goes on showing its row, and they are all the rows.
LEMMA CopiesAreKept ==
  ASSUME NEW B, NEW s \in Seq(B)
  PROVE  C!CopiesKeepRows(s)
<1>1. PICK from : ReadsFrom(B, s, from) BY ParseReads
<1>2. C!ParseCsv(s) = from[1] BY <1>1 DEF ReadsFrom
<1>3. PICK run : run = RunOf(s, run) /\ C!PostIncrements(s) = run[Len(s) + 1]
  <2>1. PICK run : run = RunOf(s, run) BY RunExists
  <2>2. (CHOOSE r : r = RunOf(s, r)) = RunOf(s, CHOOSE r : r = RunOf(s, r)) BY <2>1
  <2> QED BY <2>2, PostIncrementsIs
<1>4. PICK m : m = Len(s) + 1 OBVIOUS
<1>5. m \in Nat /\ Len(s) \in Nat BY <1>4
<1>6. \A n \in 0..m : run[n] = RunAt(s, run, n) BY <1>3, <1>4 DEF RunOf
<1> SUFFICES ASSUME from[1].ok
             PROVE  RowsLeft(run[m].left) = from[1].rows /\ run[m].left \in Seq(Cached(B))
  <2>1. ASSUME NEW x, x = run[m], x.left \in Seq(Cached(B))
        PROVE  [i \in DOMAIN x.left |-> C!Shows(x.now.parser, x.left[i])] = RowsLeft(x.left)
    <3>1. ASSUME NEW i \in DOMAIN x.left PROVE C!Shows(x.now.parser, x.left[i]) = x.left[i].row
      <4>1. x.left[i] \in Cached(B) BY <2>1, <3>1
      <4>2. x.left[i].kind = "cached" BY <4>1 DEF Cached
      <4> QED BY <4>2 DEF C!Shows
    <3> QED BY <3>1 DEF RowsLeft
  <2> QED BY <1>2, <1>3, <1>4, <2>1, Zenon DEF C!CopiesKeepRows
<1>7. from[1].ok = TRUE
  <2>1. 1 \in 1..(Len(s) + 2) BY <1>5
  <2>2. from[1] \in Tables(B) BY <1>1, <2>1 DEF ReadsFrom
  <2>3. from[1].ok \in BOOLEAN BY <2>2 DEF Tables
  <2> QED BY <2>3
<1> DEFINE T == {n \in Nat : n <= m => RunInv(B, s, from, run[n], n + 2)}
<1>8. \A n \in Nat : n \in T
  <2>1. 0 \in T
    <3>1. run[0] = FirstRun(s) BY <1>5, <1>6 DEF RunAt
    <3>2. 0 + 2 = 2 OBVIOUS
    <3>3. RunInv(B, s, from, FirstRun(s), 2) BY <1>1, <1>7, RunStarts
    <3>4. RunInv(B, s, from, run[0], 0 + 2) BY ONLY <3>1, <3>2, <3>3
    <3> QED BY <3>4
  <2>2. ASSUME NEW n \in Nat, n \in T PROVE n + 1 \in T
    <3>1. ASSUME n + 1 <= m PROVE RunInv(B, s, from, run[n + 1], (n + 1) + 2)
      <4>1. n + 1 \in 0..m /\ n + 1 # 0 /\ (n + 1) - 1 = n /\ n <= m /\ (n + 1) + 2 = n + 3 BY <1>5, <3>1
      <4>2. RunInv(B, s, from, run[n], n + 2) BY <2>2, <4>1
      <4>3. run[n + 1] = NextRun(run[n]) BY <1>6, <4>1 DEF RunAt
      <4>4. RunInv(B, s, from, NextRun(run[n]), n + 3) BY <1>1, <4>2, RunGoesOn
      <4> QED BY <4>1, <4>3, <4>4
    <3> QED BY <3>1
  <2> HIDE DEF T
  <2> QED BY <2>1, <2>2, FromBefore
<1> HIDE DEF T
<1>9. RunInv(B, s, from, run[m], m + 2)
  <2>1. m \in T BY <1>5, <1>8
  <2> QED BY <1>5, <2>1 DEF T
<1>10. run[m] \in Runs(B, s) BY <1>9, Zenon DEF RunInv
<1>11. run[m].left \in Seq(Cached(B)) BY <1>10 DEF Runs
<1>12. \A a : a \notin (m + 2)..(Len(s) + 2) BY <1>4, <1>5
<1>13. RowsLeft(run[m].left) = from[1].rows BY <1>9, <1>12, Zenon DEF RunInv
<1> QED BY <1>11, <1>13

-----------------------------------------------------------------------------
(* Csv: the tables of the inputs                                           *)

RowsOfFields(B) == {r \in Seq(Seq(B)) : Len(r) >= 1}

\* The recursion of TableOf
WithItem(c, t) ==
  IF c = RowEnd THEN << <<<<>>>> >> \o t
  ELSE IF t = <<>> THEN <<>>
  ELSE << IF c = FieldEnd THEN <<<<>>>> \o t[1]
          ELSE <<<<c>> \o t[1][1]>> \o Tail(t[1]) >> \o Tail(t)
TableAt(s, from, i) == IF i > Len(s) THEN <<>> ELSE WithItem(s[i], from[i + 1])
TablesOf(s, from) == [i \in 1..(Len(s) + 1) |-> TableAt(s, from, i)]

LEMMA TableIs == \A s : TableOf(s) = (CHOOSE from : from = TablesOf(s, from))[1]
BY DEF TableOf, TablesOf, TableAt, WithItem

LEMMA LongerRow ==
  ASSUME NEW B, NEW r \in RowsOfFields(B), NEW f \in Seq(B)
  PROVE  <<f>> \o r \in RowsOfFields(B) /\ <<f>> \o Tail(r) \in RowsOfFields(B)
<1> DEFINE Fields == Seq(B)
<1>1. f \in Fields OBVIOUS
<1>2. \A x : x \in RowsOfFields(B) <=> x \in Seq(Fields) /\ Len(x) >= 1 BY DEF RowsOfFields
<1> HIDE DEF Fields
<1>3. <<f>> \in Seq(Fields) /\ Len(<<f>>) = 1 BY <1>1
<1>4. r \in Seq(Fields) /\ r # <<>> /\ Len(r) \in Nat BY <1>2
<1>5. Tail(r) \in Seq(Fields) /\ Len(Tail(r)) \in Nat BY <1>4, HeadTailProperties
<1>6. ASSUME NEW x \in Seq(Fields), Len(x) \in Nat PROVE <<f>> \o x \in RowsOfFields(B)
  <2>1. <<f>> \o x \in Seq(Fields) /\ Len(<<f>> \o x) = 1 + Len(x) BY <1>3, <1>6, ConcatProperties
  <2>2. PICK y : y = <<f>> \o x OBVIOUS
  <2>3. y \in Seq(Fields) /\ Len(y) = 1 + Len(x) BY <2>1, <2>2
  <2>4. Len(y) >= 1 BY <1>6, <2>3
  <2>5. y \in RowsOfFields(B) BY <1>2, <2>3, <2>4
  <2> QED BY <2>2, <2>5
<1> QED BY <1>4, <1>5, <1>6

LEMMA WithItemTyped ==
  ASSUME NEW B, NEW c \in B \cup {FieldEnd, RowEnd}, NEW t \in Seq(RowsOfFields(B))
  PROVE  WithItem(c, t) \in Seq(RowsOfFields(B))
<1> DEFINE R == RowsOfFields(B)
<1> DEFINE EmptyRow == <<<<>>>>
<1>1. EmptyRow \in R /\ <<>> \in Seq(B)
  <2>1. <<>> \in Seq(B) OBVIOUS
  <2>2. EmptyRow \in Seq(Seq(B)) /\ Len(EmptyRow) = 1 BY <2>1
  <2> QED BY <2>1, <2>2 DEF RowsOfFields
<1>2. ASSUME NEW r \in R, NEW u \in Seq(R) PROVE <<r>> \o u \in Seq(R)
  <2> HIDE DEF R
  <2>1. <<r>> \in Seq(R) OBVIOUS
  <2> QED BY <2>1, ConcatProperties
<1>3. CASE c = RowEnd
  <2>1. WithItem(c, t) = <<EmptyRow>> \o t BY <1>3 DEF WithItem
  <2> HIDE DEF R, EmptyRow
  <2> QED BY <1>1, <1>2, <2>1 DEF R
<1>4. CASE c # RowEnd /\ t = <<>>
  <2>1. WithItem(c, t) = <<>> BY <1>4 DEF WithItem
  <2>2. <<>> \in Seq(RowsOfFields(B)) OBVIOUS
  <2> QED BY <2>1, <2>2
<1>5. CASE c # RowEnd /\ t # <<>>
  <2>1. t[1] \in R /\ Tail(t) \in Seq(R)
    <3> HIDE DEF R
    <3>1. t \in Seq(R) BY DEF R
    <3>2. 1 \in 1..Len(t) BY <1>5, <3>1
    <3> QED BY <1>5, <3>1, <3>2, HeadTailProperties
  <2>2. CASE c = FieldEnd
    <3>1. WithItem(c, t) = << <<<<>>>> \o t[1] >> \o Tail(t) BY <1>5, <2>2 DEF WithItem
    <3>2. <<<<>>>> \o t[1] \in R BY <1>1, <2>1, LongerRow
    <3> HIDE DEF R
    <3> QED BY <1>2, <2>1, <3>1, <3>2, Zenon DEF R
  <2>3. CASE c # FieldEnd
    <3>1. WithItem(c, t) = << <<<<c>> \o t[1][1]>> \o Tail(t[1]) >> \o Tail(t) BY <1>5, <2>3 DEF WithItem
    <3>2. c \in B BY <1>5, <2>3
    <3>3. t[1][1] \in Seq(B)
      <4>1. t[1] \in Seq(Seq(B)) /\ Len(t[1]) >= 1 BY <2>1 DEF RowsOfFields
      <4> QED BY <4>1
    <3>4. <<c>> \o t[1][1] \in Seq(B)
      <4>1. <<c>> \in Seq(B) BY <3>2
      <4> QED BY <3>3, <4>1, ConcatProperties
    <3>5. <<<<c>> \o t[1][1]>> \o Tail(t[1]) \in R
      <4>1. PICK f : f = <<c>> \o t[1][1] OBVIOUS
      <4>2. PICK r : r = t[1] OBVIOUS
      <4>3. <<f>> \o Tail(r) \in RowsOfFields(B) BY <2>1, <3>4, <4>1, <4>2, LongerRow
      <4> QED BY <4>1, <4>2, <4>3, Zenon
    <3> HIDE DEF R
    <3> QED BY <1>2, <2>1, <3>1, <3>5, Zenon DEF R
  <2> QED BY <2>2, <2>3
<1> QED BY <1>3, <1>4, <1>5

LEMMA TableTyped ==
  ASSUME NEW B, NEW s \in Seq(B \cup {FieldEnd, RowEnd})
  PROVE  Table(B, TableOf(s))
<1> DEFINE n == Len(s) + 1
<1> DEFINE Values == Seq(RowsOfFields(B))
<1> DEFINE to == [i \in 1..n |-> i + 1]
<1> DEFINE next == [x \in (1..n) \X Values |-> IF x[1] <= Len(s) THEN WithItem(s[x[1]], x[2]) ELSE <<>>]
<1> DEFINE end == [i \in 1..n |-> <<>>]
<1>1. Len(s) \in Nat /\ n = Len(s) + 1 /\ n \in Int /\ 1 \in 1..n OBVIOUS
<1>2. \A i \in 1..n : i \in Int /\ to[i] = i + 1 /\ (i > Len(s) <=> i = n) /\ (to[i] \in (i + 1)..n <=> i <= Len(s)) BY <1>1
<1>3. <<>> \in Values OBVIOUS
<1>4. ASSUME NEW i \in 1..n, i <= Len(s), NEW x \in Values PROVE WithItem(s[i], x) \in Values
  <2>1. i \in 1..Len(s) BY <1>1, <1>4
  <2>2. s[i] \in B \cup {FieldEnd, RowEnd} BY <2>1
  <2> QED BY <2>2, WithItemTyped
<1> HIDE DEF Values, to
<1>5. \A i \in 1..n, x \in Values : next[<<i, x>>] = IF i <= Len(s) THEN WithItem(s[i], x) ELSE <<>> OBVIOUS
<1>6. next \in [(1..n) \X Values -> Values]
  <2>1. ASSUME NEW x \in (1..n) \X Values PROVE (IF x[1] <= Len(s) THEN WithItem(s[x[1]], x[2]) ELSE <<>>) \in Values
    <3>1. x[1] \in 1..n /\ x[2] \in Values OBVIOUS
    <3> QED BY <1>3, <1>4, <3>1
  <2> QED BY <2>1
<1>7. end \in [1..n -> Values] BY <1>3
<1>8. \A i \in 1..n : end[i] = <<>> OBVIOUS
<1> HIDE DEF n, next, end
<1>9. IsWalk(1, n, Values, next, end) BY <1>1, <1>6, <1>7 DEF IsWalk
<1>10. PICK g : WalkIs(1, n, Values, to, next, end, g) BY <1>9, WalkExists
<1>11. ASSUME NEW g1, NEW i \in 1..n, to[i] \in (i + 1)..n => g1[to[i]] \in Values
       PROVE  TableAt(s, g1, i) = WalkAt(n, to, next, end, g1, i)
  <2>1. CASE i <= Len(s)
    <3>1. to[i] \in (i + 1)..n /\ to[i] = i + 1 /\ ~(i > Len(s)) BY <1>1, <1>2, <2>1
    <3>2. next[<<i, g1[to[i]]>>] = WithItem(s[i], g1[to[i]]) BY <1>5, <1>11, <2>1, <3>1
    <3> QED BY <3>1, <3>2 DEF WalkAt, TableAt
  <2>2. CASE ~(i <= Len(s))
    <3>1. to[i] \notin (i + 1)..n /\ i > Len(s) BY <1>1, <1>2, <2>2
    <3> QED BY <1>8, <3>1 DEF WalkAt, TableAt
  <2> QED BY <2>1, <2>2
<1>12. \A i \in 1..n : g[i] = TableAt(s, g, i)
  <2> TAKE i \in 1..n
  <2>1. to[i] \in (i + 1)..n => g[to[i]] \in Values
    <3>1. to[i] \in (i + 1)..n => to[i] \in 1..n BY <1>1
    <3> QED BY <1>10, <3>1 DEF WalkIs
  <2> QED BY <1>10, <1>11, <2>1 DEF WalkIs
<1>13. g = TablesOf(s, g)
  <2>1. g = [i \in 1..n |-> g[i]] BY <1>10 DEF WalkIs
  <2> QED BY <1>12, <2>1 DEF TablesOf, n
<1> DEFINE from == CHOOSE from : from = TablesOf(s, from)
<1>14. from = TablesOf(s, from) BY <1>13
<1>15. TableOf(s) = from[1] BY TableIs
<1> HIDE DEF from
<1>16. \A i \in 1..n : from[i] = TableAt(s, from, i) BY <1>14 DEF TablesOf, n
<1>17. \A i \in 1..n : (to[i] \in (i + 1)..n => from[to[i]] \in Values) => from[i] = WalkAt(n, to, next, end, from, i)
  BY <1>11, <1>16
<1>18. \A i \in 1..n : from[i] \in Values BY <1>9, <1>17, WalkTyped, SMTT(60)
<1>19. TableOf(s) \in Seq(RowsOfFields(B)) BY <1>1, <1>15, <1>18 DEF Values
<1>20. PICK rows : rows = TableOf(s) OBVIOUS
<1>21. rows \in Seq(Seq(Seq(B))) /\ \A i \in 1..Len(rows) : Len(rows[i]) >= 1
  <2>1. \A r \in RowsOfFields(B) : r \in Seq(Seq(B)) /\ Len(r) >= 1 BY DEF RowsOfFields
  <2>2. PICK k \in Nat : rows \in [1..k -> RowsOfFields(B)] /\ Len(rows) = k
    <3>1. rows \in Seq(RowsOfFields(B)) BY <1>19, <1>20
    <3> QED BY <3>1
  <2>3. rows \in [1..k -> Seq(Seq(B))] BY <2>1, <2>2
  <2> QED BY <2>1, <2>2, <2>3
<1> QED BY <1>20, <1>21 DEF Table

LEMMA TextTyped ==
  ASSUME NEW s \in Seq(Characters \cup {FieldEnd, RowEnd})
  PROVE  TextOf(s) \in Seq(Characters)
<1>1. Len(s) \in Nat /\ DOMAIN s = 1..Len(s) /\ \A i \in 1..Len(s) : s[i] \in Characters \cup {FieldEnd, RowEnd} OBVIOUS
<1> DEFINE text(c) == CASE c = FieldEnd -> AComma [] c = RowEnd -> ALf [] OTHER -> c
<1>2. ASSUME NEW c \in Characters \cup {FieldEnd, RowEnd} PROVE text(c) \in Characters
  <2>1. AComma \in Characters /\ ALf \in Characters BY DEF Characters
  <2> QED BY <2>1
<1>3. TextOf(s) = [i \in 1..Len(s) |-> text(s[i])] BY <1>1 DEF TextOf
<1> HIDE DEF text
<1>4. TextOf(s) \in [1..Len(s) -> Characters] BY <1>1, <1>2, <1>3
<1> QED BY <1>1, <1>4

\* Every table is read as it was written, and a loop of post-increments keeps every row.
LEMMA CsvAll ==
  ASSUME NEW s \in Seq(Characters \cup {FieldEnd, RowEnd})
  PROVE  C!RowsKept(TableOf(s)) /\ C!CopiesKeepRows(TextOf(s))
<1>1. Signs \subseteq Characters BY DEF Signs, Characters
<1>2. C!RowsKept(TableOf(s)) BY <1>1, TableTyped, RowsAreKept
<1> QED BY <1>2, TextTyped, CopiesAreKept

-----------------------------------------------------------------------------
(* MCStores: a step is one of the component that runs, or changes nothing of it. *)

LEMMA Steps ==
  [Next]_vars => /\ [M!Next]_mysqlVars /\ [P!Next]_postgresqlVars /\ [I!Next]_internVars
                 /\ [S!Next]_socketVars /\ [L!Next]_lruVars
                 /\ [F!Next]_treeVars /\ [J!Next]_jsonVars
  BY DEF Next, vars

\* Each starts from its own initial state, with its own assumptions.
LEMMA Inits == Init => M!Init /\ P!Init /\ I!Init /\ S!Init /\ L!Init /\ F!Init /\ J!Init
  BY DEF Init

LEMMA Assumed ==
  /\ M!MysqlAssumption /\ P!PostgresqlAssumption /\ S!StreamSocketAssumption /\ L!LruAssumption
  /\ F!FenwickAssumption /\ J!JsonHeapAssumption /\ Q!SqlValuesAssumption
  /\ MaxNumber \in Nat /\ MaxText \in Nat /\ MaxTerm \in Nat /\ MaxComponent \in Nat
  BY MCStoresAssumption DEF MCStoresAssumption

\* The invariant of Mysql is one of MCStores.
LEMMA MyInvHolds == Spec => []MyInv
  <1>1. Init => MyInv
    BY MyInvInit, Inits
  <1>2. MyInv /\ [Next]_vars => MyInv'
    BY MyInvNext, Steps
  <1>3. QED
    BY <1>1, <1>2, PTL DEF Spec

\* For any number of calls, lost sessions and refused commands: no statement has its effect
\* at a MySQL server twice, though execute() prepares and executes again after a lost session.
THEOREM RunsOnceHolds == Spec => []RunsOnce
  <1>1. MyInv => RunsOnce
    BY MyInvOnce DEF RunsOnce
  <1>2. QED
    BY <1>1, MyInvHolds, PTL

\* For the same: a block of statements that committed is kept whole, one that was rolled
\* back leaves nothing, with MySQL if its session lasted and with PostgreSQL if none of its
\* calls threw.
THEOREM AtomicUnlessBrokenHolds == Spec => []AtomicUnlessBroken
  <1>1. Init => PgInv
    BY PgInvInit, Inits
  <1>2. PgInv /\ [Next]_vars => PgInv'
    BY PgInvNext, Steps
  <1>3. MyInv /\ PgInv => AtomicUnlessBroken
    BY MyInvAtomic, PgInvAtomic DEF AtomicUnlessBroken
  <1>4. QED
    BY <1>1, <1>2, <1>3, MyInvHolds, PTL DEF Spec

\* For any keys and any number of interns, swapped, cleared and read from archives.
THEOREM IdsExactHolds == Spec => []IdsExact
  <1>1. Init => InternInv
    BY InternInvInit, Inits
  <1>2. InternInv /\ [Next]_vars => InternInv'
    BY InternInvNext, Steps
  <1>3. InternInv => IdsExact
    BY InternInvExact DEF IdsExact
  <1>4. QED
    BY <1>1, <1>2, <1>3, PTL DEF Spec

\* For any size of the write buffer, of the calls and of what the kernel takes and gives.
THEOREM StreamsExactHolds == Spec => []StreamsExact
  <1>1. Init => StreamInv
    BY StreamInvInit, Inits, Assumed
  <1>2. StreamInv /\ [Next]_vars => StreamInv'
    BY StreamInvNext, Steps, Assumed
  <1>3. StreamInv => StreamsExact
    BY StreamInvExact DEF StreamsExact
  <1>4. QED
    BY <1>1, <1>2, <1>3, PTL DEF Spec

\* For any keys, values and size: lru is the list of its keys in the order of their last
\* use, and what makes room for a new key is the one at its head.
THEOREM ImplementsRecencyListHolds == Spec => ImplementsRecencyList
  <1>1. Init => LruInv /\ L!R!Init
    BY LruInvInit, Inits, Assumed
  <1>2. LruInv /\ [Next]_vars => LruInv' /\ [L!R!Next]_(L!R!vars)
    BY LruInvNext, Steps, Assumed
  <1>3. QED
    BY <1>1, <1>2, PTL DEF Spec, ImplementsRecencyList, L!ImplementsRecencyList, L!R!Spec

\* An input is a sequence of the items of its function.
InputInv == part \in DOMAIN Inputs => input \in Seq(Inputs[part].items)

LEMMA InputInvHolds == Spec => []InputInv
  <1>1. Init => InputInv
    BY DEF Init, InputInv
  <1>2. InputInv /\ [Next]_vars => InputInv'
    <2> SUFFICES ASSUME InputInv, [Next]_vars, part' \in DOMAIN Inputs PROVE input' \in Seq(Inputs[part'].items)
      BY DEF InputInv
    <2>1. part' = part BY DEF Next, vars
    <2>2. input \in Seq(Inputs[part].items) BY <2>1 DEF InputInv
    <2>3. CASE Longer
      <3>1. PICK c \in Inputs[part].items : input' = Append(input, c) BY <2>3 DEF Longer
      <3> QED BY <2>1, <2>2, <3>1
    <2>4. CASE UNCHANGED input BY <2>1, <2>2, <2>4
    <2> QED BY <2>3, <2>4 DEF Next, vars
  <1>3. QED
    BY <1>1, <1>2, PTL DEF Spec

\* For any other character and any ends of fields and rows, and tables of any number of rows and
\* fields of any length: a table that was written is read as it was, and a loop of post-increments
\* keeps every row of a text that can be read.
THEOREM CsvExactHolds == Spec => []CsvExact
  <1>1. InputInv => CsvExact
    <2> SUFFICES ASSUME InputInv, part = "table"
                 PROVE  C!RowsKept(TableOf(input)) /\ C!CopiesKeepRows(TextOf(input))
      BY DEF CsvExact
    <2>1. part \in DOMAIN Inputs /\ Inputs[part].items = Characters \cup {FieldEnd, RowEnd} BY DEF Inputs
    <2>2. input \in Seq(Characters \cup {FieldEnd, RowEnd}) BY <2>1 DEF InputInv
    <2> QED BY <2>2, CsvAll
  <1>2. QED
    BY <1>1, InputInvHolds, PTL

=============================================================================
