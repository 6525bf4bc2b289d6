------------------------------- MODULE Vector --------------------------------
(***************************************************************************)
(* The vector classes that vector_h.rb generates into math/vector.h: one   *)
(* for each dimension from 2 to 10, for dimensions 2 to 4 once with named  *)
(* components and once with an array.  The operators of all but `%' are    *)
(* those of this module for their N; the components here are integers.     *)
(***************************************************************************)
EXTENDS Integers, Sequences, Functions

CONSTANT N  \* the dimension

VectorAssumption == N \in Nat \ {0}

Dims == 1..N
Zero == [i \in Dims |-> 0]

Plus(a, b) == [i \in Dims |-> a[i] + b[i]]
Minus(a, b) == [i \in Dims |-> a[i] - b[i]]
Negate(a) == [i \in Dims |-> -a[i]]
Scale(m, a) == [i \in Dims |-> m * a[i]]

\* Division of integers cuts the fraction off.
Abs(x) == IF x < 0 THEN -x ELSE x
Cut(x, m) == IF (x < 0) = (m < 0) THEN Abs(x) \div Abs(m) ELSE -(Abs(x) \div Abs(m))
Divide(a, m) == [i \in Dims |-> Cut(a[i], m)]

Inner(a, b) == SumFunction([i \in Dims |-> a[i] * b[i]])
Norm(a) == Inner(a, a)

(***************************************************************************)
(* `a *= b' and `a /= b' take b by reference, and b may be a component of  *)
(* a itself: the product is built first and then assigned.                 *)
(***************************************************************************)
ScaleBy(a, k) == Scale(a[k], a)
DivideBy(a, k) == Divide(a, a[k])

Equal(a, b) == \A i \in Dims : a[i] = b[i]

\* Fault: the components are compared as if each decided alone.
Less_AnyComponent(a, b) == \E i \in Dims : a[i] < b[i]

\* The chain of `if (a.x != b.x) return a.x < b.x;'.
Less(a, b) == \E i \in Dims : a[i] < b[i] /\ \A j \in 1..(i - 1) : a[j] = b[j]

\* operator>>: N extractions into variables without a value, then the assignment, done
\* even when the stream `in' ran dry: the failing extraction gives 0, the later ones nothing.
Read(in, noValue) ==
  [i \in Dims |-> IF i <= Len(in) THEN in[i] ELSE IF i = Len(in) + 1 THEN 0 ELSE noValue]
Write(a) == [i \in Dims |-> a[i]]

-----------------------------------------------------------------------------
(* `<' is a strict total order whose ties are those of `==' and that       *)
(* addition keeps, so vectors can be keys of a map; a vector divided by    *)
(* one of its own components has 1 there; what is written is read back.    *)
VectorLaws(a, b) ==
  /\ Less(a, b) <=> ~Less(b, a) /\ ~Equal(a, b)
  /\ Less(a, b) => /\ Less(Plus(a, a), Plus(b, a))
                   /\ ~Less(Negate(a), Negate(b))
                   /\ Less(Minus(a, b), Zero)
  /\ Norm(Plus(a, b)) = Norm(a) + 2 * Inner(a, b) + Norm(b)
  /\ \A k \in Dims : /\ a[k] # 0 => DivideBy(a, k)[k] = 1
                     /\ ScaleBy(a, k)[k] = a[k] * a[k]
                     /\ a[k] # 0 => Equal(Divide(ScaleBy(a, k), a[k]), a)
  /\ Equal(Read(Write(a) \o Write(b), 0), a)
==============================================================================
