------------------------------ MODULE MathTypes ------------------------------
(***************************************************************************)
(* math/vector.h has twelve classes: the ones of two to four dimensions    *)
(* come twice, with named components and with an array.  But for `%' all   *)
(* are Vector for their dimension.                                         *)
(*                                                                         *)
(* math/ratio.h: fractions num/den kept in lowest terms with a positive    *)
(* denominator.  The compound operators change the left operand field by   *)
(* field and take the right one by reference, so they are written here as  *)
(* the values the fields get in turn.                                      *)
(***************************************************************************)
EXTENDS Integers

vector2 == INSTANCE Vector WITH N <- 2
vector3 == INSTANCE Vector WITH N <- 3
vector4 == INSTANCE Vector WITH N <- 4
array_vector2 == INSTANCE Vector WITH N <- 2
array_vector3 == INSTANCE Vector WITH N <- 3
array_vector4 == INSTANCE Vector WITH N <- 4
vector5 == INSTANCE Vector WITH N <- 5
vector6 == INSTANCE Vector WITH N <- 6
vector7 == INSTANCE Vector WITH N <- 7
vector8 == INSTANCE Vector WITH N <- 8
vector9 == INSTANCE Vector WITH N <- 9
vector10 == INSTANCE Vector WITH N <- 10

\* operator% of the classes with named components: a number in two dimensions, a vector in
\* three.  The one of the array classes is written with components x, y and z, which these
\* do not have: a use of it does not compile.
Outer2(a, b) == a[1] * b[2] - a[2] * b[1]
Outer3(a, b) ==
  <<a[2] * b[3] - a[3] * b[2], a[3] * b[1] - a[1] * b[3], a[1] * b[2] - a[2] * b[1]>>

\* The laws of Vector hold for every class (math/vector.h); the outer product of the two
\* classes that have one completes the inner one, and is orthogonal to both factors.
ClassLaws(n, a, b) ==
  /\ n = 2 => /\ vector2!VectorLaws(a, b) /\ array_vector2!VectorLaws(a, b)
              /\ Outer2(a, b) * Outer2(a, b) + vector2!Inner(a, b) * vector2!Inner(a, b)
                   = vector2!Norm(a) * vector2!Norm(b)
  /\ n = 3 => /\ vector3!VectorLaws(a, b) /\ array_vector3!VectorLaws(a, b)
              /\ vector3!Inner(Outer3(a, b), a) = 0 /\ vector3!Inner(Outer3(a, b), b) = 0
  /\ n = 4 => vector4!VectorLaws(a, b) /\ array_vector4!VectorLaws(a, b)
  /\ n = 5 => vector5!VectorLaws(a, b)
  /\ n = 6 => vector6!VectorLaws(a, b)
  /\ n = 7 => vector7!VectorLaws(a, b)
  /\ n = 8 => vector8!VectorLaws(a, b)
  /\ n = 9 => vector9!VectorLaws(a, b)
  /\ n = 10 => vector10!VectorLaws(a, b)

-----------------------------------------------------------------------------
(* ratio *)

Abs(x) == IF x < 0 THEN -x ELSE x
Rem(a, b) == Abs(a) % Abs(b)     \* only of non-negative numbers here

\* gcd(): the caller sees to it that b is not 0, where the code divides by 0.
Gcd(x, y) ==
  LET euclid[p \in (0..Abs(y)) \X (0..Abs(y))] ==
        IF p[1] = 0 THEN p[2] ELSE euclid[<<Rem(p[2], p[1]), p[1]>>]
  IN euclid[<<Rem(x, y), Abs(y)>>]
Cut(a, b) == IF b > 0 THEN (IF a < 0 THEN -((-a) \div b) ELSE a \div b)
             ELSE (IF a < 0 THEN (-a) \div (-b) ELSE -(a \div (-b)))

Reduce(num, den) ==
  LET g == Gcd(num, den) * (IF den > 0 THEN 1 ELSE -1)
  IN [num |-> Cut(num, g), den |-> Cut(den, g)]
Make(num, den) == IF den < 0 THEN Reduce(-num, -den) ELSE Reduce(num, den)

Plus(a, b) ==
  LET g == Gcd(a.den, b.den)
  IN Reduce(a.num * Cut(b.den, g) + b.num * Cut(a.den, g), a.den * Cut(b.den, g))
Minus(a, b) ==
  LET g == Gcd(a.den, b.den)
  IN Reduce(a.num * Cut(b.den, g) - b.num * Cut(a.den, g), a.den * Cut(b.den, g))
Times(a, b) ==
  LET g1 == Gcd(a.num, b.den)
      g2 == Gcd(b.num, a.den)
  IN [num |-> Cut(a.num, g1) * Cut(b.num, g2), den |-> Cut(a.den, g2) * Cut(b.den, g1)]

\* operator/=: `same' when both operands are one object, whose new numerator the
\* denominator is then computed from.
Over(a, b, same) ==
  LET g1 == Gcd(a.num, b.num)
      g2 == Gcd(a.den, b.den)
      num == Cut(a.num, g1) * Cut(b.den, g2)
      den == Cut(a.den, g2) * Cut(IF same THEN num ELSE b.num, g1)
  IN IF den < 0 THEN [num |-> -num, den |-> -den] ELSE [num |-> num, den |-> den]

Equals(a, b) == a.num = b.num /\ a.den = b.den

-----------------------------------------------------------------------------
InLowestTerms(r) == r.den > 0 /\ Gcd(r.num, r.den) = 1
Same(r, num, den) == r.num * den = num * r.den

(* The operators are those of the field of fractions and keep the lowest   *)
(* terms that `==' compares by; a value divided by itself through one      *)
(* object is left out (see the README).                                    *)
RatioExact(p, q, r, s) ==
  LET a == Make(p, q)
      b == Make(r, s)
  IN /\ InLowestTerms(a) /\ Same(a, p, q)
     /\ InLowestTerms(Plus(a, b)) /\ Same(Plus(a, b), p * s + r * q, q * s)
     /\ InLowestTerms(Minus(a, b)) /\ Same(Minus(a, b), p * s - r * q, q * s)
     /\ InLowestTerms(Times(a, b)) /\ Same(Times(a, b), p * r, q * s)
     /\ r # 0 => InLowestTerms(Over(a, b, FALSE)) /\ Same(Over(a, b, FALSE), p * s, q * r)
     /\ Equals(Plus(Minus(a, b), b), a)
     /\ Equals(Minus(a, a), Make(0, 1)) /\ Equals(Plus(a, a), Times(Make(2, 1), a))
==============================================================================
