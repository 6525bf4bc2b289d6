------------------------------ MODULE JsonCast -------------------------------
(***************************************************************************)
(* text/json/cast.h: to_json(), from_json() and from_json_with_default()   *)
(* between the values of JsonText and typed variables.  A type is a        *)
(* record; an optional is <<>> or <<v>>, a vector a sequence, a map a      *)
(* function from names, an object of a class the sequence of its members.  *)
(* The two maps, the integers wider than int and the two floats are one.   *)
(***************************************************************************)
EXTENDS JsonText

CONSTANT IntMax  \* INT_MAX: a long is cut to an int of IntMax's width

JsonCastAssumption == IntMax \in 1..LongMax

IntType == [kind |-> "int"]
LongType == [kind |-> "long"]
DoubleType == [kind |-> "double"]
StringType == [kind |-> "string"]
BoolType == [kind |-> "bool"]
JsonType == [kind |-> "json"]
VectorType(t) == [kind |-> "vector", of |-> t]
MapType(t) == [kind |-> "map", of |-> t]
OptionalType(t) == [kind |-> "optional", of |-> t]
ClassType(members) == [kind |-> "class", members |-> members]   \* of [name, type]
Names(t) == [i \in DOMAIN t.members |-> t.members[i].name]
MemberType(t, i) == t.members[i].type

NarrowInt(n) == ((n + IntMax + 1) % (2 * IntMax + 2)) - IntMax - 1

\* T(): what a variable is before it is read over in a fresh place.
RECURSIVE Fresh(_)
Fresh(t) ==
  CASE t.kind \in {"int", "long"} -> 0
    [] t.kind = "double" -> Float(0, 0)
    [] t.kind = "bool" -> FALSE
    [] t.kind = "json" -> NullValue
    [] t.kind = "class" -> [i \in DOMAIN t.members |-> Fresh(MemberType(t, i))]
    [] OTHER -> <<>>

\* A variable declared without a value.
RECURSIVE NoValue(_, _)
NoValue(t, junk) ==
  CASE t.kind \in {"int", "long"} -> junk
    [] t.kind = "double" -> Float(junk, 0)
    [] t.kind = "bool" -> junk # 0
    [] t.kind = "class" -> [i \in DOMAIN t.members |-> NoValue(MemberType(t, i), junk)]
    [] OTHER -> Fresh(t)

RECURSIVE ToJson(_, _)
ToJson(t, v) ==
  CASE t.kind \in {"int", "long"} -> Integer(v)
    [] t.kind = "double" -> v
    [] t.kind = "string" -> String(v)
    [] t.kind = "bool" -> Bool(v)
    [] t.kind = "json" -> v
    [] t.kind = "vector" -> Array([i \in DOMAIN v |-> ToJson(t.of, v[i])])
    [] t.kind = "map" -> Object([k \in DOMAIN v |-> ToJson(t.of, v[k])])
    [] t.kind = "optional" -> IF v = <<>> THEN NullValue ELSE ToJson(t.of, v[1])
    [] t.kind = "class" ->
         Object([k \in Range(Names(t)) |->
                   LET i == CHOOSE j \in DOMAIN v : Names(t)[j] = k IN ToJson(MemberType(t, i), v[i])])

\* json_cast of a scalar: whether js is of the type, and its value then.
Fits(t, js) ==
  CASE t.kind \in {"int", "long"} -> js.type = "integer"
    [] t.kind = "double" -> js.type \in {"integer", "float"}
    [] t.kind = "string" -> js.type = "string"
    [] t.kind = "bool" -> js.type = "bool"
    [] t.kind = "json" -> TRUE
Scalar(t, js) ==
  CASE t.kind = "int" -> NarrowInt(js.n)
    [] t.kind = "long" -> js.n
    [] t.kind = "double" -> AsFloat(js)
    [] t.kind = "string" -> js.s
    [] t.kind = "bool" -> js.b
    [] t.kind = "json" -> js

Cast(v) == [ok |-> TRUE, v |-> v]
Thrown(v) == [ok |-> FALSE, v |-> v]    \* json_bad_cast; v is what the variable holds then

\* Fault: a container is filled in its own place.
Swapped_InPlace(old, new, ok) == [ok |-> ok, v |-> new]

\* The containers build a new value and swap it in when it is whole.
Swapped(old, new, ok) == IF ok THEN Cast(new) ELSE Thrown(old)

(***************************************************************************)
(* serialize(json_iarchive_cast&, T&) of a variable that holds old.  The   *)
(* members of a class are read one after the other in place: those before  *)
(* the one that throws stay changed.                                       *)
(***************************************************************************)
RECURSIVE FromJson(_, _, _)
FromJson(t, js, old) ==
  CASE t.kind = "vector" ->
         LET r == [i \in DOMAIN js.a |-> FromJson(t.of, js.a[i], Fresh(t.of))]
         IN IF js.type # "array" THEN Thrown(old)
            ELSE Swapped(old, [i \in DOMAIN r |-> r[i].v], \A i \in DOMAIN r : r[i].ok)
    [] t.kind = "map" ->
         LET r == [k \in DOMAIN js.m |-> FromJson(t.of, js.m[k], Fresh(t.of))]
         IN IF js.type # "object" THEN Thrown(old)
            ELSE Swapped(old, [k \in DOMAIN r |-> r[k].v], \A k \in DOMAIN r : r[k].ok)
    [] t.kind = "optional" ->
         LET r == FromJson(t.of, js, Fresh(t.of))
         IN IF js.type = "null" THEN Cast(<<>>) ELSE IF r.ok THEN Cast(<<r.v>>) ELSE Thrown(old)
    [] t.kind = "class" ->
         LET member(i, v) ==
               IF js.type # "object" THEN Thrown(v)
               ELSE IF Names(t)[i] \in DOMAIN js.m THEN FromJson(MemberType(t, i), js.m[Names(t)[i]], v)
               ELSE IF MemberType(t, i).kind = "optional" THEN Cast(<<>>) ELSE Thrown(v)
             step(r, i) ==
               IF ~r.ok THEN r ELSE LET m == member(i, r.v[i]) IN [ok |-> m.ok, v |-> [r.v EXCEPT ![i] = m.v]]
         IN FoldLeft(step, Cast(old), [i \in DOMAIN t.members |-> i])
    [] OTHER -> IF Fits(t, js) THEN Cast(Scalar(t, js)) ELSE Thrown(old)

(***************************************************************************)
(* The same with json_iarchive_cast_with_default, which never throws: what *)
(* does not fit is left as it is, a vector keeps its tail and a map its    *)
(* other keys.  An optional is read into a variable without a value, whose *)
(* scalars are some `junk': the default of an optional is lost.            *)
(***************************************************************************)
RECURSIVE WithDefault(_, _, _, _)
WithDefault(t, js, old, junk) ==
  CASE t.kind = "vector" ->
         IF js.type # "array" THEN old
         ELSE [i \in 1..Max({Len(old), Len(js.a)}) |->
                 LET was == IF i \in DOMAIN old THEN old[i] ELSE Fresh(t.of)
                 IN IF i \in DOMAIN js.a THEN WithDefault(t.of, js.a[i], was, junk) ELSE was]
    [] t.kind = "map" ->
         IF js.type # "object" THEN old
         ELSE [k \in DOMAIN old \cup DOMAIN js.m |->
                 LET was == IF k \in DOMAIN old THEN old[k] ELSE Fresh(t.of)
                 IN IF k \in DOMAIN js.m THEN WithDefault(t.of, js.m[k], was, junk) ELSE was]
    [] t.kind = "optional" ->
         IF js.type = "null" THEN <<>> ELSE <<WithDefault(t.of, js, NoValue(t.of, junk), junk)>>
    [] t.kind = "class" ->
         IF js.type # "object" THEN old
         ELSE [i \in DOMAIN t.members |->
                 IF Names(t)[i] \in DOMAIN js.m
                 THEN WithDefault(MemberType(t, i), js.m[Names(t)[i]], old[i], junk) ELSE old[i]]
    [] OTHER -> IF Fits(t, js) THEN Scalar(t, js) ELSE old

-----------------------------------------------------------------------------
(* What to_json() makes from_json() reads back into a variable with any    *)
(* older value, and with a default of nothing the other one does too.      *)
RECURSIVE ShowsAll(_)
ShowsAll(t) ==    \* an optional within an optional, or of a json, cannot tell its two nulls apart
  CASE t.kind = "optional" -> t.of.kind \notin {"optional", "json"} /\ ShowsAll(t.of)
    [] t.kind \in {"vector", "map"} -> ShowsAll(t.of)
    [] t.kind = "class" -> \A i \in DOMAIN t.members : ShowsAll(MemberType(t, i))
    [] OTHER -> TRUE

CastInverse(t, v, old, junk) ==
  ShowsAll(t) => /\ FromJson(t, ToJson(t, v), old) = Cast(v)
                 /\ WithDefault(t, ToJson(t, v), Fresh(t), junk) = v

(* A cast that throws leaves the variable as it was, but for an object of  *)
(* a class, of which the members before the one that did not fit are new   *)
(* and those behind it old; and where nothing throws, the defaults agree.  *)
RECURSIVE Half(_, _, _, _)
Half(t, js, old, v) ==
  IF t.kind # "class" THEN v = old
  ELSE \E n \in DOMAIN old :
         /\ \A i \in (n + 1)..Len(old) : v[i] = old[i]
         /\ \A i \in 1..(n - 1) :
              IF Names(t)[i] \in DOMAIN js.m
              THEN FromJson(MemberType(t, i), js.m[Names(t)[i]], old[i]) = Cast(v[i])
              ELSE v[i] = <<>>
         /\ v[n] = old[n] \/ Half(MemberType(t, n), js.m[Names(t)[n]], old[n], v[n])
CastFails(t, js, old, junk) ==
  LET r == FromJson(t, js, old)
  IN /\ ~r.ok => Half(t, js, old, r.v)
     /\ r.ok /\ t.kind \in {"int", "long", "double", "string", "bool", "json"}
          => WithDefault(t, js, old, junk) = r.v
     /\ WithDefault(t, js, WithDefault(t, js, old, junk), junk) = WithDefault(t, js, old, junk)
==============================================================================
