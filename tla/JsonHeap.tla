------------------------------- MODULE JsonHeap -------------------------------
(***************************************************************************)
(* The sharing of json values (text/json/base.h): a json is a pointer to a *)
(* value, copying one copies the pointer, and the members of an object and *)
(* the elements of an array are json again.  Here a program changes values *)
(* through its variables and one level below them, and copies with clone() *)
(* and merge().                                                            *)
(* A value is its type and its children: of an object by name, of an array *)
(* by place, of the others none.  Values nobody points at are gone.        *)
(***************************************************************************)
EXTENDS Integers, SequencesExt

CONSTANTS
  Vars,     \* the json variables of the program
  Names,    \* of members
  Cells,    \* bound: 1..n, where values can be
  MaxArray  \* bound: the elements of an array

VARIABLES
  heap,  \* the values, by cell
  var,   \* the cell each variable points at
  kept   \* history: what a variable showed when clone() filled it, as long as
         \* nothing has been put in or taken out through it

vars == <<heap, var, kept>>

JsonHeapAssumption == Cells \subseteq Nat /\ IsFiniteSet(Cells)

Value(type) == [type |-> type, kids |-> <<>>]
Null == Value("null")

-----------------------------------------------------------------------------

Kids(h, c) == {h[c].kids[k] : k \in DOMAIN h[c].kids}

\* What there is in these cells and below them: a way that visits no cell twice is shorter
\* than the heap.
Below(h, set) ==
  LET within[n \in Nat] ==
        IF n = 0 THEN set ELSE within[n - 1] \cup UNION {Kids(h, c) : c \in within[n - 1]}
  IN within[Cardinality(DOMAIN h)]

Cyclic(h, c) == \E d \in Below(h, {c}) : d \in Below(h, Kids(h, d))

\* What a json that is not within itself shows: print() of it, or equals().
Tree(h, c) ==
  LET tree[d \in Below(h, {c})] == [type |-> h[d].type, kids |-> [k \in DOMAIN h[d].kids |-> tree[h[d].kids[k]]]]
  IN tree[c]

Nothing == [type |-> "nothing", kids |-> <<>>]

\* f before g, and f with one more place or another value at one
Over(f, g) == [x \in DOMAIN f \cup DOMAIN g |-> IF x \in DOMAIN f THEN f[x] ELSE g[x]]
Put(f, at, value) == [x \in DOMAIN f \cup {at} |-> IF x = at THEN value ELSE f[x]]

Free(h) == Cells \ DOMAIN h
New(h) == Min(Free(h))

\* Values without a pointer to them are destroyed; those of a cycle stay, but nobody sees it.
Collected(h, v) == [c \in Below(h, {v[x] : x \in Vars}) |-> h[c]]

\* The program's new variables and values; forget: whose kept value does not count any more.
Becomes(h, v, forget) ==
  /\ heap' = Collected(h, v) /\ var' = v
  /\ kept' = [x \in Vars |-> IF x \in forget THEN Nothing ELSE kept[x]]

Init == /\ heap = [c \in {1} |-> Null] /\ var = [x \in Vars |-> 1]
        /\ kept = [x \in Vars |-> Nothing]

-----------------------------------------------------------------------------

\* x = json(new ...)
Make(x, value) ==
  /\ Free(heap) # {}
  /\ Becomes(Put(heap, New(heap), value), [var EXCEPT ![x] = New(heap)], {x})

\* x = y
Assign(x, y) == x # y /\ Becomes(heap, [var EXCEPT ![x] = var[y]], {x, y})

\* x.add(name, y), and x[name] = y
Link(x, name, y) ==
  LET c == var[x] IN
  /\ heap[c].type = "object"
  /\ Becomes(Put(heap, c, [heap[c] EXCEPT !.kids = Put(@, name, var[y])]), var, {x, y})

\* x.add(y)
Append_(x, y) ==
  LET c == var[x] IN
  /\ heap[c].type = "array" /\ Len(heap[c].kids) < MaxArray
  /\ Becomes(Put(heap, c, [heap[c] EXCEPT !.kids = Append(@, var[y])]), var, {x, y})

\* x[name] of a variable that is not const, even if it is only read: a null comes in.
Look(x, name) ==
  LET c == var[x] IN
  /\ heap[c].type = "object" /\ name \notin DOMAIN heap[c].kids /\ Free(heap) # {}
  /\ LET n == New(heap) IN
     Becomes(Put(Put(heap, n, Null), c, [heap[c] EXCEPT !.kids = Put(@, name, n)]), var, {x})

\* y = x[at]
Fetch(x, at, y) ==
  /\ at \in DOMAIN heap[var[x]].kids
  /\ Becomes(heap, [var EXCEPT ![y] = heap[var[x]].kids[at]], {x, y})

\* x[at][name] = y
LinkBelow(x, at, name, y) ==
  /\ at \in DOMAIN heap[var[x]].kids
  /\ LET c == heap[var[x]].kids[at] IN
     /\ heap[c].type = "object"
     /\ Becomes(Put(heap, c, [heap[c] EXCEPT !.kids = Put(@, name, var[y])]), var, {x, y})

\* to = merge(x, y): a new object with the members of both, y's where both have one.
Merge(to, x, y) ==
  /\ heap[var[x]].type = "object" /\ heap[var[y]].type = "object" /\ Free(heap) # {}
  /\ LET n == New(heap) IN
     Becomes(Put(heap, n, [type |-> "object", kids |-> Over(heap[var[y]].kids, heap[var[x]].kids)]),
             [var EXCEPT ![to] = n], {to, x, y})

\* Fault: the copy has the children of the original.
CopyOf_Shallow(h, c) == [heap |-> Put(h, New(h), h[c]), cell |-> New(h)]

\* The values within the one in c, itself first, once for each way to them: the way and the cell.
Within(h, c) ==
  LET long[n \in Nat] ==
        IF n = 0 THEN {<<<<>>, c>>}
        ELSE UNION {{<<Append(w[1], k), h[w[2]].kids[k]>> : k \in DOMAIN h[w[2]].kids} : w \in long[n - 1]}
  IN UNION {long[n] : n \in 0..Cardinality(DOMAIN h)}

\* json_value::clone(): a new value with clones of the children.
CopyOf(h, c) ==
  LET originals == SetToSeq(Within(h, c)) IN
  LET cells == SetToSeq(Free(h)) IN
  LET at(w) == cells[CHOOSE i \in DOMAIN originals : originals[i] = w] IN
  LET new == [d \in {cells[i] : i \in DOMAIN originals} |->
                LET w == originals[CHOOSE i \in DOMAIN originals : cells[i] = d] IN
                [type |-> h[w[2]].type,
                 kids |-> [k \in DOMAIN h[w[2]].kids |-> at(<<Append(w[1], k), h[w[2]].kids[k]>>)]]]
  IN [heap |-> Over(new, h), cell |-> at(<<<<>>, c>>)]

\* to = x.clone(); of a value within itself it does not end.
Clone(to, x) ==
  /\ to # x /\ ~Cyclic(heap, var[x]) /\ Cardinality(Within(heap, var[x])) <= Cardinality(Free(heap))
  /\ LET copy == CopyOf(heap, var[x]) IN
     LET v == [var EXCEPT ![to] = copy.cell] IN
     /\ heap' = Collected(copy.heap, v) /\ var' = v
     /\ kept' = [kept EXCEPT ![to] = Tree(heap, var[x])]

Next ==
  \E x, y \in Vars :
    \/ Assign(x, y) \/ Append_(x, y) \/ Clone(x, y)
    \/ \E type \in {"null", "integer", "array", "object"} : Make(x, Value(type))
    \/ \E name \in Names : Link(x, name, y) \/ Look(x, name)
    \/ \E at \in Names \cup 1..MaxArray : Fetch(x, at, y) \/ \E name \in Names : LinkBelow(x, at, name, y)
    \/ \E to \in Vars : Merge(to, x, y)

Spec == Init /\ [][Next]_vars

-----------------------------------------------------------------------------
\* What clone() gives is apart from everything: whatever the program does with the original
\* and with any other variable, values within values included, the clone shows what it
\* showed, until the program changes it or takes something out of it through its variable.
\* (json.rst: clone() copies deeply, where a copy or a merge() shares.)
ClonesApart ==
  \A x \in Vars : kept[x] # Nothing => ~Cyclic(heap, var[x]) /\ Tree(heap, var[x]) = kept[x]
=============================================================================
