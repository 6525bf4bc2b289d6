-------------------------------- MODULE Intern --------------------------------
(***************************************************************************)
(* pfi::data::intern (intern.h): numbers for keys, in two tables, tbl from *)
(* keys to ids and lbt from ids to keys; several such objects, which can   *)
(* be swapped, and one written to an archive and another read from it.     *)
(***************************************************************************)
EXTENDS Integers, Sequences, FiniteSets

CONSTANTS Keys, Objects

VARIABLES
  tbl, lbt,  \* of each object
  given      \* history: the ids an object's users hold: key2id's answers since it was filled

vars == <<tbl, lbt, given>>

None == <<>>
With(f, k, v) == [x \in DOMAIN f \cup {k} |-> IF x = k THEN v ELSE f[x]]

Init == tbl = [o \in Objects |-> None] /\ lbt = [o \in Objects |-> <<>>] /\ given = [o \in Objects |-> None]

\* key2id() of a key that is there, and key2id_nogen()
Known(o, k) ==
  /\ k \in DOMAIN tbl[o]
  /\ given' = [given EXCEPT ![o] = With(@, k, tbl[o][k])]
  /\ UNCHANGED <<tbl, lbt>>

\* key2id() of a new key; with gen = false it would answer -1 and change nothing.
Generate(o, k) ==
  LET id == Cardinality(DOMAIN tbl[o]) IN
  /\ k \notin DOMAIN tbl[o]
  /\ tbl' = [tbl EXCEPT ![o] = With(@, k, id)]
  /\ lbt' = [lbt EXCEPT ![o] = Append(@, k)]
  /\ given' = [given EXCEPT ![o] = With(@, k, id)]

\* Fault: the numbers start again while the names stay.
ClearedNames_Kept(o) == lbt

ClearedNames(o) == [lbt EXCEPT ![o] = <<>>]

Clear(o) ==
  /\ tbl' = [tbl EXCEPT ![o] = None] /\ lbt' = ClearedNames(o)
  /\ given' = [given EXCEPT ![o] = None]

Swapped(f, o, p) == [f EXCEPT ![o] = f[p], ![p] = f[o]]

Swap(o, p) ==
  tbl' = Swapped(tbl, o, p) /\ lbt' = Swapped(lbt, o, p) /\ given' = Swapped(given, o, p)

\* serialize(): p is filled with what o has written; ids are the same in both then.
Restore(o, p) ==
  /\ tbl' = [tbl EXCEPT ![p] = tbl[o]]
  /\ lbt' = [lbt EXCEPT ![p] = [i \in 1..Cardinality(DOMAIN tbl[o]) |->
                                  CHOOSE k \in DOMAIN tbl[o] : tbl[o][k] = i - 1]]
  /\ given' = [given EXCEPT ![p] = given[o]]

Next == \E o \in Objects : \/ Clear(o)
                           \/ \E k \in Keys : Known(o, k) \/ Generate(o, k)
                           \/ \E p \in Objects : Swap(o, p) \/ Restore(o, p)

Spec == Init /\ [][Next]_vars

-----------------------------------------------------------------------------
\* Ids are 0 to size() - 1, id2key() undoes key2id(), and every id handed out still names
\* its key, through new keys, clear(), swap() and a way through an archive.
IdsExact ==
  \A o \in Objects :
    /\ {tbl[o][k] : k \in DOMAIN tbl[o]} = 0..(Len(lbt[o]) - 1)
    /\ \A k \in DOMAIN tbl[o] : lbt[o][tbl[o][k] + 1] = k
    /\ \A k \in DOMAIN given[o] : lbt[o][given[o][k] + 1] = k
=============================================================================
