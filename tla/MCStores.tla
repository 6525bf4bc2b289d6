------------------------------ MODULE MCStores ------------------------------
(* TLC's instance of the components one thread uses and that keep state: a   *)
(* run is of one of them, the others keep their initial state; and of the    *)
(* values of a database and the number types, where a state is an input for  *)
(* their functions, which a step makes one item longer.                      *)
EXTENDS Integers, Sequences

CONSTANTS
  BufSize, MaxSize, MaxSent, MaxPeer, MaxConns,  \* StreamSocket
  Vars, Names, MaxCells, MaxArray,                  \* JsonHeap
  LruKeys, LruValues, Fresh, LruSize, MaxUses,      \* Lru
  InternKeys, Objects,                              \* Intern
  TreeSize, MaxIncreases,                           \* Fenwick
  MaxCalls, MaxLosses, MaxRefusals,                 \* Mysql, Postgresql
  Int32Max, RowBuf, MaxNumber, MaxText,             \* SqlValues, and bounds of its inputs
  MaxTerm, MaxComponent,                            \* bounds of the inputs of MathTypes
  AQuote, AComma, ACr, ALf, AChar,                  \* Csv; AChar is any other character
  FieldEnd, RowEnd                                  \* where a field and a row of a table end

VARIABLES
  part,  \* the component of this run
  sock, connected, rdbuf, wrbuf, conns, wire, peer, made, sent, got, last,
  heap, var, kept,
  cur, cache, access_time,
  tbl, lbt, given,
  v, plain, count,
  conn, server, call, held, block, calls, losses, refusals,
  pconn, pserver, pcall, pheld, pblock, pcalls, plosses, prefusals,
  input  \* of a function, a sequence of items

S == INSTANCE StreamSocket
J == INSTANCE JsonHeap WITH Cells <- 1..MaxCells
L == INSTANCE Lru WITH Keys <- LruKeys, Values <- LruValues, MaxSize <- LruSize, MaxCur <- MaxUses
I == INSTANCE Intern WITH Keys <- InternKeys
F == INSTANCE Fenwick WITH Size <- TreeSize, Amounts <- {1, -2}
M == INSTANCE Mysql
P == INSTANCE Postgresql WITH
  conn <- pconn, server <- pserver, call <- pcall, held <- pheld, block <- pblock,
  calls <- pcalls, losses <- plosses, refusals <- prefusals
Q == INSTANCE SqlValues WITH BufSize <- RowBuf
V == INSTANCE MathTypes
C == INSTANCE Csv WITH Quote <- AQuote, Comma <- AComma, Cr <- ACr, Lf <- ALf

Characters == {AQuote, AComma, ACr, ALf, AChar}

MCStoresAssumption ==
  /\ S!StreamSocketAssumption /\ J!JsonHeapAssumption /\ L!LruAssumption /\ F!FenwickAssumption
  /\ M!MysqlAssumption /\ P!PostgresqlAssumption /\ Q!SqlValuesAssumption
  /\ C!CsvAssumption /\ {FieldEnd, RowEnd} \cap Characters = {} /\ FieldEnd # RowEnd
  /\ MaxNumber \in Nat /\ MaxText \in Nat /\ MaxTerm \in Nat /\ MaxComponent \in Nat

ASSUME MCStoresAssumption

-----------------------------------------------------------------------------
(* The items of the inputs. *)

Numbers == -MaxNumber..MaxNumber
Texts == {[i \in 1..n |-> i] : n \in 0..MaxText}
SqlItems ==
  {Q!Null} \cup {Q!Value("bool", b) : b \in BOOLEAN} \cup {Q!Value("string", s) : s \in Texts}
  \cup {Q!Value("int32", n) : n \in {n \in Numbers : Q!FitsInt32(n)}}
  \cup {Q!Value("int64", n) : n \in Numbers} \cup {Q!Value("float", n) : n \in Numbers}
  \cup {Q!Value("timestamp", [seconds |-> 1, fraction |-> f]) : f \in 0..99}
SqlColumns == {Q!Value("string", s) : s \in Texts} \cup {Q!Null, Q!Value("bool", TRUE)}

\* The rows of a table, from the last RowEnd back to the first character.
TableOf(s) ==
  LET from[i \in 1..(Len(s) + 1)] ==
        IF i > Len(s) THEN <<>>
        ELSE IF s[i] = RowEnd THEN << <<<<>>>> >> \o from[i + 1]
        ELSE IF from[i + 1] = <<>> THEN <<>>
        ELSE << IF s[i] = FieldEnd THEN <<<<>>>> \o from[i + 1][1]
                ELSE <<<<s[i]>> \o from[i + 1][1][1]>> \o Tail(from[i + 1][1]) >> \o Tail(from[i + 1])
  IN from[1]

\* Its text as it would be without any quotes.
TextOf(s) == [i \in DOMAIN s |-> CASE s[i] = FieldEnd -> AComma [] s[i] = RowEnd -> ALf [] OTHER -> s[i]]

\* Of each function, and how many an input has at most: the components of two vectors, the
\* numerators and denominators of two fractions, a value, a row, a table.  Beyond the items
\* that are free the last one is repeated.
Components == -MaxComponent..MaxComponent
Inputs ==
  [vector |-> [items |-> Components \X Components, free |-> 2, max |-> 10],
   ratio  |-> [items |-> -MaxTerm..MaxTerm, free |-> 4, max |-> 4],
   sql    |-> [items |-> SqlItems, free |-> 1, max |-> 1],
   row    |-> [items |-> SqlColumns, free |-> 3, max |-> 10],
   table  |-> [items |-> Characters \cup {FieldEnd, RowEnd}, free |-> 5, max |-> 5]]

Longer ==
  /\ Len(input) < Inputs[part].max
  /\ \E c \in Inputs[part].items :
       /\ Len(input) >= Inputs[part].free => c = input[Len(input)]
       /\ input' = Append(input, c)

-----------------------------------------------------------------------------

socketVars == <<sock, connected, rdbuf, wrbuf, conns, wire, peer, made, sent, got, last>>
jsonVars == <<heap, var, kept>>
lruVars == <<cur, cache, access_time>>
internVars == <<tbl, lbt, given>>
treeVars == <<v, plain, count>>
mysqlVars == <<conn, server, call, held, block, calls, losses, refusals>>
postgresqlVars == <<pconn, pserver, pcall, pheld, pblock, pcalls, plosses, prefusals>>

vars == <<part, socketVars, jsonVars, lruVars, internVars, treeVars, mysqlVars, postgresqlVars, input>>

Init ==
  /\ part \in {"socket", "json", "lru", "intern", "tree", "mysql", "postgresql"} \cup DOMAIN Inputs
  /\ S!Init /\ J!Init /\ L!Init /\ I!Init /\ F!Init /\ M!Init /\ P!Init /\ input = <<>>

Next ==
  \/ /\ part = "socket" /\ S!Next
     /\ UNCHANGED <<part, jsonVars, lruVars, internVars, treeVars, mysqlVars, postgresqlVars, input>>
  \/ /\ part = "json" /\ J!Next
     /\ UNCHANGED <<part, socketVars, lruVars, internVars, treeVars, mysqlVars, postgresqlVars, input>>
  \/ /\ part = "lru" /\ L!Next
     /\ UNCHANGED <<part, socketVars, jsonVars, internVars, treeVars, mysqlVars, postgresqlVars, input>>
  \/ /\ part = "intern" /\ I!Next
     /\ UNCHANGED <<part, socketVars, jsonVars, lruVars, treeVars, mysqlVars, postgresqlVars, input>>
  \/ /\ part = "tree" /\ F!Next
     /\ UNCHANGED <<part, socketVars, jsonVars, lruVars, internVars, mysqlVars, postgresqlVars, input>>
  \/ /\ part = "mysql" /\ M!Next
     /\ UNCHANGED <<part, socketVars, jsonVars, lruVars, internVars, treeVars, postgresqlVars, input>>
  \/ /\ part = "postgresql" /\ P!Next
     /\ UNCHANGED <<part, socketVars, jsonVars, lruVars, internVars, treeVars, mysqlVars, input>>
  \/ /\ part \in DOMAIN Inputs /\ Longer
     /\ UNCHANGED <<part, socketVars, jsonVars, lruVars, internVars, treeVars, mysqlVars, postgresqlVars>>

Spec == Init /\ [][Next]_vars

----------------------------------------------------------------------------

\* Over any calls, failures and new connections of a stream_socket no byte is
\* sent or read twice or out of order, and what write() returns is exactly what
\* was taken of its bytes (network/socket.cpp).
StreamsExact == S!BytesInOrder /\ S!WriteReportExact

\* What clone() of a json gives is apart from everything else (text/json/base.h).
ClonesApart == J!ClonesApart

\* An lru is a list in the order of the last use (data/lru.h).
ImplementsRecencyList == L!ImplementsRecencyList

\* The two tables of an intern are each other's inverse and every id handed
\* out still names its key, through clear(), swap() and a way through an
\* archive (data/intern.h).
IdsExact == I!IdsExact

\* After any increases every range of a fenwick_tree has the sum of its
\* numbers (data/fenwick_tree.h).
SumsExact == F!SumsExact

\* No statement has its effect at a MySQL server twice (database/mysql).
RunsOnce == M!RunsOnce

\* A transaction block keeps all its statements or none: with MySQL if its session
\* lasted and neither its BEGIN nor its ROLLBACK was refused, with PostgreSQL if no call
\* in it threw (database/util.h).
AtomicUnlessBroken == M!AtomicUnlessBroken /\ P!QuietBlockAtomic

\* The laws of the vectors, of the outer products of the two classes that have one, and of
\* the fractions (math/vector.h, math/ratio.h).
MathExact ==
  /\ part = "vector" /\ Len(input) >= 2 =>
       V!ClassLaws(Len(input), [i \in DOMAIN input |-> input[i][1]], [i \in DOMAIN input |-> input[i][2]])
  /\ part = "ratio" /\ Len(input) = 4 /\ input[2] # 0 /\ input[4] # 0 =>
       V!RatioExact(input[1], input[2], input[3], input[4])

\* A variable gets from a database what the server kept of the value, as far as its kind can
\* take it, and rows of text arrive whole (database/value.cpp of both servers,
\* database/statement.h).
SqlReadBack ==
  /\ part = "sql" => \A i \in DOMAIN input : Q!SqlReadBack(input[i])
  /\ part = "row" =>
       LET texts == [i \in DOMAIN input |-> IF input[i].kind = "string" THEN input[i].value ELSE <<>>]
       IN Q!RowsReadBack(texts, input)

\* A table that was written is read as it was, and the copies of an iterator keep their rows
\* (text/csv.h).
CsvExact == part = "table" => C!RowsKept(TableOf(input)) /\ C!CopiesKeepRows(TextOf(input))
=============================================================================
