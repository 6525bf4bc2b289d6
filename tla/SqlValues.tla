----------------------------- MODULE SqlValues -----------------------------
(***************************************************************************)
(* The values of pfi::database: to_sql/from_sql (type.h), the typed execute *)
(* and fetch_row (statement.h, connection.h), and the two ways of a value   *)
(* to a server and back: MYSQL_BIND buffers (mysql/value.cpp, statement.cpp)*)
(* and text with column types (postgresql/value.cpp, result.cpp).           *)
(*                                                                          *)
(* A value is [kind, value].  A float counts units of 10^-11, a timestamp   *)
(* is its seconds and hundredths, a text is a sequence of characters.  What *)
(* a server stores and sends is external.                                   *)
(***************************************************************************)
EXTENDS Integers, Sequences, SequencesExt

CONSTANTS Int32Max,  \* numeric_limits<int32_t>::max()
          BufSize    \* INIT_BUF_SIZE of mysql_statement::fetch_row

SqlValuesAssumption == Int32Max \in Nat \ {0} /\ BufSize \in Nat \ {0}

Value(kind, value) == [kind |-> kind, value |-> value]
Null == Value("null", <<>>)
Throw == Value("throw", <<>>)
Undefined == Value("undefined", <<>>)

----------------------------------------------------------------------------
(* from_sql<T> *)

FitsInt32(n) == n \in (-Int32Max - 1) .. Int32Max

\* Fault: an int64 is cast to int32 whatever its value.
Narrowed_Always(n) ==
  Value("int32", ((n + Int32Max + 1) % (2 * (Int32Max + 1))) - Int32Max - 1)

Narrowed(n) == IF FitsInt32(n) THEN Value("int32", n) ELSE Throw

\* What a variable of a kind takes from a value; whatever is not a string,
\* a null among them, is the empty text for a string.  Where the value itself was not
\* to be had, the conversion is not reached.
FromSql(kind, v) ==
  CASE v \in {Throw, Undefined} \/ v.kind = kind -> v
    [] v \notin {Throw, Undefined} /\ kind = "string" /\ v.kind # kind -> Value("string", <<>>)
    [] kind = "int32" /\ v.kind = "int64" -> Narrowed(v.value)
    [] kind = "int64" /\ v.kind = "int32" -> Value("int64", v.value)
    [] OTHER -> Throw

----------------------------------------------------------------------------
(* MySQL: to_bind, and from_bind of a column of a type.                     *)

\* The buffer type and contents of an argument; a null sets neither a type nor
\* the flag, and is sent as an empty value.
ToBind(v) ==
  CASE v.kind = "bool" -> [type |-> "LONG", value |-> IF v.value THEN 1 ELSE 0]
    [] v.kind = "int32" -> [type |-> "LONG", value |-> v.value]
    [] v.kind = "int64" -> [type |-> "LONGLONG", value |-> v.value]
    [] v.kind = "float" -> [type |-> "DOUBLE", value |-> v.value]
    [] v.kind = "timestamp" -> [type |-> "TIMESTAMP", value |-> v.value]
    [] v.kind = "string" -> [type |-> "STRING", value |-> v.value]
    [] v.kind = "null" -> [type |-> "DECIMAL", value |-> <<>>]

\* The column types that give an argument back as it was sent (external).
ColumnsFor(type) ==
  CASE type = "LONG" -> {"LONG", "LONGLONG"}
    [] type = "LONGLONG" -> {"LONGLONG"}
    [] type = "DOUBLE" -> {"DOUBLE"}
    [] type = "TIMESTAMP" -> {"DATETIME", "TIMESTAMP"}
    [] type = "STRING" -> {"STRING", "BLOB", "VAR_STRING"}
    [] type = "DECIMAL" -> {}

FromBind(column, value) ==
  CASE column \in {"TINY", "SHORT", "LONG"} -> Value("int32", value)
    [] column = "LONGLONG" -> Value("int64", value)
    [] column \in {"FLOAT", "DOUBLE"} -> Value("float", value)
    [] column \in {"TIME", "DATE", "DATETIME", "TIMESTAMP"} -> Value("timestamp", value)
    [] column \in {"STRING", "BLOB"} -> Value("string", value)
    [] column = "NULL" -> Null
    [] OTHER -> Throw

MysqlReads(v, kind) ==
  {FromSql(kind, FromBind(column, ToBind(v).value)) : column \in ColumnsFor(ToBind(v).type)}

\* fetch_row of a text column: the buffer is enlarged for a longer text and
\* stays so for the rows after it.
Enlarged(size, text) == IF size < Len(text) THEN Len(text) + 1 ELSE size

Fetched(size, text) == SubSeq(text, 1, IF size < Len(text) THEN size ELSE Len(text))

TextsFetched(texts) ==
  FoldLeft(LAMBDA acc, text :
             LET size == Enlarged(acc.size, text)
             IN  [size |-> size, read |-> Append(acc.read, Fetched(size, text))],
           [size |-> BufSize, read |-> <<>>], texts).read

----------------------------------------------------------------------------
(* PostgreSQL: sql_to_str, and str_to_sql of a column of a type.             *)

\* Floats are printed with ten digits after the point.
Printed(v) ==
  IF v.kind = "float" THEN Value("float", 10 * ((v.value + 5) \div 10)) ELSE v

Oids(kind) ==
  CASE kind = "bool" -> {"BOOL"}
    [] kind = "int32" -> {"INT4", "INT8"}
    [] kind = "int64" -> {"INT8"}
    [] kind = "float" -> {"FLOAT8"}
    [] kind = "timestamp" -> {"TIMESTAMP"}
    [] kind = "string" -> {"TEXT", "VARCHAR", "BPCHAR"}
    [] kind = "null" -> {"BOOL", "INT4", "FLOAT8", "TEXT"}

\* The two digits of a fraction stand for the six of the code; the server
\* prints them without trailing zeros, and no point when none is left (external).
Trimmed(fraction) ==
  CASE fraction = 0 -> <<>>
    [] fraction # 0 /\ fraction % 10 = 0 -> <<fraction \div 10>>
    [] OTHER -> <<fraction \div 10, fraction % 10>>

\* strptime() gives NULL where it meets no point; the digits after it are read
\* as a number of microseconds, however many they are.
Microseconds(digits) == FoldLeft(LAMBDA n, d : (10 * n) + d, 0, digits)

ReadTimestamp(t) ==
  IF Trimmed(t.fraction) = <<>> THEN Undefined
  ELSE Value("timestamp", [t EXCEPT !.fraction = Microseconds(Trimmed(@))])

StrToSql(oid, v) ==
  IF v = Null THEN Null
  ELSE CASE oid = "BOOL" -> Value("bool", v.value)
         [] oid \in {"INT2", "INT4"} -> Value("int32", v.value)
         [] oid = "INT8" -> Value("int64", v.value)
         [] oid \in {"FLOAT4", "FLOAT8"} -> Value("float", v.value)
         [] oid \in {"TEXT", "VARCHAR"} -> Value("string", v.value)
         [] oid = "TIMESTAMP" -> ReadTimestamp(v.value)
         [] OTHER -> Value("unknown", v.value)

PostgresqlReads(v, kind) ==
  {FromSql(kind, StrToSql(oid, Printed(v))) : oid \in Oids(v.kind)}

----------------------------------------------------------------------------
(* The typed overloads of run(), execute() and fetch_row().                  *)

\* execute(a1, ..., an) for a statement; ten arguments are written to a vector of nine.
SentArgs(args) == IF Len(args) = 10 THEN <<Undefined>> ELSE args

\* The columns a row must have for a number of variables: eight, nine and ten
\* ask for one less than they read.
RowWidth(n) == IF n <= 7 THEN n ELSE n - 1

FetchRow(row, kinds) ==
  IF Len(row) # RowWidth(Len(kinds)) THEN Throw
  ELSE IF Len(row) < Len(kinds) THEN Undefined
  ELSE [i \in DOMAIN kinds |-> FromSql(kinds[i], row[i])]

----------------------------------------------------------------------------

Kinds == {"bool", "string", "int32", "int64", "float", "timestamp"}

\* What a variable of a kind gets of a value that a server kept: the value, if the
\* kind holds it, and an exception if not; but the empty text if the variable is a
\* string and the value is none.
Taken(kind, kept) ==
  CASE kept = Undefined -> Undefined
    [] kept # Undefined /\ kind = "string" -> IF kept.kind = kind THEN kept ELSE Value("string", <<>>)
    [] kind \in {"int32", "int64"} /\ kept.kind \in {"int32", "int64"} ->
         IF kind = "int64" \/ FitsInt32(kept.value) THEN Value(kind, kept.value) ELSE Throw
    [] OTHER -> IF kept.kind = kind THEN kept ELSE Throw

\* MySQL keeps a bool as 0 or 1.
KeptByMysql(v) == IF v.kind = "bool" THEN Value("int32", IF v.value THEN 1 ELSE 0) ELSE v

\* PostgreSQL gives back ten digits of a float; of the fraction of a timestamp it gives
\* the digits without the zeros at the end, which are read as microseconds, and nobody
\* knows what is read when no digit is left.
KeptByPostgresql(v) ==
  CASE v.kind = "float" -> Value("float", v.value + 5 - ((v.value + 5) % 10))
    [] v.kind = "timestamp" ->
         IF v.value.fraction = 0 THEN Undefined
         ELSE IF v.value.fraction % 10 = 0
              THEN Value("timestamp", [v.value EXCEPT !.fraction = @ \div 10])
         ELSE v
    [] OTHER -> v

\* Whatever column a value is kept in, a variable of any kind gets what it can take of
\* what the server kept, and a variable of the value's kind does get that from some
\* column; a text in a VAR_STRING column of MySQL throws, and one in a BPCHAR
\* column of PostgreSQL reads as the empty text (value.cpp of both, type.h).
SqlReadBack(v) ==
  LET mysql == KeptByMysql(v)
      postgresql == KeptByPostgresql(v)
  IN  /\ \A kind \in Kinds :
           /\ MysqlReads(v, kind) \subseteq
                {Taken(kind, mysql)} \union (IF v.kind = "string" THEN {Throw} ELSE {})
           /\ PostgresqlReads(v, kind) \subseteq
                {Taken(kind, postgresql)} \union (IF v.kind = "string" /\ kind = "string"
                                                 THEN {Value("string", <<>>)} ELSE {})
      /\ v # Null => /\ mysql \in MysqlReads(v, mysql.kind)
                     /\ postgresql \in PostgresqlReads(v, v.kind)

\* Rows of text arrive whole whatever the lengths of the rows before; a row
\* fetched into as many variables as it has columns gives each its column or
\* throws, and up to seven values sent together come back together
\* (mysql/statement.cpp, and statement.h, execute and fetch_row).
RowsReadBack(texts, row) ==
  LET kinds == [i \in DOMAIN row |-> row[i].kind] IN
  /\ TextsFetched(texts) = texts
  /\ FetchRow(row, kinds) \in {row, Throw}
  /\ Len(row) <= 7 => FetchRow(SentArgs(row), kinds) = row
============================================================================
