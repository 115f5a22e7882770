------------------------------- MODULE Tables -------------------------------
(***************************************************************************)
(* The settings tables and how a program loads one (src/table).            *)
(*                                                                         *)
(* sqlite3_get_table answers a query with one flat array: a row of column  *)
(* names, then the rows one after the other, the identifier of each row    *)
(* first.  A loader allocates an array of records and copies the cells it  *)
(* finds by their position: texts as they are, numbers with sscanf.  The   *)
(* order of the columns is known only to the loader: each table is given   *)
(* here as the sequence of columns in the order in which its loader counts *)
(* them.                                                                   *)
(***************************************************************************)
EXTENDS Naturals, Sequences, FiniteSets

CONSTANTS
  Null,     \* an empty cell; also a table or a line that is not there
  Garbled   \* the cell of a number that holds something else

Text(n)   == [name |-> n, number |-> FALSE]
Number(n) == [name |-> n, number |-> TRUE]

Names(columns) == {columns[k].name : k \in 1 .. Len(columns)}

-----------------------------------------------------------------------------
server == <<Text("hostname"), Text("ip"), Number("port"), Number("enable")>>

devices ==
  <<Text("devname"), Number("devtype"), Number("devaddr"), Number("comtype"),
    Number("port"), Number("baud"), Number("databits"), Number("stopbits"),
    Text("parit")>>

sitesbs ==
  <<Text("sbid"), Text("sbname"), Number("sbtype"), Text("description")>>

pols ==
  <<Text("polid"), Text("polname"), Number("upvalue"), Number("lowvalue"),
    Text("unit"), Number("isstat"), Number("poltype")>>

sitepols ==
  <<Text("polid"), Text("polname"), Text("devname"), Number("devaddr"),
    Text("funcode"), Number("datatype"), Number("regaddr"), Number("reglen"),
    Number("databit"), Number("polvalue"), Number("upvalue"),
    Number("lowvalue"), Number("K"), Number("B"), Number("alarmtype"),
    Number("flag")>>

sbparam ==
  <<Text("sbid"), Text("paramname"), Text("devname"), Number("devaddr"),
    Text("funcode"), Number("datatype"), Number("regaddr"), Number("reglen"),
    Number("databit"), Number("polvalue"), Number("upvalue"),
    Number("lowvalue"), Number("K"), Number("B"), Number("alarmtype")>>

polsalarm ==
  <<Text("polid"), Text("devname"), Number("devaddr"), Text("funcode"),
    Number("datatype"), Number("regaddr"), Number("reglen"),
    Number("databit"), Number("alarmtype"), Number("flag")>>

ctlparam ==
  <<Text("sbid"), Text("paramname"), Text("devname"), Number("devaddr"),
    Text("funcode"), Number("datatype"), Number("regaddr"), Number("reglen"),
    Number("databit")>>

(***************************************************************************)
(* siteconfig is turned: each of its rows is the name of a setting and its *)
(* value.                                                                  *)
(***************************************************************************)
siteconf ==
  <<Text("mn"), Text("pw"), Number("sitetype"), Number("sampleinterval"),
    Number("overtime"), Number("recount"), Number("dinums"),
    Number("ainums"), Number("comnums"), Text("apn"), Text("dialnumber"),
    Text("dialuser"), Text("dialpassword"), Number("rtdinterval"),
    Number("rsinterval")>>

(***************************************************************************)
(* The tables in the order in which gather loads them.                     *)
(***************************************************************************)
Order == <<"siteconf", "server", "devices", "sitesbs", "pols", "sitepols",
           "sbparam", "polsalarm", "ctlparam">>

Columns ==
  [siteconf |-> siteconf, server |-> server, devices |-> devices,
   sitesbs |-> sitesbs, pols |-> pols, sitepols |-> sitepols,
   sbparam |-> sbparam, polsalarm |-> polsalarm, ctlparam |-> ctlparam]

TableName == DOMAIN Columns

-----------------------------------------------------------------------------
(***************************************************************************)
(* The database: its answer to `select * from ...', with the condition     *)
(* that two of the queries have.                                           *)
(***************************************************************************)
Condition(t, r) == IF t = "server" THEN r.enable = 1 ELSE r.isstat = 1

Nth(S, n) == CHOOSE i \in S : Cardinality({j \in S : j <= i}) = n

Selected(t, rows) ==
  IF t \in {"server", "pols"}
    THEN LET chosen == {i \in DOMAIN rows : Condition(t, rows[i])}
         IN  [n \in 1 .. Cardinality(chosen) |-> rows[Nth(chosen, n)]]
    ELSE rows

GetTable(columns, rows) ==
  LET col  == Len(columns) + 1
      Cell(i, k) == IF k = 0 THEN i
                    ELSE IF i = 0 THEN columns[k].name
                    ELSE rows[i][columns[k].name]
  IN  [n \in 0 .. (Len(rows) + 1) * col - 1 |-> Cell(n \div col, n % col)]

GetConf(conf) ==
  [n \in 0 .. (Len(siteconf) + 1) * 3 - 1 |->
     LET i == n \div 3
     IN  IF n % 3 = 0 THEN i
         ELSE IF i = 0 THEN "heading"
         ELSE IF n % 3 = 1 THEN siteconf[i].name
         ELSE conf[siteconf[i].name]]

-----------------------------------------------------------------------------
(***************************************************************************)
(* The loaders.  A NULL text becomes "NULL"; a number that cannot be read  *)
(* keeps the zero of memset.                                               *)
(***************************************************************************)
Scan(column, cell) ==
  IF column.number
    THEN IF cell \in {Null, Garbled} THEN 0 ELSE cell
    ELSE IF cell = Null THEN "NULL" ELSE cell

At_bug(col, i, k) == i * col + k        \* the heading is taken for a row

At(col, i, k) == col + i * col + k

get_settings(columns, result, row) ==
  LET col == Len(columns) + 1
  IN  [i \in 1 .. row |->
         [f \in Names(columns) |->
            LET k == CHOOSE k \in 1 .. Len(columns) : columns[k].name = f
            IN  Scan(columns[k], result[At(col, i - 1, k)])]]

get_siteconf_settings(result) ==
  [f \in Names(siteconf) |->
     LET r == CHOOSE r \in 1 .. Len(siteconf) : siteconf[r].name = f
     IN  Scan(siteconf[r], result[At(3, r - 1, 2)])]

Load(t, rows) ==
  IF t = "siteconf"
    THEN get_siteconf_settings(GetConf(rows))
    ELSE LET chosen == Selected(t, rows)
         IN  get_settings(Columns[t], GetTable(Columns[t], chosen),
                          Len(chosen))
=============================================================================
