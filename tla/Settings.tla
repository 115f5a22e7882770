------------------------------ MODULE Settings ------------------------------
(***************************************************************************)
(* gather's settings: the tables it loads when it starts, the lines it     *)
(* opens to the devices, and what its threads then do by them.             *)
(*                                                                         *)
(* Nine tables are loaded one after the other; one that cannot be read, or *)
(* for which there is no memory, is only logged and its pointer stays      *)
(* NULL.  modbus.c then opens the line of each serial device and keeps it  *)
(* in ctx, under the number of the device; gather's loops run through the  *)
(* devices with a pointer and through ctx with a number.  Some threads     *)
(* look whether the tables they need are there, and do nothing without     *)
(* them; others do not look, and the process dies.  The watchdog then      *)
(* reboots the terminal.                                                   *)
(***************************************************************************)
EXTENDS Tables

CONSTANTS
  Database,     \* what the tables may hold: a set of functions on TableName
  MAXDEVS,      \* lines that gather can keep
  MaxRefused    \* bound: tables and lines that fail, over all starts

ASSUME SettingsAssumption ==
  /\ MAXDEVS \in Nat /\ MaxRefused \in Nat
  /\ \A d \in Database : \A t \in TableName \ {"siteconf"} :
       Len(d[t]) \in Nat /\ d[t] = [i \in 1 .. Len(d[t]) |-> d[t][i]]

VARIABLES
  stored,       \* the tables as the database holds them
  loaded,       \* as gather has them, or Null
  step,         \* tables loaded, then lines tried; Running; Dead
  ctx,          \* the line of each device, or Null
  read,         \* history: what was read, as <<table, identifier, line>>
  seen,         \* history: tables read to the end since gather started
  refused

settingsVars == <<stored, loaded, step, ctx, read, seen, refused>>

Loads == Len(Order)

Running == Loads + MAXDEVS + 1
Dead    == Running + 1

(***************************************************************************)
(* Both modbus.c and gather.c take the number of devices from the table.   *)
(***************************************************************************)
devicesnum ==
  IF loaded.devices = Null THEN 0
  ELSE IF Len(loaded.devices) <= MAXDEVS THEN Len(loaded.devices)
  ELSE MAXDEVS

SettingsInit ==
  /\ stored \in Database
  /\ loaded = [t \in TableName |-> Null]
  /\ step = 0
  /\ ctx = [i \in 1 .. MAXDEVS |-> Null]
  /\ read = {} /\ seen = {}
  /\ refused = 0

-----------------------------------------------------------------------------
(***************************************************************************)
(* db_table_init.                                                          *)
(***************************************************************************)
LoadNext ==
  /\ step < Loads
  /\ step' = step + 1
  /\ LET t == Order[step + 1]
     IN  \/ loaded' = [loaded EXCEPT ![t] = Load(t, stored[t])]
            /\ UNCHANGED refused
         \/ refused < MaxRefused /\ refused' = refused + 1
            /\ UNCHANGED loaded
  /\ UNCHANGED <<stored, ctx, read, seen>>

(***************************************************************************)
(* The parity is copied as 64 characters into a field of four.  The next   *)
(* record is filled later, but of the last one the copy leaves the array:  *)
(* nothing may come of it, or the process dies.                            *)
(***************************************************************************)
Spill ==
  /\ step < Loads /\ Order[step + 1] = "devices"
  /\ stored.devices # <<>>
  /\ refused < MaxRefused /\ refused' = refused + 1
  /\ step' = Dead
  /\ UNCHANGED <<stored, loaded, ctx, read, seen>>

(***************************************************************************)
(* get_modbus_settings: the serial devices on an RS-485 port.              *)
(***************************************************************************)
Serial(d) == d.devtype = 1 /\ d.comtype = 2

(***************************************************************************)
(* A line is kept under the number of its device, also when lines before   *)
(* it could not be opened.  Devices may share a port, each with a line of  *)
(* its own, on which the device is addressed as slave.                     *)
(***************************************************************************)
Line(d) == [port |-> d.port, slave |-> d.devaddr]

Slot_bug(i) == 1 + Cardinality({j \in 1 .. i - 1 : ctx[j] # Null})

Slot(i) == i

OpenLine ==
  LET i == step - Loads + 1
      d == loaded.devices[i]
  IN  /\ step >= Loads /\ i <= devicesnum
      /\ step' = step + 1
      /\ \/ /\ Serial(d)
            /\ ctx' = [ctx EXCEPT ![Slot(i)] = Line(d)]
            /\ UNCHANGED refused
         \/ /\ Serial(d)
            /\ refused < MaxRefused /\ refused' = refused + 1
            /\ UNCHANGED ctx
         \/ ~Serial(d) /\ UNCHANGED <<ctx, refused>>
      /\ UNCHANGED <<stored, loaded, read, seen>>

StartThreads ==
  /\ step = Loads + devicesnum
  /\ step' = Running
  /\ UNCHANGED <<stored, loaded, ctx, read, seen, refused>>

-----------------------------------------------------------------------------
(***************************************************************************)
(* The threads that read: for each device with a line, the rows of a table *)
(* that name it.                                                           *)
(***************************************************************************)
Present(tables) == \A t \in tables : loaded[t] # Null

NamesDevice(row, d) == row.devname = d.devname /\ row.devaddr = d.devaddr

ReadAll(t, rows, id) ==
  /\ read' = read \cup
       UNION {{<<t, r[id], ctx[i]>> :
                 r \in {r \in rows : NamesDevice(r, loaded.devices[i])}} :
              i \in {i \in 1 .. devicesnum : ctx[i] # Null}}
  /\ seen' = seen \cup {t}
  /\ UNCHANGED <<stored, loaded, step, ctx, refused>>

Rows(t) == {loaded[t][i] : i \in 1 .. Len(loaded[t])}

gather_sitepols ==
  /\ step = Running
  /\ Present({"devices", "sitepols"})
  /\ ReadAll("sitepols", Rows("sitepols"), "polid")

gather_sbparam ==
  /\ step = Running
  /\ Present({"devices", "sbparam", "sitesbs"})
  /\ ReadAll("sbparam",
             {r \in Rows("sbparam") : \E s \in Rows("sitesbs") :
                s.sbtype \in 0 .. 2 /\ s.sbid = r.sbid}, "sbid")

recvalarm_routine ==
  /\ step = Running
  /\ Present({"devices", "polsalarm", "sitepols", "server"})
  /\ ReadAll("polsalarm", Rows("polsalarm"), "polid")

(***************************************************************************)
(* The threads that do not look.  An aggregation walks through sitepols    *)
(* and, for each of its rows, through pols; a command that sets a value    *)
(* walks through sitesbs and, when it finds the name there, ctlparam.      *)
(***************************************************************************)
Aggregate ==
  /\ step = Running
  /\ loaded.sitepols # Null
  /\ loaded.sitepols # <<>> => loaded.pols # Null
  /\ seen' = seen \cup {"pols"}
  /\ UNCHANGED <<stored, loaded, step, ctx, read, refused>>

AggregateDies ==
  /\ step = Running
  /\ \/ loaded.sitepols = Null
     \/ loaded.sitepols # <<>> /\ loaded.pols = Null
  /\ step' = Dead
  /\ UNCHANGED <<stored, loaded, ctx, read, seen, refused>>

SetValue(sb) ==     \* modbus_write_registers refuses a line that is NULL
  /\ step = Running
  /\ loaded.sitesbs # Null
  /\ \E s \in Rows("sitesbs") : s.sbid = sb
  /\ loaded.ctlparam # Null
  /\ read' = read \cup
       {<<"ctlparam", sb, ctx[i]>> : i \in
          {i \in 1 .. devicesnum : /\ ctx[i] # Null
              /\ loaded.devices[i].devtype = 1
              /\ \E r \in Rows("ctlparam") :
                   /\ r.sbid = sb /\ r.paramname = "SP"
                   /\ NamesDevice(r, loaded.devices[i])}}
  /\ UNCHANGED <<stored, loaded, step, ctx, seen, refused>>

SetDies(sb) ==
  /\ step = Running
  /\ IF loaded.sitesbs = Null THEN TRUE
     ELSE (\E s \in Rows("sitesbs") : s.sbid = sb) /\ loaded.ctlparam = Null
  /\ step' = Dead
  /\ UNCHANGED <<stored, loaded, ctx, read, seen, refused>>

Restart ==          \* the watchdog reboots the terminal
  /\ step = Dead
  /\ step' = 0
  /\ loaded' = [t \in TableName |-> Null]
  /\ ctx' = [i \in 1 .. MAXDEVS |-> Null]
  /\ read' = {} /\ seen' = {}
  /\ UNCHANGED <<stored, refused>>

Sbid == UNION {{stored[t][i].sbid : i \in 1 .. Len(stored[t])} :
                 t \in {"sitesbs", "ctlparam"}} \ {Null}

SettingsNext ==
  \/ LoadNext \/ Spill \/ OpenLine \/ StartThreads
  \/ gather_sitepols \/ gather_sbparam \/ recvalarm_routine
  \/ Aggregate \/ AggregateDies
  \/ \E sb \in Sbid : SetValue(sb) \/ SetDies(sb)
  \/ Restart

SettingsSpec == SettingsInit /\ [][SettingsNext]_settingsVars

-----------------------------------------------------------------------------
(***************************************************************************)
(* A cell as the program has it, and a record as it has to be.             *)
(***************************************************************************)
AsText(cell)   == IF cell = Null THEN "NULL" ELSE cell
AsNumber(cell) == IF cell \in {Null, Garbled} THEN 0 ELSE cell

Read(c, cell) == IF c.number THEN AsNumber(cell) ELSE AsText(cell)

Agrees(t, record, row) ==
  \A k \in DOMAIN Columns[t] :
    record[Columns[t][k].name]
      = Read(Columns[t][k], row[Columns[t][k].name])

(***************************************************************************)
(* Each table is in the program as it is in the database, whatever the     *)
(* number of its columns and the cells that are empty or no numbers: the   *)
(* record of a row has under each name what the row has.                   *)
(***************************************************************************)
LoadedAsStored ==
  \A t \in {u \in TableName : loaded[u] # Null} :
    IF t = "siteconf" THEN Agrees(t, loaded[t], stored[t])
    ELSE LET rows == Selected(t, stored[t])
         IN  /\ Len(loaded[t]) = Len(rows)
             /\ \A i \in DOMAIN rows : Agrees(t, loaded[t][i], rows[i])

(***************************************************************************)
(* What is to be read: the rows that concern a device, over a line on its  *)
(* port, on which it is addressed by its own address.                      *)
(***************************************************************************)
StoredRows(t) == {stored[t][i] : i \in DOMAIN stored[t]}

Concerns(r, d) ==
  /\ AsText(r.devname) = AsText(d.devname)
  /\ AsNumber(r.devaddr) = AsNumber(d.devaddr)

ToBeRead(t, r) ==
  /\ t = "ctlparam" => AsText(r.paramname) = "SP"
  /\ t = "sbparam" => \E s \in StoredRows("sitesbs") :
       AsNumber(s.sbtype) \in 0 .. 2 /\ AsText(s.sbid) = AsText(r.sbid)

Id(t) == IF t \in {"sitepols", "polsalarm"} THEN "polid" ELSE "sbid"

Readings(t, d) ==
  {<<t, AsText(r[Id(t)]),
     [port |-> AsNumber(d.port), slave |-> AsNumber(d.devaddr)]>> :
     r \in {r \in StoredRows(t) : ToBeRead(t, r) /\ Concerns(r, d)}}

OnRs485(d) == AsNumber(d.devtype) = 1 /\ AsNumber(d.comtype) = 2

(***************************************************************************)
(* What a row names is read over the line of a device that the row names,  *)
(* and over no other; and once a thread has been through its table, no row *)
(* was left out but for a line that is not open -- although the devices,   *)
(* their lines and the rows are in arrays of their own, devices without a  *)
(* line lie between, and several may share a port.                         *)
(***************************************************************************)
ReadAsStored ==
  /\ \A x \in read : \E d \in StoredRows("devices") :
       OnRs485(d) /\ x \in Readings(x[1], d)
  /\ \A t \in seen \ {"pols"} :
       \A i \in DOMAIN stored.devices \cap (1 .. MAXDEVS) :
         ctx[i] # Null => Readings(t, stored.devices[i]) \subseteq read
=============================================================================
