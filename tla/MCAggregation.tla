--------------------------- MODULE MCAggregation ---------------------------
(***************************************************************************)
(* gather's settings and what it does with them, for TLC: the tables, the  *)
(* lines and the threads that read over them (Settings), and the           *)
(* aggregation of one quantity at the ends of two days, as the present     *)
(* release does it (Aggregation) and as those in the field do              *)
(* (FieldAggregation), each interval twice the one below, instead of       *)
(* thirty, twelve and twenty-four times, and a zone of an hour's interval. *)
(* Settings and aggregation have no variable in common: each is explored   *)
(* by itself, while the other rests in an initial state.                   *)
(***************************************************************************)
EXTENDS FieldAggregation, Settings, TLC

MCInterval == 0 :> 4 @@ 1 :> 8 @@ 2 :> 16 @@ 3 :> 32
MCSleep    == 1 :> 2 @@ 2 :> 4 @@ 3 :> 6
MCUnit     == 1 :> 4 @@ 2 :> 16 @@ 3 :> 32
MCKeep ==
  "present" :> (0 :> 16 @@ 1 :> 32) @@ "v4.3" :> (0 :> 8 @@ 1 :> 24)
    @@ "v3.7" :> (0 :> 8 @@ 1 :> 16)
MCZone     == "present" :> 0 @@ "v4.3" :> 0 @@ "v3.7" :> 16
MCEarly    == {"v3.7"}

-----------------------------------------------------------------------------
(***************************************************************************)
(* The database: devices in five arrangements (none, two serial ones of    *)
(* different or of the same name on one port, a device without a line      *)
(* before two serial ones, three for two lines), and                       *)
(* tables with empty cells, cells that are no numbers, rows that name no   *)
(* device, and none at all.                                                *)
(***************************************************************************)
Plain(t) ==
  [f \in Names(Columns[t]) |->
     LET k == CHOOSE k \in 1 .. Len(Columns[t]) : Columns[t][k].name = f
     IN  IF Columns[t][k].number THEN 10 + k ELSE f]

Row(t, values) == values @@ Plain(t)

Device(n, a, type, port) ==
  Row("devices", [devname |-> n, devaddr |-> a, devtype |-> type,
                  comtype |-> 2, port |-> port])
Pol(p, n, a) ==
  Row("sitepols", [polid |-> p, devname |-> n, devaddr |-> a, K |-> Garbled])

MCDevices ==
  {<<>>,
   <<Device("A", 1, 1, 5), Device("B", 1, 1, 5)>>,
   <<Device("A", 1, 1, 5), Device("A", 2, 1, 5)>>,
   <<Device("A", 1, 2, 5), Device("A", 2, 1, 6), Device("B", 1, 1, 7)>>,
   <<Device("B", 1, 1, 5), Device("A", 2, 1, 6), Device("A", 1, 1, 7)>>}

EmptyDatabase ==
  [t \in TableName |-> IF t = "siteconf" THEN Plain(t) ELSE <<>>]

MCDatabase ==
  {EmptyDatabase} \cup
  {[siteconf |-> [Plain("siteconf") EXCEPT !.overtime = Null, !.pw = Null],
    server |-> <<Row("server", [enable |-> 0]), Row("server", [enable |-> 1])>>,
    devices |-> d,
    sitesbs |-> <<Row("sitesbs", [sbid |-> "sb1", sbtype |-> 1]),
                  Row("sitesbs", [sbid |-> "sb2", sbtype |-> Null])>>,
    pols |-> <<Row("pols", [polid |-> "p1", isstat |-> 1, unit |-> Null])>>,
    sitepols |-> s,
    sbparam |-> <<Row("sbparam", [sbid |-> "sb1", devname |-> "A", devaddr |-> 1]),
                  Row("sbparam", [sbid |-> "sb3", devname |-> "A", devaddr |-> 2])>>,
    polsalarm |-> <<Row("polsalarm", [polid |-> "p1", devname |-> "A", devaddr |-> 2])>>,
    ctlparam |-> <<Row("ctlparam", [sbid |-> "sb1", paramname |-> "SP",
                                    devname |-> "B", devaddr |-> 1]),
                   Row("ctlparam", [sbid |-> "sb1", devname |-> "A", devaddr |-> 2])>>] :
   d \in MCDevices,
   s \in {<<>>, <<Pol("p1", "A", 1), Pol("p2", "A", 2), Pol("p3", "B", 1)>>}}

-----------------------------------------------------------------------------
(***************************************************************************)
(* With no refusal behind it, gather has never died: this is one state.    *)
(***************************************************************************)
SettingsRest == step = 0 /\ refused = 0 /\ stored = EmptyDatabase

GatherInit ==
  /\ SettingsInit
  /\ \/ Init
     \/ FieldInit /\ SettingsRest

GatherNext ==
  \/ SettingsRest /\ release = "present" /\ Next /\ UNCHANGED settingsVars
  \/ SettingsRest /\ FieldNext /\ UNCHANGED settingsVars
  \/ Init /\ SettingsNext /\ UNCHANGED vars

GatherSpec == GatherInit /\ [][GatherNext]_<<vars, settingsVars>>
=============================================================================
