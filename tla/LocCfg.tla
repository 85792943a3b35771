------------------------------- MODULE LocCfg -------------------------------
(***************************************************************************)
(* The configuration of the location processes: loc_read_process_conf of   *)
(* src/gps/utils/loc_cfg.cpp, which reads izat.conf, and its user,         *)
(* initEngHubProxy of src/gps/gnss/GnssAdapter.cpp, which loads the engine *)
(* hub when an engine service is enabled.                                  *)
(*                                                                         *)
(* The file is a sequence of lines, each a parameter and its value.  It is *)
(* read three times: for the features, to count the processes, and block   *)
(* by block, where a block is told only by the number of lines that        *)
(* matched: conf is one static record, so what a block does not give stays *)
(* from the block before.  A list of platforms is [all, names]: "all",     *)
(* "all exclude ..." or just the names.  A feature mask is the set of its  *)
(* bits.  Numbers, lengths, group ids and what is logged are left out.     *)
(***************************************************************************)
EXTENDS Naturals, Sequences, FiniteSets, SequencesExt, FiniteSetsExt

CONSTANTS
  Features,    \* what the file may say of the features: functions to values
  Block,       \* the blocks that it may have: functions from ProcessParam
  MaxBlocks,
  Complete,    \* BOOLEAN: no block lacks a parameter or has one twice
  Platform, Baseband, Hardware, Sglte  \* what the properties and gps.conf say of the phone

VARIABLES
  features, blocks,    \* what the file says
  file,                \* its lines
  isVendorEnhanced, isXtraDaemonEnabled, present,  \* the phone; the hub's library is there
  conf,                \* what was read last
  pos,                 \* the line read next
  stage,               \* "idle", "features", "count", "blocks", "loads"
  procListLength,
  childProc,           \* the processes read
  firstTime, mEngHubProxy, loads

vars == <<features, blocks, file, isVendorEnhanced, isXtraDaemonEnabled, present, conf, pos,
          stage, procListLength, childProc, firstTime, mEngHubProxy, loads>>
phone == <<features, blocks, file, isVendorEnhanced, isXtraDaemonEnabled, present>>
hub == <<firstTime, mEngHubProxy, loads>>

FeatureParam == {"GTP_MODE", "GTP_WAA", "SAP", "ODCPI", "SUPL_WIFI"}
ProcessParam == {"PROCESS_NAME", "PROCESS_STATE", "PREMIUM_FEATURE", "IZAT_FEATURE_MASK",
                 "PLATFORMS", "BASEBAND", "HARDWARE_TYPE", "VENDOR_ENHANCED_PROCESS"}
Lists == {"PLATFORMS", "BASEBAND", "HARDWARE_TYPE"}
NoList == [all |-> FALSE, names |-> {}]

Line(param, value) == [param |-> param, value |-> value]
InOrder == <<"PROCESS_NAME", "PROCESS_STATE", "PREMIUM_FEATURE", "IZAT_FEATURE_MASK",
             "PLATFORMS", "BASEBAND", "HARDWARE_TYPE", "VENDOR_ENHANCED_PROCESS">>
Orders == {InOrder, Reverse(InOrder)}
            \cup IF Complete THEN {} ELSE {Tail(Reverse(InOrder)), <<"PREMIUM_FEATURE">> \o InOrder}

Written(order) ==
  LET fs == SetToSeq(DOMAIN features)
  IN [i \in DOMAIN fs |-> Line(fs[i], features[fs[i]])]
     \o FlattenSeq([j \in DOMAIN blocks |->
          [i \in DOMAIN order |-> Line(order[i], blocks[j][order[i]])]])

\* conf is static: it begins as zeroes and is never cleared.
Unread ==
  [p \in FeatureParam \cup ProcessParam |->
     CASE p \in Lists -> NoList
       [] p = "IZAT_FEATURE_MASK" -> {}
       [] p \in {"PREMIUM_FEATURE", "VENDOR_ENHANCED_PROCESS"} -> 0
       [] OTHER -> ""]

Init ==
  /\ features \in Features
  /\ blocks \in UNION {[1 .. n -> Block] : n \in 0 .. MaxBlocks}
  /\ file \in {Written(order) : order \in Orders}
  /\ isVendorEnhanced \in BOOLEAN /\ isXtraDaemonEnabled \in BOOLEAN /\ present \in BOOLEAN
  /\ conf = Unread
  /\ pos = 1 /\ stage = "idle" /\ procListLength = 0 /\ childProc = <<>>
  /\ firstTime = TRUE /\ mEngHubProxy = FALSE /\ loads = 0

-----------------------------------------------------------------------------
\* The lines from pos that give a parameter of the table, up to line n.
Matching(table, n) == {i \in pos .. n : i <= Len(file) /\ file[i].param \in table}

\* loc_read_conf_r reads up to as many matching lines as the table has entries,
\* or to the end.
\* Mutant: it reads to the end, as loc_read_conf would.
WholeFile(table) == Len(file)
lastRead(table) ==
  LET enough == {n \in pos .. Len(file) : Cardinality(Matching(table, n)) = Cardinality(table)}
  IN IF enough = {} THEN Len(file) ELSE Min(enough)

\* loc_fill_conf_item, loc_set_config_entry: the last one counts.
Filled(c, table) ==
  [p \in DOMAIN c |->
     LET given == Matching({p} \cap table, lastRead(table))
     IN IF given = {} THEN c[p] ELSE file[Max(given)].value]

-----------------------------------------------------------------------------
\* initEngHubProxy: only the first call does anything.
initEngHubProxy ==
  /\ stage = "idle"
  /\ IF firstTime THEN stage' = "features" /\ procListLength' = 0 /\ childProc' = <<>>
     ELSE UNCHANGED <<stage, procListLength, childProc>>
  /\ UNCHANGED <<phone, hub, conf, pos>>

\* The file is opened anew for the features.
ReadFeatures ==
  /\ stage = "features" /\ stage' = "count"
  /\ conf' = Filled(conf, FeatureParam)
  /\ pos' = 1
  /\ UNCHANGED <<phone, hub, procListLength, childProc>>

\* loc_service_mask.
Basic == {"ODCPI", "SUPL_WIFI"}
serviceMask ==
  {m \in {"wifi", "modemCell", "waa", "sapBasic", "sapPremium"} \cup Basic :
     CASE m = "wifi" -> conf["GTP_MODE"] = "SDK"
       [] m = "modemCell" -> conf["GTP_MODE"] = "LEGACY_WWAN"
       [] m = "waa" -> conf["GTP_WAA"] = "BASIC"
       [] m = "sapPremium" -> conf["SAP"] = "PREMIUM"
       [] m = "sapBasic" -> conf["SAP"] \notin {"PREMIUM", "MODEM_DEFAULT", "DISABLED"}
       [] OTHER -> conf[m] \in {"BASIC", "PREMIUM"}}

\* Mutant: the lines are not read again from the first.
NoRewind == pos
rewound == 1

\* The names are counted, until one is missing.
Count ==
  /\ stage = "count"
  /\ LET c == Filled([conf EXCEPT !["PROCESS_NAME"] = ""], {"PROCESS_NAME"})
     IN /\ conf' = c
        /\ IF c["PROCESS_NAME"] # ""
           THEN /\ procListLength' = procListLength + 1
                /\ pos' = lastRead({"PROCESS_NAME"}) + 1
                /\ UNCHANGED stage
           ELSE pos' = rewound /\ stage' = "blocks" /\ UNCHANGED procListLength
  /\ UNCHANGED <<phone, hub, childProc>>

-----------------------------------------------------------------------------
\* Mutant: the platforms excluded are the only ones.
OnlyExcluded(list, name) == IF list.all THEN list.names = {} \/ name \in list.names
                            ELSE name \in list.names
\* The bits of config_mask: all, or found in the list.
found(list, name) == IF list.all THEN name \notin list.names ELSE name \in list.names
foundBaseband(list) == found(list, Baseband) \/ (~list.all /\ Sglte /\ "sglte" \in list.names)
\* For the hardware "all" is all, whatever follows.
foundHardware(list) == list.all \/ Hardware \in list.names

\* The options a premium process is given, each with its mode.
mode(basic, premium) ==
  IF basic \in serviceMask THEN "basic" ELSE IF premium \in serviceMask THEN "premium"
  ELSE "DISABLED"
args(c) ==
  LET mask == c["IZAT_FEATURE_MASK"]
      option(bits, name, basic, premium) ==
        IF mask \cap bits = {} THEN <<>> ELSE <<<<name, mode(basic, premium)>>>>
  IN option({"wifi", "wifiPremium"}, "gtp-wifi", "wifi", "wifiPremium")
     \o option({"cell", "cellPremium"}, "gtp-modem-cell", "modemCell", "modemCell")
     \o option({"sapBasic", "sapPremium"}, "sap", "sapBasic", "sapPremium")
     \o option({"waa"}, "gtp-waa", "waa", "waa")

process(status, name, given) == [status |-> status, name |-> name, args |-> given]

\* A block that ends early has no name: the ones that go on to the end have.
Read(c) ==
  IF "" \in {c["PROCESS_NAME"], c["PROCESS_STATE"]} \/ NoList \in {c[l] : l \in Lists}
  THEN process("DISABLED", "", <<>>)
  ELSE IF c["PROCESS_NAME"] = "xtra-daemon" /\ ~isXtraDaemonEnabled
  THEN process("DISABLED_FROM_CONF", "", <<>>)
  ELSE IF ~isVendorEnhanced /\ c["VENDOR_ENHANCED_PROCESS"] # 0
  THEN process("DISABLED_VIA_VENDOR_ENHANCED_CHECK", "", <<>>)
  ELSE IF c["PROCESS_STATE"] = "DISABLED"
  THEN process("DISABLED_FROM_CONF", "", <<>>)
  ELSE IF /\ found(c["PLATFORMS"], Platform)
          /\ foundBaseband(c["BASEBAND"])
          /\ foundHardware(c["HARDWARE_TYPE"])
          /\ c["PREMIUM_FEATURE"] = 0 \/ c["IZAT_FEATURE_MASK"] \cap serviceMask # {}
  THEN process("ENABLED", c["PROCESS_NAME"],
               IF c["PREMIUM_FEATURE"] = 0 THEN <<>> ELSE args(c))
  ELSE process("DISABLED", c["PROCESS_NAME"], <<>>)

ReadBlock ==
  /\ stage = "blocks" /\ Len(childProc) < procListLength
  /\ LET c == Filled(conf, ProcessParam)
     IN conf' = c /\ childProc' = Append(childProc, Read(c))
  /\ pos' = lastRead(ProcessParam) + 1
  /\ UNCHANGED <<phone, hub, stage, procListLength>>

\* Mutant: a hub that was not loaded is tried for again.
TriedAgain == ~mEngHubProxy'
TriedOnce == FALSE

\* The hub is loaded for an engine service that is enabled, if it is there.
LoadHub ==
  /\ stage = "blocks" /\ Len(childProc) = procListLength
  /\ mEngHubProxy' = ((\E j \in DOMAIN childProc :
                         childProc[j].name = "engine-service" /\ childProc[j].status = "ENABLED")
                      /\ present)
  /\ loads' = loads + 1
  /\ firstTime' = TriedOnce
  /\ stage' = "idle" /\ pos' = 1
  /\ UNCHANGED <<phone, conf, procListLength, childProc>>

Next == initEngHubProxy \/ ReadFeatures \/ Count \/ ReadBlock \/ LoadHub

Spec == Init /\ [][Next]_vars

-----------------------------------------------------------------------------
\* Whether a block by itself asks for its process on this phone.
Wanted(b) ==
  /\ b["PROCESS_STATE"] # "DISABLED"
  /\ b["VENDOR_ENHANCED_PROCESS"] # 0 => isVendorEnhanced
  /\ b["PROCESS_NAME"] = "xtra-daemon" => isXtraDaemonEnabled
  /\ \A l \in {<<"PLATFORMS", Platform>>, <<"BASEBAND", Baseband>>} :
       b[l[1]].all <=> l[2] \notin b[l[1]].names
  /\ foundHardware(b["HARDWARE_TYPE"])
  /\ b["PREMIUM_FEATURE"] # 0 =>
       \E m \in b["IZAT_FEATURE_MASK"] :
         \/ m = "wifi" /\ features["GTP_MODE"] = "SDK"
         \/ m = "sapPremium" /\ features["SAP"] = "PREMIUM"
         \/ m = "sapBasic" /\ features["SAP"] = "BASIC"

\* Each process is enabled by its own block and the features alone, whatever the
\* blocks before it said (loc_read_process_conf).
EachByItsOwnBlock ==
  \A j \in DOMAIN childProc : (childProc[j].status = "ENABLED") = Wanted(blocks[j])

\* The file is read once, all of its processes are found, and the hub is loaded
\* exactly if one of them is an engine service that is wanted (initEngHubProxy).
HubAsConfigured ==
  /\ loads <= 1
  /\ ~firstTime =>
    /\ Len(childProc) = Len(blocks)
    /\ mEngHubProxy <=> present /\ \E j \in DOMAIN blocks :
         blocks[j]["PROCESS_NAME"] = "engine-service" /\ Wanted(blocks[j])
=============================================================================
