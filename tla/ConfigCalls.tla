---------------------------- MODULE ConfigCalls ----------------------------
(***************************************************************************)
(* What becomes of a call that configures the GNSS, beside the state that  *)
(* GnssConfig has.                                                         *)
(*                                                                         *)
(* The answers to gnssUpdateConfig() and gnssGetConfig(): one id for every *)
(* bit set in the flags, from low bits to high, and one error for each id. *)
(* The message handler walks the flags in the order of their bits; the     *)
(* engine's part, gnssUpdateConfig() on LocApi's thread, walks them in an  *)
(* order of its own and passes over three of them.                         *)
(*                                                                         *)
(* How a blacklist of satellites travels: the framework's list of          *)
(* constellation and number (GnssConfiguration::setBlacklist of the HIDL   *)
(* service) becomes a list of sv ids, the adapter turns that into a 64-bit *)
(* mask per constellation for the modem (convertToGnssSvIdConfig), and a   *)
(* report of the modem is turned back into a list.  A mask is the set of   *)
(* its bits.                                                               *)
(***************************************************************************)
EXTENDS Naturals, Sequences, FiniteSets, SequencesExt

CONSTANTS
  Request,      \* the sets of flags that are asked for together
  ServerType,   \* assistance servers asked for: "supl", or one that is invalid
  Source,       \* what the framework may list: [type, svid]
  MaxListed     \* bound: sources in one list

VARIABLES
  stage,     \* "idle", "asked" (message queued), "engine" (LocApi), "answered"
  kind,      \* "update" or "get"
  flags,     \* the flags of the request
  server,    \* the type of assistance server in it
  relock,    \* the engine has to be told the lock (see GnssConfig)
  supported, \* the modem lets satellites be blacklisted
  refused,   \* the flags whose setting the engine refuses
  answers,   \* the errors reported, in the order of the ids
  svStage,   \* "idle", "converted", "sent", "reported" or "refused"
  wide,      \* what an int shift by 32 or more gives: "wraps" or "vanishes"
  listed,    \* the framework's list
  ids,       \* the sv ids the adapter is given
  config,    \* GnssSvIdConfig: a mask for each constellation
  reported   \* the list made from the modem's masks

answerVars == <<stage, kind, flags, server, relock, supported, refused, answers>>
listVars == <<svStage, wide, listed, ids, config, reported>>
vars == <<answerVars, listVars>>

----------------------------------------------------------------------------
(* The answers. *)

\* The flags by bit, and in the order in which gnssUpdateConfig() serves them.
Bits == <<"lock", "suplVersion", "assistance", "lpp", "lppeCp", "lppeUp",
          "aGlonass", "emPdn", "suplEs", "suplMode", "blacklist", "emergency">>
EngineOrder == <<"lock", "assistance", "suplVersion", "lpp", "lppeCp", "lppeUp",
                 "aGlonass", "blacklist", "emergency">>

IndexOf(order, f) == CHOOSE i \in DOMAIN order : order[i] = f
\* The place of f among the flags of fs, counted along an order.
Place(order, fs, f) ==
  1 + Cardinality({g \in fs : IndexOf(order, g) < IndexOf(order, f)})

AnswersInit ==
  /\ stage = "idle" /\ kind = "update" /\ flags = {} /\ server = "supl"
  /\ relock \in BOOLEAN /\ supported \in BOOLEAN
  /\ refused = {} /\ answers = <<>>

Command ==
  /\ stage = "idle" /\ stage' = "asked"
  /\ kind' \in {"update", "get"} /\ flags' \in Request /\ server' \in ServerType
  /\ UNCHANGED <<relock, supported, refused, answers>>

\* gnssGetConfigCommand: only the blacklist can be asked for.
GetConfig ==
  /\ stage = "asked" /\ kind = "get" /\ stage' = "answered"
  /\ answers' = [i \in 1..Cardinality(flags) |->
                   IF supported /\ "blacklist" \in flags
                      /\ i = Place(Bits, flags, "blacklist")
                   THEN "success" ELSE "not supported"]
  /\ UNCHANGED <<kind, flags, server, relock, supported, refused>>

\* The handler of the message; the errors it finds are not passed on.
UpdateConfig ==
  /\ stage = "asked" /\ kind = "update" /\ stage' = "engine"
  /\ refused' \in SUBSET flags
  /\ UNCHANGED <<kind, flags, server, relock, supported, answers>>

\* gnssConfigNeedEngineUpdate: the flags that are not cleared.
NeedsEngine(f) ==
  /\ f = "lock" => relock
  /\ f = "assistance" => server = "supl"
error(f) ==
  CASE f = "blacklist" /\ ~supported -> "not supported"
    [] f # "blacklist" /\ ~NeedsEngine(f) -> "success"
    [] OTHER -> IF f \in refused THEN "failure" ELSE "success"

\* Mutant: a flag that the engine need not be told has no place in the list.
CountsSent(f) ==
  LET sent == {g \in flags \cap ToSet(EngineOrder) : NeedsEngine(g) \/ g = f}
  IN Place(EngineOrder, sent, f)
index(f) == Place(EngineOrder, flags \cap ToSet(EngineOrder), f)

\* gnssUpdateConfig: the list begins with a success for every flag.
EngineUpdate ==
  /\ stage = "engine" /\ stage' = "answered"
  /\ answers' = [i \in 1..Cardinality(flags) |->
       LET here == {f \in flags \cap ToSet(EngineOrder) : index(f) = i /\ error(f) # "success"}
       IN IF here = {} THEN "success" ELSE error(CHOOSE f \in here : TRUE)]
  /\ UNCHANGED <<kind, flags, server, relock, supported, refused>>

AnswersNext == Command \/ GetConfig \/ UpdateConfig \/ EngineUpdate

----------------------------------------------------------------------------
(* The blacklist. *)

Type == {"glonass", "beidou", "qzss", "galileo"}
initialSvId == [glonass |-> 65, beidou |-> 201, qzss |-> 193, galileo |-> 301]
AllBits == 0..63

ListsInit ==
  /\ svStage = "idle" /\ wide \in {"wraps", "vanishes"}
  /\ listed = {} /\ ids = {} /\ reported = {}
  /\ config = [t \in Type |-> {}]

\* Mutant: the first satellite of a constellation is its initial id plus one.
OffByOne(src) == src.svid + (IF src.type \in Type \ {"qzss"} /\ src.svid > 0
                             THEN initialSvId[src.type] ELSE 0)
\* setBlacklistedSource: QZSS satellites keep their number, 0 stands for all.
setBlacklistedSource(src) ==
  src.svid + (IF src.type \in Type \ {"qzss"} /\ src.svid > 0
              THEN initialSvId[src.type] - 1 ELSE 0)

\* setBlacklist: a list without one valid source is refused, unless it is empty.
setBlacklist ==
  /\ svStage = "idle"
  /\ listed' \in {l \in SUBSET Source : Cardinality(l) <= MaxListed}
  /\ ids' = {[type |-> src.type, svId |-> setBlacklistedSource(src)] : src \in listed'}
  /\ svStage' = IF listed' = {} \/ \E src \in listed' : src.type \in Type
              THEN "converted" ELSE "refused"
  /\ UNCHANGED <<wide, config, reported>>

\* (1 << n) is an int: bit 31 is its sign, which fills the 64 bits of the mask
\* it is or-ed into, and a shift by 32 or more is undefined.
OneShifted(n) ==
  LET k == IF wide = "wraps" THEN n % 32 ELSE n
  IN CASE k < 31 -> {k}
       [] k = 31 -> 31..63
       [] OTHER -> {}

maskOf(t) ==
  LET mine == {i.svId : i \in {j \in ids : j.type = t}}
      valid == {v \in mine : v >= initialSvId[t] /\ v < initialSvId[t] + 64}
  IN IF 0 \in mine THEN AllBits
     ELSE UNION {OneShifted(v - initialSvId[t]) : v \in valid}

\* convertToGnssSvIdConfig: false, and nothing is sent, if the list is not
\* empty and no bit is set.
convertToGnssSvIdConfig ==
  /\ svStage = "converted"
  /\ config' = [t \in Type |-> maskOf(t)]
  /\ svStage' = IF ids = {} \/ \E t \in Type : maskOf(t) # {} THEN "sent" ELSE "refused"
  /\ UNCHANGED <<wide, listed, ids, reported>>

\* Mutant: a constellation that is off as a whole is listed bit by bit.
BitByBit(t, mask) == {[type |-> t, svId |-> b + initialSvId[t]] : b \in mask}
\* convertGnssSvIdMaskToList
maskToList(t, mask) ==
  IF mask = AllBits THEN {[type |-> t, svId |-> 0]}
  ELSE {[type |-> t, svId |-> b + initialSvId[t]] : b \in mask}

\* reportGnssSvIdConfig
convertFromGnssSvIdConfig ==
  /\ svStage = "sent" /\ svStage' = "reported"
  /\ reported' = UNION {maskToList(t, config[t]) : t \in Type}
  /\ UNCHANGED <<wide, listed, ids, config>>

ListsNext == setBlacklist \/ convertToGnssSvIdConfig \/ convertFromGnssSvIdConfig

----------------------------------------------------------------------------
Init == AnswersInit /\ ListsInit

Next ==
  \/ AnswersNext /\ UNCHANGED listVars
  \/ ListsNext /\ UNCHANGED answerVars

Spec == Init /\ [][Next]_vars

----------------------------------------------------------------------------
TypeOK ==
  /\ stage \in {"idle", "asked", "engine", "answered"} /\ kind \in {"update", "get"}
  /\ flags \subseteq ToSet(Bits) /\ refused \subseteq flags
  /\ Len(answers) <= Len(Bits)
  /\ svStage \in {"idle", "converted", "sent", "reported", "refused"}
  /\ wide \in {"wraps", "vanishes"}
  /\ config \in [Type -> SUBSET AllBits]

\* What became of a flag.
Outcome(f) ==
  CASE kind = "get" -> IF f = "blacklist" /\ supported THEN "success" ELSE "not supported"
    [] f = "assistance" /\ server # "supl" -> "invalid"
    [] f \in ToSet(EngineOrder) -> error(f)
    [] OTHER -> "success"

\* The error reported for the id of a flag is that flag's, though the handler
\* and the engine's part go through the flags in different orders.
ErrorIsItsOwn ==
  stage = "answered" => \A f \in flags : answers[Place(Bits, flags, f)] = Outcome(f)

\* What a list says: constellations that are off, and satellites of others.
AllOff(l) == {i.type : i \in {j \in l : j.svId = 0 /\ j.type \in Type}}
Single(l) == {i \in l : i.svId # 0 /\ i.type \in Type \ AllOff(l)}

\* The satellites that the modem's report names are those of the list, however
\* they were numbered on the way.
ReportsWhatWasListed ==
  svStage = "reported" =>
    /\ AllOff(reported) = AllOff(ids)
    /\ Single(reported) = {i \in Single(ids) : i.svId >= initialSvId[i.type]}
    /\ \A src \in listed : src.type \in Type /\ src.svid = 1 /\ src.type # "qzss"
                           /\ src.type \notin AllOff(ids)
         => 0 \in config[src.type]
============================================================================
