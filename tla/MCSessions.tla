----------------------------- MODULE MCSessions -----------------------------
(***************************************************************************)
(* Tracking for TLC without faults, as two parts: "time", three sessions   *)
(* that differ in their interval, 1 and 2 of client a, 3 of client b; and  *)
(* "mixed", a session of each client that may be distance-based or differ  *)
(* in power mode, while the engine restarts.  And network-initiated        *)
(* sessions, as part "ni": an emergency request e1 and a SUPL request s1,  *)
(* or two SUPL requests.                                                   *)
(* The tracking and the network-initiated sessions share no state.         *)
(***************************************************************************)
EXTENDS Ni, TLC

CONSTANTS Part,
          a, b, none, e1, s1,   \* model values
          MaxCommands, MaxMixed
VARIABLES part,
          timeBased, distanceBased, removed, capsKnown, pending, trackingQ, apiQ, up,
          engine, engineDistance, started, owed, ended, commands, restarts

tracking == <<timeBased, distanceBased, removed, capsKnown, pending, trackingQ, apiQ, up,
              engine, engineDistance, started, owed, ended, commands, restarts>>

opt(i, p, d) == [interval |-> i, power |-> p, distance |-> d]

Time == INSTANCE Tracking WITH
    Session <- {1, 2, 3}, Client <- {a, b}, ClientOf <- <<a, a, b>>,
    Option <- {opt(i, 2, FALSE) : i \in {0, 3}}, NoOptions <- none,
    NoCallback <- {}, StartInvalid <- FALSE, DistanceSupported <- TRUE,
    EngineMayFail <- FALSE, AllowRemove <- FALSE, AllowUpdate <- TRUE, MaxRestarts <- 0,
    msgQ <- trackingQ
Mixed == INSTANCE Tracking WITH
    Session <- {1, 3}, Client <- {a, b}, ClientOf <- (1 :> a) @@ (3 :> b),
    Option <- {opt(0, 4, FALSE), opt(3, 2, FALSE), opt(1, 2, TRUE)}, NoOptions <- none,
    NoCallback <- {}, StartInvalid <- FALSE, DistanceSupported <- TRUE,
    EngineMayFail <- FALSE, AllowRemove <- FALSE, AllowUpdate <- TRUE, MaxCommands <- MaxMixed, MaxRestarts <- 1,
    msgQ <- trackingQ

TwoRequests == {e1, s1}
Types == (e1 :> "ES") @@ (s1 :> "SUPL")
BothSupl == [r \in TwoRequests |-> "SUPL"]

SessionsInit ==
    /\ part \in Part
    /\ IF part = "mixed" THEN Mixed!Init ELSE Time!Init
    /\ Init /\ (part # "ni" => ~niClient)

SessionsNext ==
    \/ part = "time" /\ Time!Next /\ UNCHANGED <<part, vars>>
    \/ part = "mixed" /\ Mixed!Next /\ UNCHANGED <<part, vars>>
    \/ part = "ni" /\ Next /\ UNCHANGED <<part, tracking>>

SessionsSpec == SessionsInit /\ [][SessionsNext]_<<part, tracking, vars>>

-----------------------------------------------------------------------------
\* Every command is answered (each callback of LocApiResponse).
EveryCommandAnswered ==
    /\ part = "time" => Time!EveryCommandAnswered
    /\ part = "mixed" => Mixed!EveryCommandAnswered

\* The engine runs as often as any session asks, in the power mode the most
\* exacting asks for, and not for nobody (startTimeBasedTrackingMultiplex,
\* updateTrackingMultiplex, stopTimeBasedTrackingMultiplex, restartSessions).
EngineServesSessions ==
    /\ part = "time" => Time!EngineServesSessions /\ Time!EngineOffWhenIdle
    /\ part = "mixed" => Mixed!EngineServesSessions /\ Mixed!EngineServesPower
=============================================================================
