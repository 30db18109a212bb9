----------------------------- MODULE MCServices -------------------------------
(***************************************************************************)
(* The services and HALs that do not interact with one another: the        *)
(* compass daemon, the firmware loader, the interface to the hub's         *)
(* algorithms, the HAL of the larger hub, the power HAL and the battery    *)
(* service.  Each behaviour is one of one part; the others stay as they    *)
(* start.  The sensors of the larger hub that share a rate, the gyroscopes *)
(* and the one-shot sensors share nothing and are parts of their own.      *)
(***************************************************************************)
EXTENDS Akmd, FirmwareLoader, SensorHubAlgos, MotoshHub, PowerHints, BatteryHealth

VARIABLE part

\* A firmware of two packets, a damaged one of the same version, one without a
\* version, and a blacklisted one.
MCStock == [ver |-> "1", data |-> <<1, 2, 3, 4, 5, 6, 7>>]
MCBad   == [ver |-> "2", data |-> <<8, 8, 8>>]
MCFirmware  == {MCStock, MCBad, [ver |-> "1", data |-> <<1, 2, 3, 9, 9>>],
                [ver |-> "", data |-> <<1, 2>>]}
MCBlackList == {MCBad}

\* A disabled sensor's delay is negative.
MCDelays == {-1, 500}

Shots == {"ID_GLANCE_GESTURE", "ID_MOTO_GLANCE_GESTURE", "ID_MOTION_DETECT"}

MCInit == /\ AInit /\ LInit /\ HInit /\ MInit /\ PInit /\ BInit
          /\ part \in {"akmd", "loader", "algos", "compass", "gyro", "shots", "power", "battery"}
          /\ part # "power" => qcopt_handle

MCNext ==
  /\ \/ part = "akmd" /\ ANext /\ UNCHANGED <<lvars, hvars, mvars, pvars, bvars>>
     \/ part = "loader" /\ LNext /\ UNCHANGED <<avars, hvars, mvars, pvars, bvars>>
     \/ part = "algos" /\ HNext /\ UNCHANGED <<avars, lvars, mvars, pvars, bvars>>
     \/ part = "compass" /\ (MCalls(MagRate) \/ MDies(MagRate))
        /\ UNCHANGED <<avars, lvars, hvars, pvars, bvars>>
     \/ part = "gyro" /\ (MCalls(GyroRate) \/ MDies(GyroRate))
        /\ UNCHANGED <<avars, lvars, hvars, pvars, bvars>>
     \/ part = "shots" /\ (MReads \/ MCalls(Shots) \/ HalRestarts)
        /\ UNCHANGED <<avars, lvars, hvars, pvars, bvars>>
     \/ part = "power" /\ PNext /\ UNCHANGED <<avars, lvars, hvars, mvars, bvars>>
     \/ part = "battery" /\ BNext /\ UNCHANGED <<avars, lvars, hvars, mvars, pvars>>
  /\ UNCHANGED part

MCSpec == MCInit /\ [][MCNext]_<<avars, lvars, hvars, mvars, pvars, bvars, part>>
          /\ AFairness /\ LFairness

\* The values every part's variables may have (type correctness of the parts).
ServicesTypeOK == ATypeOK /\ LTypeOK /\ HTypeOK /\ MTypeOK /\ PTypeOK /\ BTypeOK
===============================================================================
