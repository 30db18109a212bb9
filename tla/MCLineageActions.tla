--------------------------- MODULE MCLineageActions ---------------------------
(***************************************************************************)
(* The two halves of LineageActions, which run in different processes and  *)
(* share nothing: the doze gestures of its service, and the gestures of    *)
(* the fingerprint sensor in the window manager.  Each behaviour is one of *)
(* one half.                                                               *)
(***************************************************************************)
EXTENDS DozeGestures, KeyHandler

VARIABLE half

MCInit == /\ GInit /\ Init
          /\ half \in {"doze", "keys"}
          /\ half = "keys" => settings = <<FALSE, FALSE, FALSE>>

MCNext == /\ \/ half = "doze" /\ GNext /\ UNCHANGED vars
             \/ half = "keys" /\ Next /\ UNCHANGED gvars
          /\ UNCHANGED half

MCSpec == MCInit /\ [][MCNext]_<<gvars, vars, half>>

\* The values the variables of both halves may have (type correctness).
ActionsTypeOK == GTypeOK /\ TypeOK
===============================================================================
