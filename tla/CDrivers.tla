----------------------------- MODULE CDrivers ------------------------------
(***************************************************************************)
(* The run functions of the C drivers side by side: one over a descriptor, *)
(* one over a ring.  A program uses one of them, chosen at the beginning.  *)
(***************************************************************************)
EXTENDS ReadinessLoop, UringLoop

CONSTANT RingHorizon  \* the clock's bound where the host is the ring

ASSUME RingHorizonAssumption == RingHorizon \in Nat

VARIABLE host   \* the driver in use: "fd" or "ring"

driversVars == <<uringVars, host>>

DriversInit == host \in {"fd", "ring"} /\ UringInit

DriversNext ==
  /\ \/ host = "fd" /\ LoopNext /\ UNCHANGED ringVars
     \/ host = "ring" /\ UringNext /\ clock' <= RingHorizon
  /\ UNCHANGED host

(* Over a descriptor the fairness of FairLoopSpec; over a ring none *)
DriversSpec ==
  /\ DriversInit /\ [][DriversNext]_driversVars
  /\ WF_driversVars(host = "fd" /\ Loop /\ UNCHANGED <<ringVars, host>>)
  /\ SF_driversVars(host = "fd" /\ TimePasses /\ UNCHANGED <<ringVars, host>>)

-----------------------------------------------------------------------------
(* RunEnds of ReadinessLoop, for the hosts that wait on a descriptor: a    *)
(* run that entered its loop reaches on_done whatever the network loses    *)
(* (the loop of driver.py).                                                *)
FdRunEnds == host = "fd" => RunEnds

(* OneRecvInFlight of UringLoop, for the host that waits on a ring: while  *)
(* nothing is left over from an earlier run, a wait has one RECV in flight *)
(* (the arming of io_uring.py).                                            *)
RingHasOneRecv == host = "ring" => OneRecvInFlight
=============================================================================
