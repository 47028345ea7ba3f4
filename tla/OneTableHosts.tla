--------------------------- MODULE OneTableHosts ---------------------------
(***************************************************************************)
(* The machine of C++ and Rust with whoever drives it: any caller, the Qt  *)
(* pump or the Tokio loop.  They do not interact, so one of them is chosen *)
(* at the beginning and the others stay as they are.                       *)
(***************************************************************************)
EXTENDS QtPump, TokioLoop

CONSTANTS
  Hosts,          \* who may drive the machine
  CallerHorizon   \* bound on true time where it is any caller

ASSUME HostsAssumption == Hosts \subseteq {"caller", "qt", "tokio"}

VARIABLE host     \* who does

hostsVars == <<vars, hostVars, pumpVars, tokioVars, host>>

HostsInit ==
  /\ host \in Hosts
  /\ PumpInit /\ TokioInit
  /\ host # "qt" => ~runner

AnyCaller ==
  /\ host = "caller"
  /\ Next /\ clock' <= CallerHorizon
  /\ UNCHANGED <<hostVars, pumpVars, tokioVars>>

HostsNext ==
  /\ \/ AnyCaller
     \/ host = "qt" /\ PumpNext /\ UNCHANGED tokioVars
     \/ host = "tokio" /\ TokioNext /\ UNCHANGED pumpVars
  /\ UNCHANGED host

HostWorks ==
  /\ \/ host = "qt" /\ Pump /\ UNCHANGED tokioVars
     \/ host = "tokio" /\ Tokio /\ UNCHANGED pumpVars
  /\ UNCHANGED host

TimeGoesOn ==
  /\ \/ host = "qt" /\ PumpTime /\ UNCHANGED tokioVars
     \/ host = "tokio" /\ TokioTime /\ UNCHANGED pumpVars
  /\ UNCHANGED host

(* The event loop dispatches what is due, the future is polled and the     *)
(* hooks return, and time passes whatever else happens.  Nothing is        *)
(* assumed of the user, the network or failures.                           *)
HostsSpec ==
  /\ HostsInit /\ [][HostsNext]_hostsVars
  /\ WF_hostsVars(HostWorks)
  /\ SF_hostsVars(TimeGoesOn)

-----------------------------------------------------------------------------
(* No host goes deaf or oversleeps: see Watching and TokioWatching *)
NeverDeaf == IF host = "tokio" THEN TokioWatching ELSE Watching

(* on_done exactly once on every path out: see PumpDone and TokioDone *)
DoneOnce == IF host = "tokio" THEN TokioDone ELSE PumpDone

(* Every run comes to its end: see PumpEnds and TokioEnds *)
HostEnds ==
  /\ host = "qt" => PumpEnds
  /\ host = "tokio" => TokioEnds
=============================================================================
