--------------------------- MODULE ReadinessLoop ---------------------------
(***************************************************************************)
(* The run function of the fd-based C drivers (situc/codegen/c/driver.py,  *)
(* `loop`, around the waits of epoll.py, poll.py, select.py, ppoll.py and  *)
(* blocking.py): wait for the socket or the next deadline, then receive    *)
(* one datagram.                                                           *)
(***************************************************************************)
EXTENDS RunLoop

(* The setup (epoll_create1, epoll_ctl) fails: straight to the exit *)
SetupFails ==
  /\ pc = "idle" /\ runs < MaxRuns
  /\ runs' = runs + 1
  /\ Goto("exit")
  /\ rc' = "bounds" /\ finished' = "error"
  /\ UNCHANGED <<vars, diff, until, stop, envVars, dones, errors, told,
                 lag>>

EnterWait ==
  /\ pc = "wait"
  /\ Goto("sleep")
  /\ until' = clock + diff
  /\ UNCHANGED <<vars, diff, stop, rc, envVars, logVars>>

WakeTimeout ==
  /\ pc = "sleep" /\ clock >= until
  /\ Goto("top")
  /\ UNCHANGED <<vars, diff, until, stop, rc, envVars, logVars>>

WakeReadable ==
  /\ pc = "sleep" /\ inbox # <<>>
  /\ Goto("recv")
  /\ UNCHANGED <<vars, diff, until, stop, rc, envVars, logVars>>

(* EINTR from the wait or the receive, EAGAIN from the receive, or an      *)
(* event other than input: the next turn.                                  *)
Interrupted ==
  /\ pc \in {"sleep", "recv"}
  /\ Goto("top")
  /\ UNCHANGED <<vars, diff, until, stop, rc, envVars, logVars>>

Failed == pc \in {"sleep", "recv"} /\ Fail

(* recvmsg and `deliver`: one datagram a turn *)
Recv ==
  /\ pc = "recv" /\ inbox # <<>>
  /\ inbox' = Tail(inbox)
  /\ Deliver(Head(inbox), "top")
  /\ UNCHANGED <<diff, until, stop, rc, arrivals, logVars>>

Loop ==
  \/ Stopped \/ Turn \/ EnterWait \/ WakeTimeout \/ WakeReadable
  \/ Recv \/ HookReturn \/ Exit

LoopNext ==
  \/ Run \/ SetupFails \/ Loop \/ Interrupted \/ Failed
  \/ \E r \in Requests : UserSend(r)
  \/ SetStop("top")
  \/ \E d \in Datagrams : Arrive(d)
  \/ TimePasses

LoopSpec == LoopInit /\ [][LoopNext]_allVars

(* The thread that called run is scheduled, and time passes whatever else  *)
(* happens.  Nothing is assumed of the user, the network or failures.      *)
FairLoopSpec ==
  /\ LoopSpec
  /\ WF_allVars(Loop)
  /\ SF_allVars(TimePasses)

-----------------------------------------------------------------------------
(* The wait ends by the earliest deadline, but for the time the loop       *)
(* itself was kept from running: no exchange is due while it sleeps on.    *)
NoOversleep ==
  pc = "sleep" =>
    \A i \in Slots : req[i] # None => until <= lastTx[req[i]] + Timeout + lag

(* A run that is not failed or stopped still ends: every exchange in it is *)
(* answered or expires, whatever arrives and whatever is lost.             *)
RunEnds == (pc = "top") ~> (pc = "idle")
=============================================================================
