----------------------------- MODULE TokioLoop -----------------------------
(***************************************************************************)
(* The Tokio loop (situc/codegen/rust/tokio_driver.py): a future that      *)
(* steps the Rust machine, awaits the socket or the deadline, and          *)
(* receives.                                                               *)
(*                                                                         *)
(* The future borrows the machine (`&mut`) until it ends, so neither a     *)
(* hook nor another task can open an exchange meanwhile; what another task *)
(* can do is drop the future where it awaits.                              *)
(***************************************************************************)
EXTENDS EventHost

VARIABLES
  at,        \* where the future is; "idle" when there is none
  back,      \* where it goes on when the hook returns
  wait,      \* milliseconds to the next deadline, as computed from `step`
  dropped    \* history: futures that were dropped

tokioVars == <<at, back, wait, dropped>>
allTokioVars == <<vars, hostVars, tokioVars>>

TokioInit ==
  HostInit /\ at = "idle" /\ back = "top" /\ wait = 0 /\ dropped = 0

Call(then) == at' = "hook" /\ back' = then

Goto(p) == at' = p /\ UNCHANGED back

RunTokio ==
  /\ at = "idle" /\ begun < MaxBegun
  /\ begun' = begun + 1
  /\ Goto("top")
  /\ UNCHANGED <<vars, wake, socketVars, dones, complete, lag, wait, dropped>>

(* hooks.stop(), asked at the top of every turn *)
StopTokio ==
  /\ at = "top"
  /\ Goto("exit") /\ complete' = FALSE
  /\ UNCHANGED <<vars, wake, socketVars, begun, dones, lag, wait, dropped>>

Turn ==
  /\ at = "top"
  /\ DriveStep
  /\ LET next == Soonest(req', deadline')
         then == IF next = None THEN "exit" ELSE "select"
     IN /\ IF ExpiredCount > 0 THEN Call(then) ELSE Goto(then)
        /\ wait' = IF next = None THEN 0 ELSE Delay(next)
        /\ complete' = (next = None)
  /\ UNCHANGED <<wake, socketVars, begun, dones, lag, dropped>>

(* The sleep and the receive are made, and raced *)
Select ==
  /\ at = "select"
  /\ Goto("await") /\ wake' = clock + wait /\ wait' = 0
  /\ UNCHANGED <<vars, socketVars, begun, dones, complete, lag, dropped>>

(* The timer wins, or the receive; the other is dropped *)
WakeTimeout ==
  /\ at = "await" /\ clock >= wake
  /\ Goto("top") /\ wake' = None
  /\ UNCHANGED <<vars, socketVars, begun, dones, complete, lag, wait, dropped>>

WakeReceive ==
  /\ at = "await" /\ inbox # <<>>
  /\ inbox' = Tail(inbox)
  /\ wake' = None
  /\ \E hook \in {"on_reply", "on_unmatched", "on_malformed"} :
       Deliver(Head(inbox), hook)
  /\ Call("top")
  /\ UNCHANGED <<arrivals, begun, dones, complete, lag, wait, dropped>>

(* Interrupted or WouldBlock: the next turn.  Another error: on_error, and *)
(* the exit.                                                               *)
ReceiveErr ==
  /\ at = "await"
  /\ wake' = None
  /\ Goto("top") \/ Call("exit")
  /\ complete' = FALSE
  /\ UNCHANGED <<vars, socketVars, begun, dones, lag, wait, dropped>>

HookReturns ==
  /\ at = "hook"
  /\ at' = back /\ back' = "top"
  /\ UNCHANGED <<vars, hostVars, wait, dropped>>

(* The loop has returned: on_done *)
Exit ==
  /\ at = "exit"
  /\ Goto("idle") /\ dones' = dones + 1
  /\ UNCHANGED <<vars, wake, socketVars, begun, complete, lag, wait, dropped>>

(* The future is dropped at its one await, and calls no hook *)
Drop ==
  /\ at = "await"
  /\ Goto("idle") /\ wake' = None /\ dropped' = dropped + 1
  /\ UNCHANGED <<vars, socketVars, begun, dones, complete, lag, wait>>

TokioSend(r) ==
  /\ at = "idle"
  /\ Send(r)
  /\ UNCHANGED <<hostVars, tokioVars>>

Tokio == Turn \/ Select \/ WakeTimeout \/ WakeReceive \/ HookReturns \/ Exit

TokioTime == PassTime(at = "await") /\ UNCHANGED tokioVars

TokioNext ==
  \/ Tokio \/ RunTokio \/ StopTokio \/ ReceiveErr \/ Drop
  \/ \E r \in Opens : TokioSend(r)
  \/ \E d \in Datagrams : Arrive(d) /\ UNCHANGED tokioVars
  \/ TokioTime

TokioSpec == TokioInit /\ [][TokioNext]_allTokioVars

-----------------------------------------------------------------------------
(* While the future awaits, its timer runs to no later than the earliest   *)
(* deadline: what it told step and what it waits for come from one reading *)
(* of the clock.                                                           *)
TokioWatching == at = "await" => WakesInTime

(* on_done is called "exactly once on every path out" of each call, unless *)
(* the future is dropped.                                                  *)
TokioDone == dones + dropped = IF at = "idle" THEN begun ELSE begun - 1

(* A future that is polled comes to its end *)
TokioEnds == (at = "top") ~> (at = "idle")
=============================================================================
