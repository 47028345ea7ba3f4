---------------------------- MODULE AsyncioLoop ----------------------------
(***************************************************************************)
(* The asyncio driver (situc/codegen/python/asyncio_driver.py): one        *)
(* coroutine that steps the Python machine, awaits the socket or the       *)
(* deadline, and receives.                                                 *)
(*                                                                         *)
(* The coroutine shares its thread.  While it awaits, other tasks run:     *)
(* they may open exchanges, or cancel it.  A hook is a plain call, in      *)
(* which the user may open an exchange, set `stop`, or raise.              *)
(***************************************************************************)
EXTENDS DriveDict

CONSTANTS
  SendingHooks,  \* the hooks in which the user opens exchanges
  InboxMax,      \* bound on datagrams the socket holds; more are lost
  MaxArrivals,   \* bound on datagrams that ever arrive
  MaxRuns,       \* bound on calls of the coroutine
  MaxLag         \* bound on milliseconds outside a wait

Malformed == "malformed"

Datagrams == Keys \cup {NoKey, Malformed}

VARIABLES
  pc,         \* where the coroutine is; "idle" when it is not running
  hook,       \* the hook being called
  resume,     \* where it goes on when the hook returns
  next_ms,    \* the earliest deadline that step reported
  timer,      \* what is left of the timeout given to wait_for, in ms
  stop,       \* hooks.stop
  ended,      \* the exception that ends the run: none, cancelled or an error
  inbox,      \* datagrams in the socket
  arrivals,   \* history: datagrams that have arrived
  runs,       \* history: calls of the coroutine
  dones,      \* history: calls of on_done
  errors,     \* history: calls of on_error
  failures,   \* history: runs that an error, not a cancel, has ended
  complete,   \* history: the last run ended because nothing was outstanding
  lag         \* history: milliseconds that passed other than in a wait

loopVars == <<pc, hook, resume, next_ms, timer, stop, ended>>
envVars == <<inbox, arrivals>>
logVars == <<runs, dones, errors, failures, complete, lag>>
allVars == <<vars, loopVars, envVars, logVars>>

LoopInit ==
  /\ Init
  /\ pc = "idle" /\ hook = "none" /\ resume = "top"
  /\ next_ms = None /\ timer = 0 /\ stop = FALSE /\ ended = "none"
  /\ inbox = <<>> /\ arrivals = 0
  /\ runs = 0 /\ dones = 0 /\ errors = 0 /\ failures = 0 /\ complete = FALSE
  /\ lag = 0

Goto(p) == pc' = p /\ UNCHANGED <<hook, resume>>

Call(h, then) == pc' = "hook" /\ hook' = h /\ resume' = then

Run ==
  /\ pc = "idle" /\ runs < MaxRuns
  /\ runs' = runs + 1
  /\ stop' \in {stop, FALSE}
  /\ ended' = "none"
  /\ Goto("top")
  /\ UNCHANGED <<vars, next_ms, timer, envVars, dones, errors, failures, complete, lag>>

Stopped ==
  /\ pc = "top" /\ stop
  /\ Goto("exit")
  /\ complete' = FALSE
  /\ UNCHANGED <<vars, next_ms, timer, stop, ended, envVars,
                 runs, dones, errors, failures, lag>>

(* The exception handler is entered with an error of step, of the receive  *)
(* or of a hook.                                                           *)
Raise ==
  /\ Goto("exit")
  /\ ended' = "error"
  /\ failures' = failures + 1
  /\ complete' = FALSE

(* (next_ms - now) & 0xFFFFFFFF, and 0 where that is more than half *)
WaitForOneMore ==
  LET d == (next_ms - clock) % Modulus
  IN IF d >= Modulus \div 2 THEN 0 ELSE d + 1

WaitFor ==
  LET d == (next_ms - clock) % Modulus
  IN IF d >= Modulus \div 2 THEN 0 ELSE d

Turn ==
  /\ pc = "top" /\ ~stop
  /\ Step
  /\ \/ /\ answer'.res = "io"
        /\ Raise
        /\ UNCHANGED next_ms
     \/ /\ answer'.res # "io"
        /\ LET then == IF next_ms' = None THEN "exit" ELSE "arm"
           IN /\ next_ms' = Soonest(live')
              /\ complete' = (next_ms' = None)
              /\ IF ExpiredCount > 0 THEN Call("on_expired", then) ELSE Goto(then)
        /\ UNCHANGED <<ended, failures>>
  /\ UNCHANGED <<timer, stop, envVars, runs, dones, errors, lag>>

(* The clock is read a second time, after on_expired, for the await *)
Arm ==
  /\ pc = "arm"
  /\ Goto("await")
  /\ timer' = WaitFor
  /\ UNCHANGED <<vars, next_ms, stop, ended, envVars, logVars>>

WakeTimeout ==
  /\ pc = "await" /\ timer = 0
  /\ Goto("top")
  /\ UNCHANGED <<vars, next_ms, timer, stop, ended, envVars, logVars>>

WakeReadable ==
  /\ pc = "await" /\ inbox # <<>>
  /\ Goto("recv")
  /\ UNCHANGED <<vars, next_ms, timer, stop, ended, envVars, logVars>>

Recv ==
  /\ pc = "recv"
  /\ inbox' = Tail(inbox)
  /\ LET d == Head(inbox) IN
     \/ d = Malformed /\ Call("on_malformed", "top") /\ UNCHANGED vars
     \/ /\ d # Malformed
        /\ OnMessage(d)
        /\ Call(IF answer'.res = "ok" THEN "on_reply" ELSE "on_unmatched", "top")
  /\ UNCHANGED <<next_ms, timer, stop, ended, arrivals, logVars>>

(* A spurious readiness: EAGAIN or EINTR from the receive *)
RecvNothing ==
  /\ pc = "recv"
  /\ Goto("top")
  /\ UNCHANGED <<vars, next_ms, timer, stop, ended, envVars, logVars>>

RecvFails ==
  /\ pc = "recv"
  /\ Raise
  /\ UNCHANGED <<vars, next_ms, timer, stop, envVars, runs, dones, errors, lag>>

HookReturns ==
  /\ pc = "hook"
  /\ pc' = resume /\ hook' = "none" /\ UNCHANGED resume
  /\ UNCHANGED <<vars, next_ms, timer, stop, ended, envVars, logVars>>

HookRaises ==
  /\ pc = "hook"
  /\ Raise
  /\ UNCHANGED <<vars, next_ms, timer, stop, envVars, runs, dones, errors, lag>>

(* except and finally: on_error, but not for a cancel; then on_done *)
ExitAnyError ==
  /\ pc = "exit"
  /\ Goto("idle")
  /\ errors' = IF ended # "none" THEN errors + 1 ELSE errors
  /\ dones' = dones + 1
  /\ UNCHANGED <<vars, next_ms, timer, stop, ended, envVars, runs, failures, complete, lag>>

Exit ==
  /\ pc = "exit"
  /\ Goto("idle")
  /\ errors' = IF ended = "error" THEN errors + 1 ELSE errors
  /\ dones' = dones + 1
  /\ UNCHANGED <<vars, next_ms, timer, stop, ended, envVars, runs, failures, complete, lag>>

Loop ==
  \/ Stopped \/ Turn \/ Arm \/ WakeTimeout \/ WakeReadable
  \/ Recv \/ HookReturns \/ Exit

(* Other tasks, and the user's hooks *)
UserSend(r) ==
  /\ \/ pc = "idle" /\ runs < MaxRuns
     \/ pc = "await"
     \/ pc = "hook" /\ hook \in SendingHooks
  /\ Send(r)
  /\ UNCHANGED <<loopVars, envVars, logVars>>

SetStop ==
  /\ pc \in {"hook", "await"} /\ ~stop
  /\ stop' = TRUE
  /\ UNCHANGED <<vars, pc, hook, resume, next_ms, timer, ended, envVars, logVars>>

Cancel ==
  /\ pc = "await"
  /\ Goto("exit")
  /\ ended' = "cancelled"
  /\ complete' = FALSE
  /\ UNCHANGED <<vars, next_ms, timer, stop, envVars, runs, dones, errors, failures, lag>>

Arrive(d) ==
  /\ arrivals < MaxArrivals /\ Len(inbox) < InboxMax
  /\ inbox' = Append(inbox, d)
  /\ arrivals' = arrivals + 1
  /\ UNCHANGED <<vars, loopVars, logVars>>

(* A millisecond of the wait; or one in which the coroutine is at work, or *)
(* kept from running by the tasks it shares the thread with, or not called *)
TimePasses ==
  /\ IF pc = "await" /\ timer > 0
     THEN timer' = timer - 1 /\ lag' = lag
     ELSE lag < MaxLag /\ lag' = lag + 1 /\ timer' = timer
  /\ Tick
  /\ UNCHANGED <<pc, hook, resume, next_ms, stop, ended, envVars,
                 runs, dones, errors, failures, complete>>

LoopNext ==
  \/ Run \/ Loop \/ RecvNothing \/ RecvFails \/ HookRaises
  \/ \E r \in Requests : UserSend(r)
  \/ SetStop \/ Cancel
  \/ \E d \in Datagrams : Arrive(d)
  \/ TimePasses

LoopSpec == LoopInit /\ [][LoopNext]_allVars

(* The event loop runs what is ready, and time passes.  Nothing is assumed *)
(* of other tasks, the user, the network or failures.                      *)
FairLoopSpec ==
  /\ LoopSpec
  /\ WF_allVars(Loop)
  /\ SF_allVars(TimePasses)

-----------------------------------------------------------------------------
(* on_done "exactly once, on every path out": an error of a hook or of     *)
(* submit and a cancel included; on_error for the errors and not for a     *)
(* cancel.                                                                 *)
DoneOncePerRun ==
  /\ dones = IF pc = "idle" THEN runs ELSE runs - 1
  /\ pc = "idle" => errors = failures

(* The docstring of the coroutine: it drives "until nothing is             *)
(* outstanding".  A run that ends so leaves nothing behind, whatever other *)
(* tasks sent while it awaited.                                            *)
CompleteMeansIdle == pc = "exit" /\ complete => live = <<>>

(* No exchange is due before the timer runs out, one that another task     *)
(* opened during the await included, however long step and on_expired took *)
(* before the wait was computed.                                           *)
NoOversleep ==
  pc = "await" /\ timer > 0 =>
    \A i \in DOMAIN live : clock + timer <= live[i].deadline

(* A run that nobody cancels still ends.  The comment on the wait says of  *)
(* a deadline that "a reached one polls and `step` retransmits on the next *)
(* turn", so every exchange is answered or expires.                        *)
RunEnds == (pc = "top") ~> (pc = "idle")
=============================================================================
