------------------------------- MODULE QtPump -------------------------------
(***************************************************************************)
(* The Qt pump (situc/codegen/cpp/qt.py): a QSocketNotifier, a single-shot *)
(* QTimer and queued calls that drive the C++ machine inside the event     *)
(* loop of an application.                                                 *)
(*                                                                         *)
(* Everything runs on one thread, so what can interleave is what the stack *)
(* holds.  A handler of the pump calls a hook; the user's code in it may   *)
(* open exchanges, call `stop` and `start`, or (MayNest) run an event loop *)
(* of its own, which dispatches the pump's other handlers above it.  The   *)
(* stack holds one frame per handler that has called a hook.               *)
(***************************************************************************)
EXTENDS EventHost

CONSTANTS
  MayNest,   \* a hook may run an event loop
  MaxDepth   \* bound on the frames under which it is run

ASSUME PumpAssumption == MayNest \in BOOLEAN /\ MaxDepth \in Nat

VARIABLES
  finished,  \* finished_
  notifier,  \* the socket notifier is enabled
  queue,     \* queued calls: rearm, and the deletion of the pump
  stack,     \* handlers of the pump that have called a hook
  runner,    \* the pump belongs to the run function, which deletes it
  gone,      \* the pump is deleted
  reopened   \* history: calls of `start` on a pump that had finished

pumpVars == <<finished, notifier, queue, stack, runner, gone, reopened>>
allPumpVars == <<vars, hostVars, pumpVars>>

PumpInit ==
  /\ HostInit
  /\ finished = FALSE /\ notifier = FALSE
  /\ queue = <<>> /\ stack = <<>> /\ gone = FALSE /\ reopened = 0
  /\ runner \in BOOLEAN

(* A handler in `hook`, or in no hook, that goes on at `then`; next is the *)
(* interval to the next deadline, where it is past `step`.                 *)
Frame(hook, then, next) == [hook |-> hook, then |-> then, next |-> next]

Top == stack[Len(stack)]

Below == SubSeq(stack, 1, Len(stack) - 1)

Returning(then) == stack # <<>> /\ ~gone /\ Top.then = then

(* The event loop dispatches: the application's, or one in a hook *)
Dispatching ==
  /\ ~gone
  /\ \/ stack = <<>>
     \/ /\ MayNest /\ stack # <<>> /\ Len(stack) <= MaxDepth
        /\ Top.hook # "none"

(* The user's code runs: in the application's event loop, or in a hook *)
UserRuns ==
  /\ ~gone
  /\ stack # <<>> => Top.hook # "none"

(* `finish`, called over the frames `below` *)
FinishAgain(below, drained) ==
  /\ finished' = TRUE /\ notifier' = FALSE /\ wake' = None
  /\ dones' = dones + 1 /\ complete' = drained
  /\ stack' = Append(below, Frame("on_done", "done", None))

Finish(below, drained) ==
  IF finished
  THEN stack' = below /\ UNCHANGED <<finished, notifier, wake, dones, complete>>
  ELSE /\ finished' = TRUE /\ notifier' = FALSE /\ wake' = None
       /\ dones' = dones + 1 /\ complete' = drained
       /\ stack' = Append(below, Frame("on_done", "done", None))

(* `rearm`, called over the frames `below`, up to on_expired *)
Rearm(below) ==
  IF finished
  THEN stack' = below /\ UNCHANGED vars
  ELSE /\ DriveStep
       /\ LET next == Soonest(req', deadline')
              hook == IF ExpiredCount > 0 THEN "on_expired" ELSE "none"
          IN stack' = Append(below, Frame(hook, "stepped",
                               IF next = None THEN None ELSE Delay(next)))

(* `start`: arm the notifier and queue the first rearm.  The run function  *)
(* calls it once; the user calls it again when the pump has finished.      *)
Start ==
  /\ IF runner THEN begun = 0 /\ ~gone ELSE UserRuns
  /\ begun = 0 \/ finished
  /\ begun < MaxBegun
  /\ begun' = begun + 1
  /\ reopened' = IF finished THEN reopened + 1 ELSE reopened
  /\ finished' = FALSE /\ notifier' = TRUE
  /\ queue' = Append(queue, "rearm")
  /\ UNCHANGED <<vars, wake, socketVars, dones, complete, lag, stack, runner, gone>>

(* The descriptor cannot be made non-blocking.  The run function deletes   *)
(* the pump at once, and nothing of it is told to a hook.                  *)
StartFails ==
  /\ runner /\ begun = 0 /\ ~gone
  /\ gone' = TRUE
  /\ UNCHANGED <<vars, hostVars, finished, notifier, queue, stack, runner, reopened>>

Stop ==
  /\ ~runner /\ UserRuns
  /\ Finish(stack, FALSE)
  /\ UNCHANGED <<vars, socketVars, begun, lag, queue, runner, gone, reopened>>

(* A queued call is delivered *)
DispatchRearm ==
  /\ Dispatching /\ queue # <<>> /\ Head(queue) = "rearm"
  /\ queue' = Tail(queue)
  /\ Rearm(stack)
  /\ UNCHANGED <<hostVars, finished, notifier, runner, gone, reopened>>

DispatchDelete ==
  /\ Dispatching /\ queue # <<>> /\ Head(queue) = "delete"
  /\ queue' = Tail(queue)
  /\ gone' = TRUE /\ notifier' = FALSE /\ wake' = None
  /\ UNCHANGED <<vars, socketVars, begun, dones, complete, lag, finished, stack,
                 runner, reopened>>

OnDeadline ==
  /\ Dispatching /\ wake # None /\ clock >= wake
  /\ wake' = None
  /\ Rearm(stack)
  /\ UNCHANGED <<socketVars, begun, dones, complete, lag,
                 finished, notifier, queue, runner, gone, reopened>>

(* on_readable: disabled for the duration, one datagram, and its hook *)
OnReadable ==
  /\ Dispatching /\ notifier /\ inbox # <<>>
  /\ inbox' = Tail(inbox)
  /\ notifier' = FALSE
  /\ \E hook \in {"on_reply", "on_unmatched", "on_malformed"} :
       /\ Deliver(Head(inbox), hook)
       /\ stack' = Append(stack, Frame(hook, "received", None))
  /\ UNCHANGED <<wake, arrivals, begun, dones, complete, lag,
                 finished, queue, runner, gone, reopened>>

(* The receive fails: EINTR and EAGAIN change nothing, the rest ends it *)
ReceiveFails ==
  /\ Dispatching /\ notifier
  /\ notifier' = FALSE
  /\ stack' = Append(stack, Frame("on_error", "failed", None))
  /\ UNCHANGED <<vars, hostVars, finished, queue, runner, gone, reopened>>

(* on_readable goes on when the hook has returned *)
ReceivedDeaf ==
  /\ Returning("received")
  /\ Rearm(Below)
  /\ UNCHANGED <<hostVars, finished, notifier, queue, runner, gone, reopened>>

Received ==
  /\ Returning("received")
  /\ notifier' = (notifier \/ ~finished)
  /\ Rearm(Below)
  /\ UNCHANGED <<hostVars, finished, queue, runner, gone, reopened>>

Failed ==
  /\ Returning("failed")
  /\ Finish(Below, FALSE)
  /\ UNCHANGED <<vars, socketVars, begun, lag, queue, runner, gone, reopened>>

(* rearm goes on after on_expired: complete, or set the timer *)
Stepped ==
  /\ Returning("stepped")
  /\ LET next == Top.next IN
     IF next = None \/ finished THEN Finish(Below, TRUE)
     ELSE /\ wake' = clock + next
          /\ stack' = Below
          /\ UNCHANGED <<finished, notifier, dones, complete>>
  /\ UNCHANGED <<vars, socketVars, begun, lag, queue, runner, gone, reopened>>

(* on_done returns; the run function's has queued the deletion *)
Done ==
  /\ Returning("done")
  /\ stack' = Below
  /\ queue' = IF runner THEN Append(queue, "delete") ELSE queue
  /\ UNCHANGED <<vars, hostVars, finished, notifier, runner, gone, reopened>>

Pump ==
  \/ DispatchRearm \/ DispatchDelete \/ OnDeadline \/ OnReadable
  \/ Received \/ Failed \/ Stepped \/ Done

(* No exchange is opened under a hook that is not in SendingHooks, not in  *)
(* an on_done that `stop` calls there either.                              *)
PumpSend(r) ==
  /\ UserRuns
  /\ \A i \in DOMAIN stack : stack[i].hook \in SendingHooks
  /\ Send(r)
  /\ UNCHANGED <<hostVars, pumpVars>>

PumpTime == PassTime(stack = <<>> /\ queue = <<>>) /\ UNCHANGED pumpVars

PumpNext ==
  \/ Pump \/ Start \/ StartFails \/ Stop \/ ReceiveFails
  \/ \E r \in Opens : PumpSend(r)
  \/ \E d \in Datagrams : Arrive(d) /\ UNCHANGED pumpVars
  \/ PumpTime

PumpSpec == PumpInit /\ [][PumpNext]_allPumpVars

-----------------------------------------------------------------------------
(* A pump that was started and has not finished is never left deaf: when   *)
(* the event loop is back in its own hands the notifier is on, and a rearm *)
(* is queued or the timer runs to no later than the earliest deadline,     *)
(* whatever the hooks sent, stopped and started meanwhile.                 *)
Watching ==
  begun > 0 /\ ~finished /\ ~gone /\ stack = <<>> =>
    /\ notifier
    /\ WakesInTime \/ \E i \in DOMAIN queue : queue[i] = "rearm"

(* on_done is called "exactly once, on every path out, `stop()` included": *)
(* once for each time the pump has been made to run, and only when it      *)
(* finishes, although every path out may meet another in a hook.           *)
PumpDone == dones = reopened + IF finished THEN 1 ELSE 0

(* "Delete this pump once the current emission has unwound": when the pump *)
(* is deleted no handler of it is on the stack.                            *)
DeletedUnwound == gone => stack = <<>>

(* A pump that was started finishes *)
PumpEnds == (begun > 0 /\ ~gone) ~> (finished \/ gone)
=============================================================================
