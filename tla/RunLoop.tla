------------------------------ MODULE RunLoop ------------------------------
(***************************************************************************)
(* What the run functions of all C drivers share (situc/codegen/c/         *)
(* driver.py and, over a ring, io_uring.py): the stop check, the turn that *)
(* calls `step`, the delivery of a datagram, the hooks and the one exit.   *)
(* ReadinessLoop adds the wait and the receive of the fd-based drivers,    *)
(* UringLoop those of the ring; each says what else a step here changes.   *)
(*                                                                         *)
(* The hooks are the user's code: while one runs the user may open another *)
(* exchange or ask the loop to stop, and the loop goes on with what it     *)
(* knew before the call.  Datagrams arrive, in any order, late, more than  *)
(* once or unasked for, whenever the loop is not looking.                  *)
(***************************************************************************)
EXTENDS DriveC, Sequences

CONSTANTS
  Floor,         \* the least wait in ms: 1 where 0 would block for ever
  SendingHooks,  \* the hooks in which the user opens exchanges
  InboxMax,      \* bound on datagrams the socket holds; more are lost
  MaxArrivals,   \* bound on datagrams that ever arrive
  MaxRuns,       \* bound on calls of the run function
  MaxLag         \* bound on the milliseconds that pass other than in a wait

ASSUME LoopAssumption ==
  /\ Floor \in {0, 1}
  /\ MaxLag \in Nat
  /\ None \notin Nat
  /\ SendingHooks \subseteq
       {"on_reply", "on_unmatched", "on_malformed", "on_expired"}

(* A datagram that is no reply: too short for the reply's view, or longer  *)
(* than the receive buffer.                                                *)
Malformed == "malformed"

Datagrams == Keys \cup {NoKey, Malformed}

VARIABLES
  pc,         \* where the loop is; "idle" when run is not being called
  hook,       \* the hook being called
  resume,     \* where the loop goes on when the hook returns
  diff,       \* milliseconds to the next deadline, as computed from `step`
  until,      \* true time at which the wait ends
  stop,       \* hooks->stop
  rc,         \* what run will return
  inbox,      \* datagrams in the socket
  arrivals,   \* history: datagrams that have arrived
  runs,       \* history: calls of run
  dones,      \* history: calls of on_done
  errors,     \* history: calls of on_error
  told,       \* history: sum of the counts given to on_expired
  lag,        \* history: milliseconds that passed other than in a wait
  finished    \* history: how the last run came to its exit

loopVars == <<pc, hook, resume, diff, until, stop, rc>>
envVars == <<inbox, arrivals>>
logVars == <<runs, dones, errors, told, lag, finished>>
allVars == <<vars, loopVars, envVars, logVars>>

LoopInit ==
  /\ Init
  /\ pc = "idle" /\ hook = "none" /\ resume = "top"
  /\ diff = 0 /\ until = 0 /\ stop = FALSE /\ rc = "ok"
  /\ inbox = <<>> /\ arrivals = 0
  /\ runs = 0 /\ dones = 0 /\ errors = 0 /\ told = 0 /\ lag = 0
  /\ finished = "none"

(* next_ms - now, as an int32_t *)
Signed(d) ==
  LET u == d % Modulus IN IF u < Modulus \div 2 THEN u ELSE u - Modulus

Wait(next) ==
  LET d == Signed(next - Now) IN IF d < Floor THEN Floor ELSE d

Call(h, then) == pc' = "hook" /\ hook' = h /\ resume' = then

Goto(p) == pc' = p /\ UNCHANGED <<hook, resume>>

(* The user calls run, having cleared `stop` since the last run or not *)
Run ==
  /\ pc = "idle" /\ runs < MaxRuns
  /\ runs' = runs + 1
  /\ stop' \in {stop, FALSE}
  /\ Goto("top")
  /\ rc' = "ok"
  /\ UNCHANGED <<vars, diff, until, envVars, dones, errors, told, lag, finished>>

Stopped ==
  /\ pc = "top" /\ stop
  /\ Goto("exit")
  /\ finished' = "stopped"
  /\ UNCHANGED <<vars, diff, until, stop, rc, envVars, runs, dones, errors, told,
                 lag>>

(* The turn: step, tell the user what expired, and then either leave, when *)
(* step said nothing was outstanding, or wait for the next deadline.       *)
TurnTruncatedFirst ==
  /\ pc = "top" /\ ~stop
  /\ DriveStep
  /\ LET next == Soonest(req', deadline')
         then == IF next = None THEN "exit" ELSE "wait"
         tells == next # None /\ ExpiredCount > 0
     IN /\ diff' = IF next = None THEN 0 ELSE Wait(next)
        /\ finished' = IF next = None THEN "complete" ELSE finished
        /\ IF tells THEN Call("on_expired", then) ELSE Goto(then)
        /\ told' = IF tells THEN told + ExpiredCount ELSE told
  /\ UNCHANGED <<until, stop, rc, envVars, runs, dones, errors, lag>>

Turn ==
  /\ pc = "top" /\ ~stop
  /\ DriveStep
  /\ LET next == Soonest(req', deadline')
         then == IF next = None THEN "exit" ELSE "wait"
     IN /\ diff' = IF next = None THEN 0 ELSE Wait(next)
        /\ finished' = IF next = None THEN "complete" ELSE finished
        /\ IF ExpiredCount > 0 THEN Call("on_expired", then) ELSE Goto(then)
  /\ told' = told + ExpiredCount
  /\ UNCHANGED <<until, stop, rc, envVars, runs, dones, errors, lag>>

(* The wait, or the receive, fails *)
Fail ==
  /\ Goto("exit")
  /\ rc' = "bounds" /\ finished' = "error"
  /\ UNCHANGED <<vars, diff, until, stop, envVars, runs, dones, errors, told,
                 lag>>

(* `deliver`: the datagram's view, on_message, and one hook for what it was *)
Deliver(d, then) ==
  \/ d = Malformed /\ Call("on_malformed", then) /\ UNCHANGED vars
  \/ /\ d # Malformed
     /\ OnMessage(d)
     /\ Call(IF answer'.res = "ok" THEN "on_reply" ELSE "on_unmatched", then)

HookReturn ==
  /\ pc = "hook"
  /\ pc' = resume /\ hook' = "none" /\ UNCHANGED resume
  /\ UNCHANGED <<vars, diff, until, stop, rc, envVars, logVars>>

(* The one exit: teardown, on_error where the run failed, and on_done *)
ExitSilently ==
  /\ pc = "exit"
  /\ Goto("idle")
  /\ errors' = IF rc = "ok" THEN errors ELSE errors + 1
  /\ dones' = IF rc = "ok" THEN dones + 1 ELSE dones
  /\ UNCHANGED <<vars, diff, until, stop, rc, envVars, runs, told, lag,
                 finished>>

Exit ==
  /\ pc = "exit"
  /\ Goto("idle")
  /\ errors' = IF rc = "ok" THEN errors ELSE errors + 1
  /\ dones' = dones + 1
  /\ UNCHANGED <<vars, diff, until, stop, rc, envVars, runs, told, lag,
                 finished>>

(* The user's code: before a run, and inside a hook *)
UserSend(r) ==
  /\ \/ pc = "idle" /\ runs < MaxRuns
     \/ pc = "hook" /\ hook \in SendingHooks
  /\ Send(r)
  /\ UNCHANGED <<loopVars, envVars, logVars>>

(* `stop` is set by a hook, or by a signal handler, which also ends a wait *)
(* that has begun.                                                         *)
SetStop(woken) ==
  /\ pc # "idle" /\ ~stop
  /\ stop' = TRUE
  /\ Goto(IF pc = "sleep" THEN woken ELSE pc)
  /\ UNCHANGED <<vars, diff, until, rc, envVars, logVars>>

(* The network *)
Arrive(d) ==
  /\ arrivals < MaxArrivals /\ Len(inbox) < InboxMax
  /\ inbox' = Append(inbox, d)
  /\ arrivals' = arrivals + 1
  /\ UNCHANGED <<vars, loopVars, logVars>>

(* A millisecond of the wait, or one in which the loop is at work, kept    *)
(* from running, or not being called.                                      *)
TimePasses ==
  /\ IF pc = "sleep" /\ clock < until THEN lag' = lag
     ELSE lag < MaxLag /\ lag' = lag + 1
  /\ Tick
  /\ UNCHANGED <<pend, answer, loopVars, envVars,
                 runs, dones, errors, told, finished>>

-----------------------------------------------------------------------------
(* on_done is "called exactly once, on every path out" of each run, and    *)
(* on_error before it exactly where the run fails.                         *)
DoneOncePerRun ==
  /\ dones = IF pc = "idle" THEN runs ELSE runs - 1
  /\ errors <= dones + 1
  /\ pc = "idle" /\ finished # "none" => (finished = "error" <=> rc = "bounds")

(* Every exchange that ran out of retries is counted to the user once, in  *)
(* this run or, after a stop, in a later one.                              *)
ExpiriesTold ==
  told = Cardinality({r \in Requests : state[r] = "expired"})

(* The comment on run: it drives "until nothing is outstanding, `stop` is  *)
(* set, or the loop fails".                                                *)
CompleteMeansIdle ==
  pc = "exit" /\ finished = "complete" => \A i \in Slots : req[i] = None
=============================================================================
