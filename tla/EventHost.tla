----------------------------- MODULE EventHost -----------------------------
(***************************************************************************)
(* What the Qt pump (situc/codegen/cpp/qt.py) and the Tokio loop           *)
(* (situc/codegen/rust/tokio_driver.py) have in common: both drive the     *)
(* machine of DriveOneTable from a socket and one timer.  Datagrams come   *)
(* late, twice, in any order or unasked for, whenever nobody looks.        *)
(***************************************************************************)
EXTENDS DriveOneTable, Sequences

CONSTANTS
  SendingHooks,  \* the hooks in which the user opens exchanges
  Opens,         \* the exchanges the user of a host may open
  InboxMax,      \* bound on datagrams the socket holds; more are lost
  MaxArrivals,   \* bound on datagrams that ever arrive
  MaxBegun,      \* bound on calls of `start`, or of the run function
  MaxLag         \* bound on the milliseconds that pass other than in a wait

ASSUME HostAssumption ==
  /\ Opens \subseteq Requests /\ MaxLag \in Nat
  /\ "none" \notin SendingHooks /\ None \notin Nat

(* A datagram that is no reply: too short for the reply's view, or longer  *)
(* than the receive buffer.                                                *)
Malformed == "malformed"

Datagrams == Keys \cup {NoKey, Malformed}

VARIABLES
  wake,       \* true time at which the timer fires, or None
  inbox,      \* datagrams in the socket
  arrivals,   \* history: datagrams that have arrived
  begun,      \* history: calls of `start`, or of the run function
  dones,      \* history: calls of on_done
  complete,   \* history: the last of them because nothing was outstanding
  lag         \* history: milliseconds that passed other than in a wait

socketVars == <<inbox, arrivals>>
hostVars == <<wake, inbox, arrivals, begun, dones, complete, lag>>

HostInit ==
  /\ Init
  /\ wake = None /\ inbox = <<>> /\ arrivals = 0
  /\ begun = 0 /\ dones = 0 /\ complete = FALSE /\ lag = 0

(* next_ms - now as an int32_t, and no less than zero *)
Delay(next) ==
  LET u == (next - Now) % Modulus IN IF u < Modulus \div 2 THEN u ELSE 0

(* The hook a datagram leads to, after on_message where it is a reply *)
Deliver(d, hook) ==
  \/ d = Malformed /\ hook = "on_malformed" /\ UNCHANGED vars
  \/ /\ d # Malformed
     /\ OnMessage(d)
     /\ hook = IF answer'.res = "ok" THEN "on_reply" ELSE "on_unmatched"

(* The network *)
Arrive(d) ==
  /\ arrivals < MaxArrivals /\ Len(inbox) < InboxMax
  /\ inbox' = Append(inbox, d)
  /\ arrivals' = arrivals + 1
  /\ UNCHANGED <<vars, wake, begun, dones, complete, lag>>

(* A millisecond of a wait, or one in which the host is at work, kept from *)
(* running, or not started.                                                *)
PassTime(waiting) ==
  /\ IF waiting /\ wake # None /\ clock < wake THEN lag' = lag
     ELSE lag < MaxLag /\ lag' = lag + 1
  /\ Tick
  /\ UNCHANGED <<answer, wake, socketVars, begun, dones, complete>>

-----------------------------------------------------------------------------
(* The timer is not set past the deadline of any exchange, but for time    *)
(* the host itself was kept from running.                                  *)
WakesInTime ==
  wake # None /\ \A i \in Slots :
    req[i] # None => wake <= lastTx[req[i]] + Timeout + lag

(* A host that ends because `step` said nothing was outstanding leaves no  *)
(* exchange open behind it, whatever the user did in the hooks before.     *)
CompleteStep == dones' > dones /\ complete' => \A i \in Slots : req'[i] = None

CompleteMeansIdle == [][CompleteStep]_<<vars, hostVars>>
=============================================================================
