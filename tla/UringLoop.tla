----------------------------- MODULE UringLoop -----------------------------
(***************************************************************************)
(* The run function of the io_uring C driver                               *)
(* (situc/codegen/c/io_uring.py).  An operation is published on the        *)
(* submission ring by `prep` and taken by the kernel when io_uring_enter   *)
(* is told to submit, oldest first and no more than it is told.  The       *)
(* retransmissions of `step` and the user's sends each publish one SEND    *)
(* and submit one operation; the wait submits one where this turn          *)
(* published a RECV.  Receiving goes through the one buffer of the context *)
(* and is tracked by recv_posted, which outlives the run.                  *)
(*                                                                         *)
(* A SEND's completion is reaped and ignored, so here it is only one of    *)
(* the reasons for which a wait may end at any time.                       *)
(***************************************************************************)
EXTENDS RunLoop

CONSTANTS
  EnterFails,  \* TRUE: io_uring_enter may fail to submit
  TearsDown    \* TRUE: the user tears the ring down, as the header says to,
               \* once a run has left nothing outstanding

RecvOp == "recv"

ASSUME UringAssumption ==
  /\ EnterFails \in BOOLEAN /\ TearsDown \in BOOLEAN
  /\ RecvOp \notin Requests

(* What a RECV completes with: a datagram, EINTR or EAGAIN, or an error *)
Completions == Datagrams \cup {"again", "error"}

VARIABLES
  sq,          \* operations published and not taken by the kernel
  toSubmit,    \* to_submit
  recvPosted,  \* ctx->recv_posted
  recvs,       \* RECVs in the kernel's hands
  cq,          \* completions of RECVs not reaped yet
  wire,        \* history: how often each request's SEND reached the kernel
  clean        \* history: no enter has failed to submit, and no run has left
               \* an operation on the submission ring

ringVars == <<sq, toSubmit, recvPosted, recvs, cq, wire, clean>>
uringVars == <<allVars, ringVars>>

UringInit ==
  /\ LoopInit
  /\ sq = <<>> /\ toSubmit = 0 /\ recvPosted = FALSE
  /\ recvs = 0 /\ cq = <<>>
  /\ wire = [r \in Requests |-> 0]
  /\ clean = TRUE

Count(op, ops) == Cardinality({k \in DOMAIN ops : ops[k] = op})

(* The kernel takes the n oldest operations of q *)
Submit(q, n) ==
  LET taken == SubSeq(q, 1, n) IN
  /\ sq' = SubSeq(q, n + 1, Len(q))
  /\ recvs' = recvs + Count(RecvOp, taken)
  /\ wire' = [r \in Requests |-> wire[r] + Count(r, taken)]

(* How many of n calls of io_uring_enter submit their operation *)
Taken(n) == IF EnterFails THEN 0 .. n ELSE {n}

(* The one sequence of what `step` retransmits, in the order of the slots *)
Resent ==
  LET slots == {i \in Slots : Submits(i)}
      orders == {o \in [1 .. Cardinality(slots) -> slots] :
                   \A j, k \in DOMAIN o : j < k => o[j] < o[k]}
  IN {[k \in DOMAIN o |-> req[o[k]]] : o \in orders}

PostsRecvAgain == TRUE

PostsRecv == ~recvPosted

(* The turn: publish a RECV where none is posted, then step *)
UringTurn ==
  /\ Turn
  /\ LET posts == IF PostsRecv THEN <<RecvOp>> ELSE <<>>
     IN /\ toSubmit' = Len(posts)
        /\ \E sends \in Resent : \E n \in Taken(Len(sends)) :
             /\ Submit(sq \o posts \o sends, n)
             /\ clean' = (clean /\ n = Len(sends))
  /\ recvPosted' = TRUE
  /\ UNCHANGED cq

WaitSubmitsNothing == 0

WaitSubmits == IF toSubmit < Len(sq) THEN toSubmit ELSE Len(sq)

UringWait ==
  /\ pc = "wait"
  /\ Goto("sleep")
  /\ until' = clock + diff
  /\ Submit(sq, WaitSubmits)
  /\ UNCHANGED <<vars, diff, stop, rc, envVars, logVars,
                 toSubmit, recvPosted, cq, clean>>

UringFailed ==
  /\ EnterFails /\ pc = "wait"
  /\ Fail
  /\ clean' = FALSE
  /\ UNCHANGED <<sq, toSubmit, recvPosted, recvs, cq, wire>>

(* The wait ends: a completion, the deadline (ETIME), or a signal (EINTR) *)
UringWake ==
  /\ pc = "sleep"
  /\ Goto("reap")
  /\ UNCHANGED <<vars, diff, until, stop, rc, envVars, logVars, ringVars>>

(* One RECV completion.  An error is remembered and ends the loop once the *)
(* ring is reaped; EINTR and EAGAIN only have the RECV posted again.       *)
Reap ==
  /\ pc = "reap" /\ cq # <<>>
  /\ cq' = Tail(cq)
  /\ recvPosted' = FALSE
  /\ \/ /\ Head(cq) \in Datagrams
        /\ Deliver(Head(cq), "reap")
        /\ UNCHANGED <<rc, finished>>
     \/ /\ Head(cq) = "again"
        /\ UNCHANGED <<vars, pc, hook, resume, rc, finished>>
     \/ /\ Head(cq) = "error"
        /\ rc' = "bounds" /\ finished' = "error"
        /\ UNCHANGED <<vars, pc, hook, resume>>
  /\ UNCHANGED <<diff, until, stop, envVars, runs, dones, errors, told, lag,
                 sq, toSubmit, recvs, wire, clean>>

Reaped ==
  /\ pc = "reap" /\ cq = <<>>
  /\ Goto(IF rc = "ok" THEN "top" ELSE "exit")
  /\ UNCHANGED <<vars, diff, until, stop, rc, envVars, logVars, ringVars>>

UringExit ==
  /\ Exit
  /\ clean' = (clean /\ sq = <<>>)
  /\ UNCHANGED <<sq, toSubmit, recvPosted, recvs, cq, wire>>

(* The ring is there: no run has used it, or one left exchanges open on it *)
RingUp == TearsDown => runs = 0 \/ pc # "idle" \/ \E i \in Slots : req[i] # None

(* submit, called by the user's send: the SEND, and one operation taken.   *)
(* An enter that is interrupted or takes none is ok to submit all the same.*)
UringSend(r) ==
  /\ RingUp
  /\ UserSend(r)
  /\ \/ /\ state'[r] = "idle"
        /\ UNCHANGED ringVars
     \/ /\ state'[r] = "open"
        /\ \E n \in Taken(1) :
             /\ answer'.res = "io" => n = 0
             /\ Submit(Append(sq, r), n)
             /\ clean' = (clean /\ n = 1)
        /\ UNCHANGED <<toSubmit, recvPosted, cq>>

(* The kernel completes a RECV *)
KernelRecv ==
  /\ recvs > 0 /\ inbox # <<>>
  /\ inbox' = Tail(inbox)
  /\ cq' = Append(cq, Head(inbox))
  /\ recvs' = recvs - 1
  /\ UNCHANGED <<vars, loopVars, arrivals, logVars,
                 sq, toSubmit, recvPosted, wire, clean>>

KernelRecvFails ==
  /\ recvs > 0
  /\ \E e \in {"again", "error"} : cq' = Append(cq, e)
  /\ recvs' = recvs - 1
  /\ UNCHANGED <<vars, loopVars, envVars, logVars,
                 sq, toSubmit, recvPosted, wire, clean>>

UringNext ==
  \/ RingUp /\ Run /\ UNCHANGED ringVars
  \/ Stopped /\ UNCHANGED ringVars
  \/ UringTurn
  \/ UringWait
  \/ UringFailed
  \/ UringWake
  \/ Reap
  \/ Reaped
  \/ HookReturn /\ UNCHANGED ringVars
  \/ UringExit
  \/ \E r \in Requests : UringSend(r)
  \/ SetStop("reap") /\ UNCHANGED ringVars
  \/ KernelRecv
  \/ KernelRecvFails
  \/ \E d \in Datagrams : Arrive(d) /\ UNCHANGED ringVars
  \/ TimePasses /\ UNCHANGED ringVars

UringSpec == UringInit /\ [][UringNext]_uringVars

-----------------------------------------------------------------------------
(* The context has one receive buffer.  While a hook reads a datagram in   *)
(* it, no RECV is with the kernel that could overwrite it, and none can be *)
(* sent there by what the hook does: also when enter fails, when the loop  *)
(* was stopped, and in a later run on the same ring.                       *)
BufferOwned ==
  pc = "hook" /\ hook # "on_expired"
    => recvs = 0 /\ cq = <<>> /\ Count(RecvOp, sq) = 0

(* The comment in the loop: "Keep exactly one recv in flight; submit it    *)
(* with the wait".  So it is, and nothing else waits to be submitted,      *)
(* while every enter submits and no run has left an operation behind.      *)
OneRecvInFlight ==
  pc = "sleep" /\ clean => recvs + Len(cq) = 1 /\ sq = <<>>

(* The comment on submit: "enqueue a SEND and submit it".  Whatever the    *)
(* machine handed to submit has reached the kernel when the loop waits.    *)
SendsSubmitted == pc = "sleep" => \A r \in Requests : wire[r] = sent[r]
=============================================================================
