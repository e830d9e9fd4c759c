------------------------------ MODULE IrpService ------------------------------
(***************************************************************************)
(* What the drive client promises the RDP server, stated without the file *)
(* cache, the TDP requests or the continuation tables (spec section 4.5   *)
(* and the correlation rules of section 3).                               *)
(*                                                                         *)
(* The server submits IRPs, each under a completion id it does not reuse  *)
(* while the IRP is outstanding.  The client takes them in the order they *)
(* arrived.  Taking one either completes it at once, or leaves it waiting *)
(* on the browser, or, for a change notification only, parks it (it is    *)
(* never completed).  While an IRP waits on the browser, each answer       *)
(* either completes it or leaves it waiting.  A completion carries the     *)
(* response type of the IRP's MajorFunction and removes the IRP.  At any  *)
(* step the session may end with an error, after which nothing happens.   *)
(***************************************************************************)
EXTENDS Sequences, Functions, TLC

CONSTANTS
  Irps,           \* the IRPs the server may send; each has a cid and a major
  ResponseType    \* MajorFunction -> the response PDU type that answers it

VARIABLES
  queue,          \* IRPs submitted and not yet taken by the client, in order
  outstanding,    \* completion id -> IRP the server still awaits
  stage,          \* completion id -> "browser" or "parked", for IRPs taken
  done,           \* the completions written by the last step, as [cid, type]
  alive           \* FALSE once the session has ended

avars == <<queue, outstanding, stage, done, alive>>

\* Only a change notification may stay unanswered for good.
Parkable(irp) ==
  irp.major = "DIRECTORY_CONTROL" /\ irp.minor = "NOTIFY_CHANGE_DIRECTORY"

Submit ==
  /\ alive
  /\ \E irp \in Irps :
       /\ irp.cid \notin DOMAIN outstanding
       /\ queue' = Append(queue, irp)
       /\ outstanding' = (irp.cid :> irp) @@ outstanding
  /\ done' = {}
  /\ UNCHANGED <<stage, alive>>

\* The IRP of completion id c is answered, once, with its own type.
CompleteWith(c) ==
  /\ done' = {[cid |-> c, type |-> ResponseType[outstanding[c].major]]}
  /\ outstanding' = Restrict(outstanding, DOMAIN outstanding \ {c})
  /\ stage' = Restrict(stage, DOMAIN stage \ {c})

Take ==
  /\ alive /\ queue # <<>>
  /\ queue' = Tail(queue)
  /\ LET irp == Head(queue) IN
     \/ CompleteWith(irp.cid)
     \/ /\ stage' = (irp.cid :> "browser") @@ stage
        /\ done' = {}
        /\ UNCHANGED outstanding
     \/ /\ Parkable(irp)
        /\ stage' = (irp.cid :> "parked") @@ stage
        /\ done' = {}
        /\ UNCHANGED outstanding
  /\ UNCHANGED alive

BrowserAnswers ==
  /\ alive
  /\ \E c \in DOMAIN stage :
       /\ stage[c] = "browser"
       /\ \/ CompleteWith(c)
          \/ done' = {} /\ UNCHANGED <<outstanding, stage>>
  /\ UNCHANGED <<queue, alive>>

\* A handler returned an error: the session ends and its queue is dropped.
Abort ==
  /\ alive
  /\ alive' = FALSE
  /\ queue' = <<>> /\ stage' = <<>> /\ done' = {}
  /\ UNCHANGED outstanding

AInit ==
  /\ queue = <<>>
  /\ outstanding = <<>>
  /\ stage = <<>>
  /\ done = {}
  /\ alive = TRUE

ANext == Submit \/ Take \/ BrowserAnswers \/ Abort

ASpec == AInit /\ [][ANext]_avars

=============================================================================
