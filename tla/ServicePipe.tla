------------------------------ MODULE ServicePipe ------------------------------
(***************************************************************************)
(* The named pipe between the tray and the protection service: PipeServer  *)
(* (src/service/pipe_server.hpp), which the service polls once per         *)
(* iteration and which never waits, and the blocking client                *)
(* (src/ipc/client.cpp).  There is one pipe instance.  The operators are   *)
(* functions of the pipe's record p:                                       *)
(*                                                                         *)
(*   server   the instance as the kernel sees it: none, listening,         *)
(*            connected (to a client that may have closed since) or        *)
(*            disconnected (until the server listens again)                *)
(*   client   the tray's end: away, writing, reading, or cut by the server *)
(*   known, replied, age    connected_, replied_, time since connected_at_ *)
(*   inbox, outbox          the request and the answer not read yet        *)
(***************************************************************************)
EXTENDS Naturals

CONSTANTS
  Lease,     (* how long one connection may last                           *)
  NoAnswer   (* nothing to read for the client                             *)

Commands == {"Query", "RestoreNormalPower"}
NoRequest == "none"

(* An answer's flags, ERROR_RETRY (exhausted), whether its state is Armed  *)
(* and whether its trip count is news.                                     *)
Answers == [latched : BOOLEAN, ready : BOOLEAN, done : BOOLEAN,
            exhausted : BOOLEAN, armed : BOOLEAN, counted : BOOLEAN]

ASSUME PipeAssumption == Lease \in Nat \ {0} /\ NoAnswer \notin Answers

Pipes == [server : {"none", "listening", "connected", "disconnected"},
          client : {"away", "writing", "reading", "cut"},
          known : BOOLEAN, replied : BOOLEAN, age : 0 .. Lease,
          inbox : Commands \cup {NoRequest}, outbox : Answers \cup {NoAnswer}]

Instance(state, clientEnd) ==
  [server |-> state, client |-> clientEnd, known |-> FALSE, replied |-> FALSE,
   age |-> 0, inbox |-> NoRequest, outbox |-> NoAnswer]

Severed(p) == IF p.client = "away" THEN "away" ELSE "cut"

(* The server process, or its pipe, comes and goes.                        *)
Created(p)   == Instance("listening", p.client)
Destroyed(p) == Instance("none", Severed(p))

-----------------------------------------------------------------------------
(* The server. *)

(* Mutant of ResetConnection: an unread request outlives its connection.   *)
ResetConnectionKeepsRequest(p) ==
  IF p.known THEN [Instance("disconnected", Severed(p)) EXCEPT !.inbox = p.inbox] ELSE p

ResetConnection(p) ==
  IF p.known THEN Instance("disconnected", Severed(p)) ELSE p

(* Mutant of Accepted: a disconnected instance is not listened on again.   *)
AcceptedOnce(p) ==
  IF ~p.known /\ p.client \in {"writing", "reading"}
  THEN [p EXCEPT !.known = TRUE, !.age = 0] ELSE p

(* ConnectNamedPipe, which makes a disconnected instance listen.  It goes  *)
(* on failing (ERROR_NO_DATA) for a client that opened the instance and    *)
(* closed it before the server ever saw it.                                *)
Accepted(p) ==
  IF p.known THEN p
  ELSE IF p.server = "disconnected" THEN [p EXCEPT !.server = "listening"]
  ELSE IF p.client \in {"writing", "reading"} THEN [p EXCEPT !.known = TRUE, !.age = 0]
  ELSE p

(* Poll: the request it returns, and the pipe it leaves.                   *)
Readable(p) == p.known /\ p.age < Lease /\ p.inbox # NoRequest /\ ~p.replied

PolledRequest(p) ==
  IF Readable(Accepted(p)) THEN Accepted(p).inbox ELSE NoRequest

Polled(p) ==
  LET a == Accepted(p)
  IN  IF ~a.known THEN a
      ELSE IF Readable(a) THEN [a EXCEPT !.inbox = NoRequest]
      ELSE IF /\ a.age < Lease /\ a.inbox = NoRequest
              /\ a.client \in {"writing", "reading"} THEN a   (* ERROR_NO_DATA *)
      ELSE ResetConnection(a)

Reply(p, answer) ==
  IF ~p.known \/ p.replied THEN p
  ELSE IF p.client = "away" THEN ResetConnection(p)
  ELSE [p EXCEPT !.outbox = answer, !.replied = TRUE]

-----------------------------------------------------------------------------
(* The client: Send is CreateFile, WriteFile, ReadFile, CloseHandle.       *)

Open(p)           == [p EXCEPT !.server = "connected", !.client = "writing"]
Written(p, cmd)   == [p EXCEPT !.client = "reading", !.inbox = cmd]
Closed(p)         == [p EXCEPT !.client = "away", !.outbox = NoAnswer]

Answered(p) == p.client = "reading" /\ p.outbox # NoAnswer

(* The connection the server will never see: its client was gone before    *)
(* the next poll.                                                          *)
Wedged(p) == p.server = "connected" /\ p.client = "away" /\ ~p.known

Elapsed(p) == IF p.known /\ p.age < Lease THEN [p EXCEPT !.age = @ + 1] ELSE p
=============================================================================
