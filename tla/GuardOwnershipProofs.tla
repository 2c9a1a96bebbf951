-------------------------- MODULE GuardOwnershipProofs --------------------------
(***************************************************************************)
(* Theorems about GuardOwnership, for every length of the connection lease *)
(* and of the restore budget, both kinds of configuration, any number of   *)
(* nested prompts, and with or without failing registry writes:            *)
(*                                                                         *)
(*   who may write to the card (Ownership), what becomes of a recorded     *)
(*   trip (LatchIsKept), and what the service, the pipe and the tray know  *)
(*   of one conversation at a time (Conversation).                         *)
(***************************************************************************)
EXTENDS GuardOwnership, SequenceTheorems, TLAPS

(* The lease is its owner's until the owner is gone: the service gives it  *)
(* back last, the local worker with its thread.                            *)
Ownership ==
  /\ OneWriter
  /\ guard["service"].pc = "closing" => lease = "service"
  /\ guard["local"].pc # "closing"

(* A recorded trip is in the registry, no guard that released its latch    *)
(* still has to say so there, and what a guard records it also holds.      *)
LatchIsKept ==
  /\ LatchHeld
  /\ held => storedLatch
  /\ \A g \in Guards :
       /\ guard[g].pc \in {"autoSave", "manualSave"} => ~held
       /\ guard[g].pc \in {"bootWrite", "bootSave", "trip", "tripSave", "retrySave"}
            => guard[g].latched

(* The pipe's one instance: a connection is a clean slate, a request is    *)
(* answered at most once, and an answer is there for its reader only.      *)
PipeInOrder(p) ==
  /\ p.server # "connected" =>
       /\ ~p.known /\ ~p.replied
       /\ p.inbox = NoRequest /\ p.outbox = NoAnswer
       /\ p.client \in {"away", "cut"}
  /\ p.client = "cut" => p.server # "connected"
  /\ p.client = "writing" => p.inbox = NoRequest /\ ~p.replied
  /\ p.inbox # NoRequest => ~p.replied
  /\ p.outbox # NoAnswer => p.replied /\ p.client = "reading" /\ p.inbox = NoRequest

(* The request being served is the only one there is, and there is no pipe *)
(* while there is no service.                                              *)
Serving == request.command # NoRequest

ServedAlone ==
  /\ guard["service"].pc \in {"off", "boot", "bootWrite", "closing"} => pipe.server = "none"
  /\ IF Serving
     THEN /\ guard["service"].pc \in {"manual", "manualSave", "manualFallback", "reply"}
          /\ pipe.server = "connected" /\ pipe.known /\ ~pipe.replied
          /\ pipe.inbox = NoRequest /\ pipe.client \in {"reading", "away"}
     ELSE request = NotServing /\ guard["service"].pc # "reply"
  /\ guard["service"].pc \in {"manualSave", "manualFallback"}
       => request.command = "RestoreNormalPower"
  /\ request.outcome = "done" => request.command = "RestoreNormalPower"

(* The UI thread is at one end of a connection while it talks, and what    *)
(* lies in the pipe or is being served then is what it asked.              *)
TalksAlone ==
  /\ ui.at = "talk" <=> pipe.client # "away"
  /\ ui.at = "join" => ui.answer \in Answers
  /\ ui.command # "Query" => ui.at \in {"open", "talk"}
  /\ pipe.client = "reading" =>
       /\ pipe.inbox \in {NoRequest, ui.command}
       /\ request.command \in {NoRequest, ui.command}

(* A request for a restore that nobody executed yet stands for a YES; the  *)
(* one that a dead tray left behind is over before the next tray asks the  *)
(* user.                                                                   *)
NoServicePrompt(prompts) == \A i \in 1 .. Len(prompts) : prompts[i] # "service"

Pending == "RestoreNormalPower" \in {pipe.inbox, request.command}

YesIsUsedOnce ==
  /\ \/ pipe.inbox = "RestoreNormalPower"
     \/ request.command = "RestoreNormalPower" /\ guard["service"].pc = "manual"
     \/ /\ ui.command = "RestoreNormalPower"
        /\ ui.at = "open" \/ pipe.client = "writing"
     => consent = "given"
  /\ Pending /\ pipe.client = "away" =>
       /\ ui.command = "Query" /\ ui.at # "join"
       /\ NoServicePrompt(modals)

(* The verdict on a request for a restore is the truth about the YES, in   *)
(* the service and on its way back.                                        *)
VerdictIsTrue ==
  /\ /\ request.command = "RestoreNormalPower"
     /\ guard["service"].pc \in {"manualSave", "manualFallback", "reply"}
     => (request.outcome = "done" <=> consent = "done")
  /\ pipe.outbox # NoAnswer =>
       IF ui.command = "Query" THEN ~pipe.outbox.done
       ELSE pipe.outbox.done <=> consent = "done"

Conversation ==
  /\ PipeInOrder(pipe) /\ ServedAlone /\ TalksAlone /\ YesIsUsedOnce /\ VerdictIsTrue

IInv == TypeOK /\ Ownership /\ LatchIsKept /\ Conversation

(* A guard that does not run.                                              *)
LEMMA IdleType ==
  /\ Idle \in Loop /\ Idle.pc = "off"
  /\ [Idle EXCEPT !.pc = "closing"] \in Loop /\ [Idle EXCEPT !.pc = "closing"].pc = "closing"
<1>1. 0 \in 0 .. MaxAttempts /\ {"off", "closing"} \subseteq Stages
  BY OwnershipAssumption DEF Stages
<1>2. Idle \in Loop /\ Idle.pc = "off"
  BY <1>1 DEF Idle, Loop
<1>3. /\ [Idle EXCEPT !.pc = "closing"] \in Loop
      /\ [Idle EXCEPT !.pc = "closing"].pc = "closing"
  BY <1>1, <1>2 DEF Loop
<1> QED  BY <1>2, <1>3

-----------------------------------------------------------------------------
(* The pipe.                                                               *)

LEMMA CreatedSound ==
  ASSUME NEW p \in Pipes, PipeInOrder(p), p.server # "connected"
  PROVE  /\ Created(p) \in Pipes /\ PipeInOrder(Created(p))
         /\ Created(p).client = p.client /\ Created(p).inbox = NoRequest
         /\ Created(p).outbox = NoAnswer /\ p.inbox = NoRequest
BY PipeAssumption DEF Created, Instance, Pipes, PipeInOrder

LEMMA DestroyedSound ==
  ASSUME NEW p \in Pipes, PipeInOrder(p)
  PROVE  /\ Destroyed(p) \in Pipes /\ PipeInOrder(Destroyed(p))
         /\ Destroyed(p).client = IF p.client = "away" THEN "away" ELSE "cut"
         /\ Destroyed(p).inbox = NoRequest /\ Destroyed(p).outbox = NoAnswer
         /\ Destroyed(p).server = "none"
BY PipeAssumption DEF Destroyed, Severed, Instance, Pipes, PipeInOrder

LEMMA ResetConnectionSound ==
  ASSUME NEW p \in Pipes, PipeInOrder(p), p.known
  PROVE  /\ ResetConnection(p) \in Pipes /\ PipeInOrder(ResetConnection(p))
         /\ ResetConnection(p).client = IF p.client = "away" THEN "away" ELSE "cut"
         /\ ResetConnection(p).inbox = NoRequest /\ ResetConnection(p).outbox = NoAnswer
         /\ ResetConnection(p).server = "disconnected"
BY PipeAssumption DEF ResetConnection, Severed, Instance, Pipes, PipeInOrder

LEMMA AcceptedSound ==
  ASSUME NEW p \in Pipes, PipeInOrder(p)
  PROVE  /\ Accepted(p) \in Pipes /\ PipeInOrder(Accepted(p))
         /\ Accepted(p).client = p.client /\ Accepted(p).inbox = p.inbox
         /\ Accepted(p).outbox = p.outbox
         /\ Accepted(p).server = "none" <=> p.server = "none"
<1> DEFINE listening == [p EXCEPT !.server = "listening"]
           known     == [p EXCEPT !.known = TRUE, !.age = 0]
<1>1. CASE Accepted(p) = p
  BY <1>1
<1>2. CASE Accepted(p) = listening /\ p.server = "disconnected"
  <2>1. /\ listening \in Pipes /\ listening.client = p.client /\ listening.inbox = p.inbox
        /\ listening.outbox = p.outbox /\ listening.server = "listening"
        /\ listening.known = p.known /\ listening.replied = p.replied
    BY DEF Pipes
  <2> HIDE DEF listening
  <2> QED  BY <1>2, <2>1 DEF PipeInOrder
<1>3. CASE Accepted(p) = known /\ p.client \in {"writing", "reading"}
  <2>0. 0 \in 0 .. Lease
    BY PipeAssumption
  <2>1. /\ known \in Pipes /\ known.client = p.client /\ known.inbox = p.inbox
        /\ known.outbox = p.outbox /\ known.server = p.server
        /\ known.known /\ known.replied = p.replied
    BY <2>0 DEF Pipes
  <2> HIDE DEF known
  <2>2. p.server = "connected"
    BY <1>3 DEF PipeInOrder
  <2> QED  BY <1>3, <2>1, <2>2 DEF PipeInOrder
<1> QED  BY <1>1, <1>2, <1>3 DEF Accepted

(* A poll hands out the request of a connection that was not answered yet, *)
(* or nothing; then it may have ended the connection.                      *)
LEMMA PolledSound ==
  ASSUME NEW p \in Pipes, PipeInOrder(p)
  PROVE  /\ Polled(p) \in Pipes /\ PipeInOrder(Polled(p))
         /\ Polled(p).server = "none" <=> p.server = "none"
         /\ PolledRequest(p) \in Commands \cup {NoRequest}
         /\ PolledRequest(p) # NoRequest =>
              /\ PolledRequest(p) = p.inbox
              /\ Polled(p).server = "connected" /\ Polled(p).known /\ ~Polled(p).replied
              /\ Polled(p).inbox = NoRequest /\ Polled(p).outbox = NoAnswer
              /\ Polled(p).client = p.client /\ p.client \in {"reading", "away"}
         /\ PolledRequest(p) = NoRequest =>
              /\ Polled(p).inbox \in {p.inbox, NoRequest}
              /\ Polled(p).outbox \in {p.outbox, NoAnswer}
              /\ \/ Polled(p).client = p.client
                 \/ Polled(p).client = "cut" /\ p.client # "away"
<1> DEFINE a == Accepted(p)
<1>1. /\ a \in Pipes /\ PipeInOrder(a)
      /\ a.client = p.client /\ a.inbox = p.inbox /\ a.outbox = p.outbox
      /\ a.server = "none" <=> p.server = "none"
  BY AcceptedSound
<1>2. /\ PolledRequest(p) = IF Readable(a) THEN a.inbox ELSE NoRequest
      /\ Polled(p) = IF ~a.known THEN a
                     ELSE IF Readable(a) THEN [a EXCEPT !.inbox = NoRequest]
                     ELSE IF /\ a.age < Lease /\ a.inbox = NoRequest
                             /\ a.client \in {"writing", "reading"} THEN a
                     ELSE ResetConnection(a)
  BY DEF PolledRequest, Polled
<1> HIDE DEF a
<1>3. CASE Readable(a)
  <2> DEFINE r == [a EXCEPT !.inbox = NoRequest]
  <2>1. /\ Polled(p) = r /\ PolledRequest(p) = a.inbox /\ a.inbox # NoRequest
        /\ a.known /\ ~a.replied
    BY <1>2, <1>3 DEF Readable
  <2>2. /\ r \in Pipes /\ r.server = a.server /\ r.client = a.client /\ r.known = a.known
        /\ r.replied = a.replied /\ r.inbox = NoRequest /\ r.outbox = a.outbox
    BY <1>1 DEF Pipes
  <2> HIDE DEF r
  <2>3. /\ a.server = "connected" /\ a.client \in {"reading", "away"} /\ a.outbox = NoAnswer
        /\ a.inbox \in Commands
    BY <1>1, <2>1 DEF PipeInOrder, Pipes
  <2>4. PipeInOrder(r)
    BY <2>1, <2>2, <2>3 DEF PipeInOrder
  <2> QED  BY <1>1, <2>1, <2>2, <2>3, <2>4
<1>4. CASE ~Readable(a) /\ Polled(p) = a
  BY <1>1, <1>2, <1>4
<1>5. CASE ~Readable(a) /\ Polled(p) = ResetConnection(a) /\ a.known
  BY <1>1, <1>2, <1>5, ResetConnectionSound DEF PipeInOrder
<1> QED  BY <1>2, <1>3, <1>4, <1>5

(* An answer reaches the client that waits for it, or ends the connection  *)
(* of one that is gone.                                                    *)
LEMMA ReplySound ==
  ASSUME NEW p \in Pipes, PipeInOrder(p), NEW answer \in Answers,
         p.server = "connected", p.known, ~p.replied, p.inbox = NoRequest,
         p.client \in {"reading", "away"}
  PROVE  /\ Reply(p, answer) \in Pipes /\ PipeInOrder(Reply(p, answer))
         /\ Reply(p, answer).client = p.client /\ Reply(p, answer).inbox = NoRequest
         /\ Reply(p, answer).server # "none"
         /\ Reply(p, answer).outbox \in {answer, NoAnswer}
<1>1. CASE p.client = "away"
  BY <1>1, ResetConnectionSound DEF Reply
<1>2. CASE p.client = "reading"
  BY <1>2 DEF Reply, Pipes, PipeInOrder
<1> QED  BY <1>1, <1>2

LEMMA OpenSound ==
  ASSUME NEW p \in Pipes, PipeInOrder(p), p.server = "listening"
  PROVE  /\ Open(p) \in Pipes /\ PipeInOrder(Open(p))
         /\ Open(p).client = "writing" /\ Open(p).inbox = NoRequest
         /\ Open(p).outbox = NoAnswer /\ Open(p).server # "none"
BY DEF Open, Pipes, PipeInOrder

LEMMA WrittenSound ==
  ASSUME NEW p \in Pipes, PipeInOrder(p), p.client = "writing", NEW cmd \in Commands
  PROVE  /\ Written(p, cmd) \in Pipes /\ PipeInOrder(Written(p, cmd))
         /\ Written(p, cmd).client = "reading" /\ Written(p, cmd).inbox = cmd
         /\ Written(p, cmd).outbox = NoAnswer /\ Written(p, cmd).server = p.server
BY DEF Written, Pipes, PipeInOrder

LEMMA ClosedSound ==
  ASSUME NEW p \in Pipes, PipeInOrder(p)
  PROVE  /\ Closed(p) \in Pipes /\ PipeInOrder(Closed(p))
         /\ Closed(p).client = "away" /\ Closed(p).inbox = p.inbox
         /\ Closed(p).outbox = NoAnswer /\ Closed(p).server = p.server
         /\ Closed(p).known = p.known /\ Closed(p).replied = p.replied
BY DEF Closed, Pipes, PipeInOrder

LEMMA PipeElapsedSound ==
  ASSUME NEW p \in Pipes, PipeInOrder(p)
  PROVE  /\ Elapsed(p) \in Pipes /\ PipeInOrder(Elapsed(p))
         /\ Elapsed(p).client = p.client /\ Elapsed(p).inbox = p.inbox
         /\ Elapsed(p).outbox = p.outbox /\ Elapsed(p).server = p.server
         /\ Elapsed(p).known = p.known /\ Elapsed(p).replied = p.replied
BY PipeAssumption DEF Elapsed, Pipes, PipeInOrder

-----------------------------------------------------------------------------
(* A guard starts.                                                         *)

(* The pipe a guard that starts leaves: the service's, once it listens.    *)
LEMMA ListensSound ==
  ASSUME IInv, NEW g \in Guards, guard[g].pc \in {"boot", "bootWrite"}, NEW pcNext
  PROVE  LET p == Listens(g, pcNext)
         IN  /\ p \in Pipes /\ PipeInOrder(p)
             /\ p.client = pipe.client /\ p.inbox = pipe.inbox /\ p.outbox = pipe.outbox
             /\ g = "local" \/ pcNext # "wait" => p = pipe
<1>1. pipe \in Pipes /\ PipeInOrder(pipe)
  BY DEF IInv, TypeOK, Conversation
<1>2. CASE g = "service" /\ pcNext = "wait"
  <2>1. pipe.server = "none" /\ pipe.outbox = NoAnswer
    BY <1>1, <1>2 DEF IInv, Conversation, ServedAlone, PipeInOrder
  <2> QED  BY <1>1, <1>2, <2>1, CreatedSound DEF Listens
<1>3. CASE ~(g = "service" /\ pcNext = "wait")
  BY <1>1, <1>3 DEF Listens, Guards
<1> QED  BY <1>2, <1>3

(* It takes the lease, and the latch it inherits.                          *)
LEMMA BootSound ==
  ASSUME IInv, NEW g \in Guards, Boot(g)
  PROVE  IInv'
<1>0. guard \in [Guards -> Loop] /\ guard[g] \in Loop /\ lease \in Guards \cup {"free"}
      /\ autoRestore \in BOOLEAN
  BY OwnershipAssumption DEF IInv, TypeOK
<1>a. Restored(g) \in BOOLEAN
  BY DEF Restored, Inherited, IInv, TypeOK
<1>b. guard[g].pc = "boot"
  BY DEF Boot
<1> DEFINE pcNext == IF Restored(g) THEN "bootWrite" ELSE "wait"
<1>c. pcNext \in Stages
  BY DEF Stages
<1>d. /\ guard' = [guard EXCEPT ![g].pc = pcNext, ![g].latched = Restored(g),
                                ![g].counted = Restored(g)]
      /\ pipe' = Listens(g, pcNext) /\ Acquired(g) /\ lease' = g
      /\ news' = (IF g = "local" THEN "none" ELSE news)
      /\ stale' = (IF g = "local" THEN storedLatch /\ ~Inherited(g) ELSE stale)
      /\ startLatch' = (startLatch /\ g = "service")
      /\ UNCHANGED <<storedLatch, request, tray, autoRestore, manualReq, held, consent,
                     sameLatch>>
  BY DEF Boot
<1>e. /\ pipe' \in Pipes /\ PipeInOrder(pipe')
      /\ pipe'.client = pipe.client /\ pipe'.inbox = pipe.inbox /\ pipe'.outbox = pipe.outbox
      /\ g = "local" \/ pcNext # "wait" => pipe' = pipe
  BY <1>b, <1>d, ListensSound
<1>f. /\ guard' \in [Guards -> Loop] /\ \A h \in Guards \ {g} : guard'[h] = guard[h]
      /\ guard'[g].pc = pcNext /\ guard'[g].latched = Restored(g)
  BY <1>0, <1>a, <1>c, <1>d DEF Loop
<1>1. /\ guard' \in [Guards -> Loop] /\ \A h \in Guards \ {g} : guard'[h] = guard[h]
      /\ guard[g].pc = "boot" /\ lease = "free" /\ lease' = g
      /\ guard'[g].pc = IF guard'[g].latched THEN "bootWrite" ELSE "wait"
      /\ guard'[g].latched <=> IF g = "service" THEN storedLatch ELSE startLatch
      /\ pipe' \in Pipes /\ PipeInOrder(pipe')
      /\ pipe'.client = pipe.client /\ pipe'.inbox = pipe.inbox /\ pipe'.outbox = pipe.outbox
      /\ g = "local" \/ guard'[g].latched => pipe' = pipe
      /\ news' \in {news, "none"} /\ startLatch' \in BOOLEAN
      /\ stale' \in BOOLEAN /\ stale' = IF g = "local" THEN storedLatch /\ ~startLatch ELSE stale
      /\ UNCHANGED <<storedLatch, request, ui, connected, gate, modals, autoRestore,
                     manualReq, held, consent, sameLatch>>
  BY <1>a, <1>b, <1>d, <1>e, <1>f DEF Acquired, Restored, Inherited, tray, IInv, TypeOK
<1>2. TypeOK'
  BY <1>1 DEF IInv, TypeOK
<1>3. Ownership' /\ LatchIsKept'
  BY <1>1 DEF IInv, Ownership, OneWriter, InLoop, LatchIsKept, LatchHeld, Guards
<1>4. PipeInOrder(pipe)' /\ ServedAlone' /\ TalksAlone'
  BY <1>1 DEF IInv, Conversation, ServedAlone, TalksAlone, Serving, NotServing, NoRequest,
              Guards
<1>5. YesIsUsedOnce' /\ VerdictIsTrue'
  BY <1>1 DEF IInv, Conversation, ServedAlone, Serving, YesIsUsedOnce, VerdictIsTrue,
              Pending, NoRequest, Guards
<1> QED  BY <1>2, <1>3, <1>4, <1>5 DEF IInv, Conversation

(* It gives up.                                                            *)
LEMMA BootFailsSound ==
  ASSUME IInv, NEW g \in Guards, BootFails(g)
  PROVE  IInv'
<1>0. guard \in [Guards -> Loop] /\ guard[g] \in Loop /\ lease \in Guards \cup {"free"}
      /\ autoRestore \in BOOLEAN
  BY OwnershipAssumption DEF IInv, TypeOK
<1>1. /\ guard' \in [Guards -> Loop] /\ \A h \in Guards \ {g} : guard'[h] = guard[h]
      /\ guard[g].pc = "boot" /\ guard'[g].pc = "off"
      /\ startLatch' \in BOOLEAN /\ manualReq' \in BOOLEAN
      /\ UNCHANGED <<lease, pipe, request, ui, connected, gate, modals, autoRestore,
                     storedLatch, news, held, stale, consent, sameLatch>>
  BY <1>0, IdleType DEF BootFails, tray, observers, IInv, TypeOK
<1>2. TypeOK'
  BY <1>1 DEF IInv, TypeOK
<1>3. Ownership' /\ LatchIsKept'
  BY <1>1 DEF IInv, Ownership, OneWriter, InLoop, LatchIsKept, LatchHeld, Guards
<1>4. PipeInOrder(pipe)' /\ ServedAlone' /\ TalksAlone'
  BY <1>1 DEF IInv, Conversation, ServedAlone, TalksAlone, Serving, NotServing, NoRequest,
              Guards
<1>5. YesIsUsedOnce' /\ VerdictIsTrue'
  BY <1>1 DEF IInv, Conversation, ServedAlone, Serving, YesIsUsedOnce, VerdictIsTrue,
              Pending, NoRequest, Guards
<1> QED  BY <1>2, <1>3, <1>4, <1>5 DEF IInv, Conversation

(* It brings the card to the safe limit,                                   *)
LEMMA GuardBootWriteSound ==
  ASSUME IInv, NEW g \in Guards, NEW verified \in BOOLEAN, BootWrite(g, verified)
  PROVE  IInv'
<1>0. guard \in [Guards -> Loop] /\ guard[g] \in Loop /\ lease \in Guards \cup {"free"}
      /\ autoRestore \in BOOLEAN
  BY OwnershipAssumption DEF IInv, TypeOK
<1> DEFINE pcNext == IF verified /\ g = "local" THEN "bootSave" ELSE "wait"
<1>a. pcNext \in Stages
  BY DEF Stages
<1>b. /\ guard[g].pc = "bootWrite" /\ pipe' = Listens(g, pcNext)
      /\ guard' = [guard EXCEPT ![g].verified = verified, ![g].pc = pcNext]
      /\ UNCHANGED <<storedLatch, news, observers, lease, request, tray, autoRestore,
                     startLatch, manualReq>>
  BY DEF BootWrite
<1>c. /\ pipe' \in Pipes /\ PipeInOrder(pipe')
      /\ pipe'.client = pipe.client /\ pipe'.inbox = pipe.inbox /\ pipe'.outbox = pipe.outbox
      /\ g = "local" => pipe' = pipe
  BY <1>b, ListensSound
<1>d. /\ guard' \in [Guards -> Loop] /\ \A h \in Guards \ {g} : guard'[h] = guard[h]
      /\ guard'[g].pc = pcNext /\ guard'[g].latched = guard[g].latched
  BY <1>0, <1>a, <1>b DEF Loop
<1>1. /\ guard' \in [Guards -> Loop] /\ \A h \in Guards \ {g} : guard'[h] = guard[h]
      /\ guard[g].pc = "bootWrite" /\ guard'[g].pc \in {"bootSave", "wait"}
      /\ g = "service" => guard'[g].pc = "wait"
      /\ guard'[g].latched = guard[g].latched
      /\ pipe' \in Pipes /\ PipeInOrder(pipe')
      /\ pipe'.client = pipe.client /\ pipe'.inbox = pipe.inbox /\ pipe'.outbox = pipe.outbox
      /\ g = "local" => pipe' = pipe
      /\ UNCHANGED <<lease, request, ui, connected, gate, modals, autoRestore, storedLatch,
                     news, startLatch, manualReq, held, stale, consent, sameLatch>>
  BY <1>b, <1>c, <1>d DEF tray, observers, Guards
<1>2. TypeOK'
  BY <1>1 DEF IInv, TypeOK
<1>3. Ownership' /\ LatchIsKept'
  BY <1>1 DEF IInv, Ownership, OneWriter, InLoop, LatchIsKept, LatchHeld, Guards
<1>4. PipeInOrder(pipe)' /\ ServedAlone' /\ TalksAlone'
  BY <1>1 DEF IInv, Conversation, ServedAlone, TalksAlone, Serving, NotServing, NoRequest,
              Guards
<1>5. YesIsUsedOnce' /\ VerdictIsTrue'
  BY <1>1 DEF IInv, Conversation, ServedAlone, Serving, YesIsUsedOnce, VerdictIsTrue,
              Pending, NoRequest, Guards
<1> QED  BY <1>2, <1>3, <1>4, <1>5 DEF IInv, Conversation

-----------------------------------------------------------------------------
(* Reading, tripping and restoring.                                        *)

LEMMA AfterValues ==
  ASSUME autoRestore \in BOOLEAN, NEW g \in Guards
  PROVE  /\ After(g, "trip") \in {"auto", "retry", "manual"}
         /\ After(g, "auto") \in {"retry", "manual"}
         /\ After(g, "manual") = IF g = "service" THEN "reply" ELSE "retry"
         /\ After(g, "retry") \in {"manual", "wait"}
         /\ {"auto", "retry", "manual", "reply", "wait"} \subseteq Stages
BY DEF After, AfterAuto, Stages

(* and the local worker records that it did.                               *)
LEMMA GuardBootSaveSound ==
  ASSUME IInv, NEW g \in Guards, BootSave(g)
  PROVE  IInv'
<1>0. guard \in [Guards -> Loop] /\ guard[g] \in Loop /\ lease \in Guards \cup {"free"}
      /\ autoRestore \in BOOLEAN
  BY OwnershipAssumption DEF IInv, TypeOK
<1>1. /\ guard' \in [Guards -> Loop] /\ \A h \in Guards \ {g} : guard'[h] = guard[h]
      /\ guard[g].pc = "bootSave" /\ guard'[g].pc = "wait"
      /\ guard'[g].latched = guard[g].latched
      /\ storedLatch' \in BOOLEAN /\ held' \in BOOLEAN /\ held' = (held \/ storedLatch')
      /\ storedLatch => storedLatch'
      /\ UNCHANGED <<lease, pipe, request, ui, connected, gate, modals, autoRestore, startLatch,
                     manualReq, news, stale, consent, sameLatch>>
  BY <1>0 DEF BootSave, SaveSafeLatch, Elsewhere, tray, Loop, Stages, IInv, TypeOK
<1>2. TypeOK'
  BY <1>1 DEF IInv, TypeOK
<1>3. Ownership' /\ LatchIsKept'
  BY <1>1 DEF IInv, Ownership, OneWriter, InLoop, LatchIsKept, LatchHeld, Guards
<1>4. PipeInOrder(pipe)' /\ ServedAlone' /\ TalksAlone'
  BY <1>1 DEF IInv, Conversation, ServedAlone, TalksAlone, Serving, NotServing, NoRequest,
              Guards
<1>5. YesIsUsedOnce' /\ VerdictIsTrue'
  BY <1>1 DEF IInv, Conversation, ServedAlone, Serving, YesIsUsedOnce, VerdictIsTrue,
              Pending, NoRequest, Guards
<1> QED  BY <1>2, <1>3, <1>4, <1>5 DEF IInv, Conversation

(* A reading, and what the controller decides of it.                       *)
LEMMA ObserveSound ==
  ASSUME IInv, NEW g \in Guards,
         NEW seen \in BOOLEAN, NEW trips \in BOOLEAN, NEW ready \in BOOLEAN, Observe(g, seen,
         trips, ready)
  PROVE  IInv'
<1>0. guard \in [Guards -> Loop] /\ guard[g] \in Loop /\ lease \in Guards \cup {"free"}
      /\ autoRestore \in BOOLEAN
  BY OwnershipAssumption DEF IInv, TypeOK
<1> DEFINE s         == guard[g]
           reapplied == s.latched /\ seen /\ ~s.seen
           tripped   == trips /\ ~s.latched
           new       == [s EXCEPT !.seen = seen \/ ~s.latched]
           next      == IF reapplied THEN "trip"
                        ELSE IF new.latched THEN After(g, "trip") ELSE "manual"
           after     == IF tripped
                        THEN [new EXCEPT !.pc = "trip", !.latched = TRUE, !.ready = FALSE,
                                         !.attempts = 0, !.stopped = FALSE]
                        ELSE [new EXCEPT !.ready = ready, !.pc = next]
<1>a. /\ s.pc = "wait" /\ guard' = [guard EXCEPT ![g] = after]
      /\ sameLatch' = (sameLatch /\ ~tripped)
      /\ UNCHANGED <<Elsewhere, storedLatch, news, held, stale, consent>>
  BY DEF Observe
<1>b. new \in Loop /\ new.latched = s.latched
  BY <1>0 DEF Loop
<1> HIDE DEF new
<1>c. /\ next \in {"trip", "auto", "retry", "manual"} /\ next \in Stages
      /\ next = "trip" => s.latched
  BY <1>0, <1>b, AfterValues DEF Stages
<1> HIDE DEF next
<1>d. /\ after \in Loop /\ after.pc \in {"trip", "auto", "retry", "manual"}
      /\ s.latched => after.latched
      /\ after.pc = "trip" => after.latched
  <2>1. CASE tripped
    <3>1. 0 \in 0 .. MaxAttempts /\ "trip" \in Stages
      BY OwnershipAssumption DEF Stages
    <3> QED  BY <1>b, <2>1, <3>1 DEF Loop
  <2>2. CASE ~tripped
    BY <1>b, <1>c, <2>2 DEF Loop
  <2> QED  BY <2>1, <2>2
<1>e. sameLatch' \in BOOLEAN
  BY <1>a DEF IInv, TypeOK
<1> HIDE DEF after
<1>1. /\ guard' \in [Guards -> Loop] /\ \A h \in Guards \ {g} : guard'[h] = guard[h]
      /\ guard[g].pc = "wait" /\ guard'[g].pc \in {"trip", "auto", "retry", "manual"}
      /\ guard[g].latched => guard'[g].latched
      /\ guard'[g].pc = "trip" => guard'[g].latched
      /\ sameLatch' \in BOOLEAN
      /\ UNCHANGED <<lease, pipe, request, ui, connected, gate, modals, autoRestore, startLatch,
                     manualReq, storedLatch, news, held, stale, consent>>
  BY <1>0, <1>a, <1>d, <1>e DEF Elsewhere, tray
<1>2. TypeOK'
  BY <1>1 DEF IInv, TypeOK
<1>3. Ownership' /\ LatchIsKept'
  BY <1>1 DEF IInv, Ownership, OneWriter, InLoop, LatchIsKept, LatchHeld, Guards
<1>4. PipeInOrder(pipe)' /\ ServedAlone' /\ TalksAlone'
  BY <1>1 DEF IInv, Conversation, ServedAlone, TalksAlone, Serving, NotServing, NoRequest,
              Guards
<1>5. YesIsUsedOnce' /\ VerdictIsTrue'
  BY <1>1 DEF IInv, Conversation, ServedAlone, Serving, YesIsUsedOnce, VerdictIsTrue,
              Pending, NoRequest, Guards
<1> QED  BY <1>2, <1>3, <1>4, <1>5 DEF IInv, Conversation

(* The limit a trip calls for.                                             *)
LEMMA GuardApplySafePowerSound ==
  ASSUME IInv, NEW g \in Guards, NEW verified \in BOOLEAN, ApplySafePower(g, verified)
  PROVE  IInv'
<1>0. guard \in [Guards -> Loop] /\ guard[g] \in Loop /\ lease \in Guards \cup {"free"}
      /\ autoRestore \in BOOLEAN
  BY OwnershipAssumption DEF IInv, TypeOK
<1>1. /\ guard' \in [Guards -> Loop] /\ \A h \in Guards \ {g} : guard'[h] = guard[h]
      /\ guard[g].pc = "trip" /\ guard'[g].pc \in {"tripSave", "auto", "retry", "manual"}
      /\ guard'[g].latched = guard[g].latched
      /\ UNCHANGED <<lease, pipe, request, ui, connected, gate, modals, autoRestore, startLatch,
                     manualReq, storedLatch, news, held, stale, consent, sameLatch>>
  BY <1>0, AfterValues DEF ApplySafePower, Elsewhere, tray, observers, Loop, Stages
<1>2. TypeOK'
  BY <1>1 DEF IInv, TypeOK
<1>3. Ownership' /\ LatchIsKept'
  BY <1>1 DEF IInv, Ownership, OneWriter, InLoop, LatchIsKept, LatchHeld, Guards
<1>4. PipeInOrder(pipe)' /\ ServedAlone' /\ TalksAlone'
  BY <1>1 DEF IInv, Conversation, ServedAlone, TalksAlone, Serving, NotServing, NoRequest,
              Guards
<1>5. YesIsUsedOnce' /\ VerdictIsTrue'
  BY <1>1 DEF IInv, Conversation, ServedAlone, Serving, YesIsUsedOnce, VerdictIsTrue,
              Pending, NoRequest, Guards
<1> QED  BY <1>2, <1>3, <1>4, <1>5 DEF IInv, Conversation

(* The record of a safe limit that is known to hold.                       *)
LEMMA GuardRecordTripSound ==
  ASSUME IInv, NEW g \in Guards, RecordTrip(g)
  PROVE  IInv'
<1>0. guard \in [Guards -> Loop] /\ guard[g] \in Loop /\ lease \in Guards \cup {"free"}
      /\ autoRestore \in BOOLEAN
  BY OwnershipAssumption DEF IInv, TypeOK
<1>a. /\ news' \in {news, "counted"} /\ storedLatch' \in BOOLEAN /\ held' \in BOOLEAN
      /\ held' = (held \/ storedLatch') /\ (storedLatch => storedLatch')
  BY DEF RecordTrip, Record, SaveSafeLatch, IInv, TypeOK
<1>1. /\ guard' \in [Guards -> Loop] /\ \A h \in Guards \ {g} : guard'[h] = guard[h]
      /\ guard[g].pc = "tripSave" /\ guard'[g].pc \in {"auto", "retry", "manual"}
      /\ guard'[g].latched = guard[g].latched
      /\ news' \in {news, "counted"} /\ storedLatch' \in BOOLEAN /\ held' \in BOOLEAN
      /\ held' = (held \/ storedLatch') /\ (storedLatch => storedLatch')
      /\ UNCHANGED <<lease, pipe, request, ui, connected, gate, modals, autoRestore, startLatch,
                     manualReq, stale, consent, sameLatch>>
  BY <1>0, <1>a, AfterValues DEF RecordTrip, Record, Elsewhere, tray, Loop
<1>2. TypeOK'
  BY <1>1 DEF IInv, TypeOK
<1>3. Ownership' /\ LatchIsKept'
  BY <1>1 DEF IInv, Ownership, OneWriter, InLoop, LatchIsKept, LatchHeld, Guards
<1>4. PipeInOrder(pipe)' /\ ServedAlone' /\ TalksAlone'
  BY <1>1 DEF IInv, Conversation, ServedAlone, TalksAlone, Serving, NotServing, NoRequest,
              Guards
<1>5. YesIsUsedOnce' /\ VerdictIsTrue'
  BY <1>1 DEF IInv, Conversation, ServedAlone, Serving, YesIsUsedOnce, VerdictIsTrue,
              Pending, NoRequest, Guards
<1> QED  BY <1>2, <1>3, <1>4, <1>5 DEF IInv, Conversation

(* or later, by a check.                                                   *)
LEMMA GuardRecordRetrySound ==
  ASSUME IInv, NEW g \in Guards, RecordRetry(g)
  PROVE  IInv'
<1>0. guard \in [Guards -> Loop] /\ guard[g] \in Loop /\ lease \in Guards \cup {"free"}
      /\ autoRestore \in BOOLEAN
  BY OwnershipAssumption DEF IInv, TypeOK
<1>a. /\ news' \in {news, "counted"} /\ storedLatch' \in BOOLEAN /\ held' \in BOOLEAN
      /\ held' = (held \/ storedLatch') /\ (storedLatch => storedLatch')
  BY DEF RecordRetry, Record, SaveSafeLatch, IInv, TypeOK
<1>1. /\ guard' \in [Guards -> Loop] /\ \A h \in Guards \ {g} : guard'[h] = guard[h]
      /\ guard[g].pc = "retrySave" /\ guard'[g].pc \in {"manual", "wait"}
      /\ guard'[g].latched = guard[g].latched
      /\ news' \in {news, "counted"} /\ storedLatch' \in BOOLEAN /\ held' \in BOOLEAN
      /\ held' = (held \/ storedLatch') /\ (storedLatch => storedLatch')
      /\ UNCHANGED <<lease, pipe, request, ui, connected, gate, modals, autoRestore, startLatch,
                     manualReq, stale, consent, sameLatch>>
  BY <1>0, <1>a, AfterValues DEF RecordRetry, Record, Elsewhere, tray, Loop
<1>2. TypeOK'
  BY <1>1 DEF IInv, TypeOK
<1>3. Ownership' /\ LatchIsKept'
  BY <1>1 DEF IInv, Ownership, OneWriter, InLoop, LatchIsKept, LatchHeld, Guards
<1>4. PipeInOrder(pipe)' /\ ServedAlone' /\ TalksAlone'
  BY <1>1 DEF IInv, Conversation, ServedAlone, TalksAlone, Serving, NotServing, NoRequest,
              Guards
<1>5. YesIsUsedOnce' /\ VerdictIsTrue'
  BY <1>1 DEF IInv, Conversation, ServedAlone, Serving, YesIsUsedOnce, VerdictIsTrue,
              Pending, NoRequest, Guards
<1> QED  BY <1>2, <1>3, <1>4, <1>5 DEF IInv, Conversation

(* Nothing is restored.                                                    *)
LEMMA NoRestoreSound ==
  ASSUME IInv, NEW g \in Guards, NEW stage \in {"auto", "manual"}, NoRestore(g, stage)
  PROVE  IInv'
<1>0. guard \in [Guards -> Loop] /\ guard[g] \in Loop /\ lease \in Guards \cup {"free"}
      /\ autoRestore \in BOOLEAN
  BY OwnershipAssumption DEF IInv, TypeOK
<1>a. request \in Requests
  BY DEF IInv, TypeOK
<1>b. /\ request' \in Requests
      /\ IF g = "service" /\ stage = "manual"
         THEN /\ request'.command = request.command /\ request'.outcome \in {"refused", "none"}
              /\ request.command # NoRequest
         ELSE request' = request
  BY <1>0, <1>a DEF Requests, NoRestore, Outcome, Asked, MayRestore
<1>c. /\ guard' \in [Guards -> Loop] /\ \A h \in Guards \ {g} : guard'[h] = guard[h]
      /\ guard[g].pc = stage /\ guard'[g].pc = After(g, stage)
      /\ guard'[g].latched = guard[g].latched
  <2> DEFINE attempts == IF Asked(g) /\ stage = "manual" /\ g = "service" THEN 0
                         ELSE guard[g].attempts
             stopped  == guard[g].stopped /\ ~(Asked(g) /\ stage = "manual" /\ g = "service")
  <2>1. attempts \in 0 .. MaxAttempts /\ stopped \in BOOLEAN /\ After(g, stage) \in Stages
    BY <1>0, AfterValues, OwnershipAssumption DEF Attempts, Stopped, Loop
  <2>2. /\ guard[g].pc = stage
        /\ guard' = [guard EXCEPT ![g].pc = After(g, stage), ![g].attempts = attempts,
                                  ![g].stopped = stopped]
    BY <1>0 DEF NoRestore, Loop
  <2> HIDE DEF attempts, stopped
  <2> QED  BY <1>0, <2>1, <2>2 DEF Loop
<1>d. manualReq' \in BOOLEAN
  BY <1>0 DEF NoRestore, Consume, IInv, TypeOK
<1>1. /\ guard' \in [Guards -> Loop] /\ \A h \in Guards \ {g} : guard'[h] = guard[h]
      /\ guard[g].pc = stage
      /\ guard'[g].latched = guard[g].latched
      /\ guard'[g].pc = IF stage = "manual" /\ g = "service" THEN "reply" ELSE guard'[g].pc
      /\ g = "service" /\ stage = "auto" => guard'[g].pc \in {"retry", "manual"}
      /\ guard'[g].pc \in {"retry", "manual", "reply"}
      /\ request' \in Requests
      /\ IF g = "service" /\ stage = "manual"
         THEN /\ request'.command = request.command /\ request'.outcome \in {"refused", "none"}
              /\ request.command # NoRequest
         ELSE request' = request
      /\ manualReq' \in BOOLEAN
      /\ UNCHANGED <<lease, pipe, ui, connected, gate, modals, autoRestore, startLatch,
                     storedLatch, news, held, stale, consent, sameLatch>>
  BY <1>0, <1>b, <1>c, <1>d, AfterValues DEF NoRestore, tray, observers
<1>2. TypeOK'
  BY <1>1 DEF IInv, TypeOK
<1>3. Ownership' /\ LatchIsKept'
  BY <1>1 DEF IInv, Ownership, OneWriter, InLoop, LatchIsKept, LatchHeld, Guards
<1>4. PipeInOrder(pipe)' /\ ServedAlone' /\ TalksAlone'
  BY <1>1 DEF IInv, Conversation, ServedAlone, TalksAlone, Serving, NotServing, NoRequest,
              Guards
<1>5. YesIsUsedOnce' /\ VerdictIsTrue'
  BY <1>1 DEF IInv, Conversation, ServedAlone, Serving, YesIsUsedOnce, VerdictIsTrue,
              Pending, NoRequest, Guards
<1> QED  BY <1>2, <1>3, <1>4, <1>5 DEF IInv, Conversation

(* A restore is refused, or its offer taken back.                          *)
LEMMA RefuseRestoreSound ==
  ASSUME IInv, NEW g \in Guards, NEW stage \in {"auto", "manual"}, RefuseRestore(g, stage)
  PROVE  IInv'
<1>0. guard \in [Guards -> Loop] /\ guard[g] \in Loop /\ lease \in Guards \cup {"free"}
      /\ autoRestore \in BOOLEAN
  BY OwnershipAssumption DEF IInv, TypeOK
<1>a. request \in Requests
  BY DEF IInv, TypeOK
<1>b. /\ request' \in Requests
      /\ IF g = "service" /\ stage = "manual"
         THEN /\ request'.command = request.command /\ request'.outcome = "refused"
              /\ request.command = "RestoreNormalPower"
         ELSE request' = request
  BY <1>0, <1>a DEF Requests, RefuseRestore, Outcome, Asked, MayRestore
<1>c. /\ guard' \in [Guards -> Loop] /\ \A h \in Guards \ {g} : guard'[h] = guard[h]
      /\ guard[g].pc = stage /\ guard'[g].pc = After(g, stage)
      /\ guard'[g].latched = guard[g].latched
  <2> DEFINE attempts == Attempts(g, stage)
             stopped  == Stopped(g, stage)
  <2>1. attempts \in 0 .. MaxAttempts /\ stopped \in BOOLEAN /\ After(g, stage) \in Stages
    BY <1>0, AfterValues, OwnershipAssumption DEF Attempts, Stopped, Loop
  <2>2. /\ guard[g].pc = stage
        /\ guard' = [guard EXCEPT ![g].pc = After(g, stage), ![g].ready = FALSE,
                                  ![g].attempts = attempts,
                                  ![g].stopped = stopped]
    BY <1>0 DEF RefuseRestore, Loop
  <2> HIDE DEF attempts, stopped
  <2> QED  BY <1>0, <2>1, <2>2 DEF Loop
<1>d. manualReq' \in BOOLEAN
  BY <1>0 DEF RefuseRestore, Consume, IInv, TypeOK
<1>1. /\ guard' \in [Guards -> Loop] /\ \A h \in Guards \ {g} : guard'[h] = guard[h]
      /\ guard[g].pc = stage
      /\ guard'[g].latched = guard[g].latched
      /\ guard'[g].pc = IF stage = "manual" /\ g = "service" THEN "reply" ELSE guard'[g].pc
      /\ g = "service" /\ stage = "auto" => guard'[g].pc \in {"retry", "manual"}
      /\ guard'[g].pc \in {"retry", "manual", "reply"}
      /\ request' \in Requests
      /\ IF g = "service" /\ stage = "manual"
         THEN /\ request'.command = request.command /\ request'.outcome = "refused"
              /\ request.command = "RestoreNormalPower"
         ELSE request' = request
      /\ manualReq' \in BOOLEAN
      /\ UNCHANGED <<lease, pipe, ui, connected, gate, modals, autoRestore, startLatch,
                     storedLatch, news, held, stale, consent, sameLatch>>
  BY <1>0, <1>b, <1>c, <1>d, AfterValues DEF RefuseRestore, tray, observers
<1>2. TypeOK'
  BY <1>1 DEF IInv, TypeOK
<1>3. Ownership' /\ LatchIsKept'
  BY <1>1 DEF IInv, Ownership, OneWriter, InLoop, LatchIsKept, LatchHeld, Guards
<1>4. PipeInOrder(pipe)' /\ ServedAlone' /\ TalksAlone'
  BY <1>1 DEF IInv, Conversation, ServedAlone, TalksAlone, Serving, NotServing, NoRequest,
              Guards
<1>5. YesIsUsedOnce' /\ VerdictIsTrue'
  BY <1>1 DEF IInv, Conversation, ServedAlone, Serving, YesIsUsedOnce, VerdictIsTrue,
              Pending, NoRequest, Guards
<1> QED  BY <1>2, <1>3, <1>4, <1>5 DEF IInv, Conversation

(* The normal limit is written; the latch is released if it was verified.  *)
LEMMA GuardRestoreSound ==
  ASSUME IInv, NEW g \in Guards, NEW stage \in {"auto", "manual"},
         NEW verified \in BOOLEAN, NEW mayRetry \in BOOLEAN, Restore(g, stage, verified,
         mayRetry)
  PROVE  IInv'
<1>0. guard \in [Guards -> Loop] /\ guard[g] \in Loop /\ lease \in Guards \cup {"free"}
      /\ autoRestore \in BOOLEAN
  BY OwnershipAssumption DEF IInv, TypeOK
<1> DEFINE attempts == Attempts(g, stage) + 1
           stopped  == /\ Attempts(g, stage) + 1 < MaxAttempts
                       /\ Stopped(g, stage) \/ ~(verified \/ mayRetry)
           next     == IF verified THEN (IF stage = "auto" THEN "autoSave" ELSE "manualSave")
                       ELSE IF stage = "auto" THEN "autoFallback" ELSE "manualFallback"
<1>a. /\ guard[g].pc = stage /\ MayRestore(g, stage)
      /\ guard' = [guard EXCEPT ![g].verified = FALSE, ![g].latched = ~verified,
                                ![g].ready = ~verified, ![g].attempts = attempts,
                                ![g].stopped = stopped, ![g].pc = next]
      /\ held' = (held /\ ~verified) /\ sameLatch' = (sameLatch /\ ~verified)
      /\ UNCHANGED <<lease, pipe, tray, autoRestore, startLatch, storedLatch, news, stale>>
  BY DEF Restore
<1>b. attempts \in 0 .. MaxAttempts /\ stopped \in BOOLEAN /\ next \in Stages
  <2>1. Attempts(g, stage) \in 0 .. MaxAttempts /\ Attempts(g, stage) < MaxAttempts
    BY <1>0, <1>a, OwnershipAssumption DEF Attempts, MayRestore, Exhausted, Loop
  <2> QED  BY <2>1, OwnershipAssumption DEF Stages
<1>c. /\ guard' \in [Guards -> Loop] /\ \A h \in Guards \ {g} : guard'[h] = guard[h]
      /\ guard'[g].pc = next /\ guard'[g].latched = ~verified
  <2> HIDE DEF attempts, stopped, next
  <2> QED  BY <1>0, <1>a, <1>b DEF Loop
<1>d. /\ request' \in Requests
      /\ IF g = "service" /\ stage = "manual"
         THEN /\ request.command = "RestoreNormalPower" /\ request'.command = request.command
              /\ request'.outcome = (IF verified THEN "done" ELSE "failed")
              /\ consent' = (IF verified THEN "done" ELSE "spent")
         ELSE request' = request /\ consent' = consent
  BY <1>0, <1>a DEF Requests, Restore, Outcome, Asked, MayRestore, IInv, TypeOK
<1>e. manualReq' \in BOOLEAN /\ held' \in BOOLEAN /\ sameLatch' \in BOOLEAN
  BY <1>0, <1>a DEF Restore, Consume, IInv, TypeOK
<1>1. /\ guard' \in [Guards -> Loop] /\ \A h \in Guards \ {g} : guard'[h] = guard[h]
      /\ guard[g].pc = stage /\ guard'[g].latched = ~verified
      /\ guard'[g].pc = (IF verified THEN (IF stage = "auto" THEN "autoSave" ELSE "manualSave")
                         ELSE IF stage = "auto" THEN "autoFallback" ELSE "manualFallback")
      /\ request' \in Requests
      /\ consent' \in {"done", "spent", consent}
      /\ IF g = "service" /\ stage = "manual"
         THEN /\ request.command = "RestoreNormalPower" /\ request'.command = request.command
              /\ request'.outcome = (IF verified THEN "done" ELSE "failed")
              /\ consent' = (IF verified THEN "done" ELSE "spent")
         ELSE request' = request /\ consent' = consent
      /\ manualReq' \in BOOLEAN /\ held' \in BOOLEAN /\ sameLatch' \in BOOLEAN
      /\ held' = (held /\ ~verified)
      /\ UNCHANGED <<lease, pipe, ui, connected, gate, modals, autoRestore, startLatch,
                     storedLatch, news, stale>>
  BY <1>a, <1>c, <1>d, <1>e DEF tray
<1>2. TypeOK'
  BY <1>1 DEF IInv, TypeOK
<1>3. Ownership' /\ LatchIsKept'
  BY <1>1 DEF IInv, Ownership, OneWriter, InLoop, LatchIsKept, LatchHeld, Guards
<1>4. PipeInOrder(pipe)' /\ ServedAlone' /\ TalksAlone'
  BY <1>1 DEF IInv, Conversation, ServedAlone, TalksAlone, Serving, NotServing, NoRequest,
              Guards
<1>5. YesIsUsedOnce' /\ VerdictIsTrue'
  BY <1>1 DEF IInv, Conversation, ServedAlone, Serving, YesIsUsedOnce, VerdictIsTrue,
              Pending, NoRequest, Guards, TalksAlone, PipeInOrder
<1> QED  BY <1>2, <1>3, <1>4, <1>5 DEF IInv, Conversation

(* The release is recorded.                                                *)
LEMMA GuardRestoreSaveSound ==
  ASSUME IInv, NEW g \in Guards, RestoreSave(g)
  PROVE  IInv'
<1>0. guard \in [Guards -> Loop] /\ guard[g] \in Loop /\ lease \in Guards \cup {"free"}
      /\ autoRestore \in BOOLEAN
  BY OwnershipAssumption DEF IInv, TypeOK
<1>a. /\ After(g, IF guard[g].pc = "autoSave" THEN "auto" ELSE "manual") \in Stages
      /\ After(g, "auto") \in {"retry", "manual"}
      /\ After(g, "manual") = IF g = "service" THEN "reply" ELSE "retry"
  BY <1>0, AfterValues
<1>1. /\ guard' \in [Guards -> Loop] /\ \A h \in Guards \ {g} : guard'[h] = guard[h]
      /\ guard[g].pc \in {"autoSave", "manualSave"}
      /\ guard'[g].latched = guard[g].latched
      /\ guard'[g].pc \in IF guard[g].pc = "autoSave" THEN {"retry", "manual"}
                          ELSE IF g = "service" THEN {"reply"} ELSE {"retry"}
      /\ storedLatch' \in BOOLEAN
      /\ UNCHANGED <<lease, pipe, request, ui, connected, gate, modals, autoRestore, startLatch,
                     manualReq, news, held, stale, consent, sameLatch>>
  BY <1>0, <1>a DEF RestoreSave, SaveSafeLatch, Elsewhere, tray, observers, Loop, IInv,
                    TypeOK
<1>2. TypeOK'
  BY <1>1 DEF IInv, TypeOK
<1>3. Ownership' /\ LatchIsKept'
  BY <1>1 DEF IInv, Ownership, OneWriter, InLoop, LatchIsKept, LatchHeld, Guards
<1>4. PipeInOrder(pipe)' /\ ServedAlone' /\ TalksAlone'
  BY <1>1 DEF IInv, Conversation, ServedAlone, TalksAlone, Serving, NotServing, NoRequest,
              Guards
<1>5. YesIsUsedOnce' /\ VerdictIsTrue'
  BY <1>1 DEF IInv, Conversation, ServedAlone, Serving, YesIsUsedOnce, VerdictIsTrue,
              Pending, NoRequest, Guards
<1> QED  BY <1>2, <1>3, <1>4, <1>5 DEF IInv, Conversation

(* It was not written: the safe limit again.                               *)
LEMMA GuardRestoreFallbackSound ==
  ASSUME IInv, NEW g \in Guards, NEW verified \in BOOLEAN, RestoreFallback(g, verified)
  PROVE  IInv'
<1>0. guard \in [Guards -> Loop] /\ guard[g] \in Loop /\ lease \in Guards \cup {"free"}
      /\ autoRestore \in BOOLEAN
  BY OwnershipAssumption DEF IInv, TypeOK
<1>a. /\ After(g, IF guard[g].pc = "autoFallback" THEN "auto" ELSE "manual") \in Stages
      /\ After(g, "auto") \in {"retry", "manual"}
      /\ After(g, "manual") = IF g = "service" THEN "reply" ELSE "retry"
  BY <1>0, AfterValues
<1>1. /\ guard' \in [Guards -> Loop] /\ \A h \in Guards \ {g} : guard'[h] = guard[h]
      /\ guard[g].pc \in {"autoFallback", "manualFallback"}
      /\ guard'[g].latched = guard[g].latched
      /\ guard'[g].pc \in IF guard[g].pc = "autoFallback" THEN {"retry", "manual"}
                          ELSE IF g = "service" THEN {"reply"} ELSE {"retry"}
      /\ UNCHANGED <<lease, pipe, request, ui, connected, gate, modals, autoRestore, startLatch,
                     manualReq, storedLatch, news, held, stale, consent, sameLatch>>
  BY <1>0, <1>a DEF RestoreFallback, Elsewhere, tray, observers, Loop
<1>2. TypeOK'
  BY <1>1 DEF IInv, TypeOK
<1>3. Ownership' /\ LatchIsKept'
  BY <1>1 DEF IInv, Ownership, OneWriter, InLoop, LatchIsKept, LatchHeld, Guards
<1>4. PipeInOrder(pipe)' /\ ServedAlone' /\ TalksAlone'
  BY <1>1 DEF IInv, Conversation, ServedAlone, TalksAlone, Serving, NotServing, NoRequest,
              Guards
<1>5. YesIsUsedOnce' /\ VerdictIsTrue'
  BY <1>1 DEF IInv, Conversation, ServedAlone, Serving, YesIsUsedOnce, VerdictIsTrue,
              Pending, NoRequest, Guards
<1> QED  BY <1>2, <1>3, <1>4, <1>5 DEF IInv, Conversation

(* The safe limit need not be checked.                                     *)
LEMMA GuardNoRetrySound ==
  ASSUME IInv, NEW g \in Guards, NoRetry(g)
  PROVE  IInv'
<1>0. guard \in [Guards -> Loop] /\ guard[g] \in Loop /\ lease \in Guards \cup {"free"}
      /\ autoRestore \in BOOLEAN
  BY OwnershipAssumption DEF IInv, TypeOK
<1>1. /\ guard' \in [Guards -> Loop] /\ \A h \in Guards \ {g} : guard'[h] = guard[h]
      /\ guard[g].pc = "retry" /\ guard'[g].pc \in {"manual", "wait"}
      /\ guard'[g].latched = guard[g].latched
      /\ UNCHANGED <<lease, pipe, request, ui, connected, gate, modals, autoRestore, startLatch,
                     manualReq, storedLatch, news, held, stale, consent, sameLatch>>
  BY <1>0, AfterValues DEF NoRetry, Elsewhere, tray, observers, Loop
<1>2. TypeOK'
  BY <1>1 DEF IInv, TypeOK
<1>3. Ownership' /\ LatchIsKept'
  BY <1>1 DEF IInv, Ownership, OneWriter, InLoop, LatchIsKept, LatchHeld, Guards
<1>4. PipeInOrder(pipe)' /\ ServedAlone' /\ TalksAlone'
  BY <1>1 DEF IInv, Conversation, ServedAlone, TalksAlone, Serving, NotServing, NoRequest,
              Guards
<1>5. YesIsUsedOnce' /\ VerdictIsTrue'
  BY <1>1 DEF IInv, Conversation, ServedAlone, Serving, YesIsUsedOnce, VerdictIsTrue,
              Pending, NoRequest, Guards
<1> QED  BY <1>2, <1>3, <1>4, <1>5 DEF IInv, Conversation

(* It is checked, and written if need be.                                  *)
LEMMA GuardRetrySafePowerSound ==
  ASSUME IInv, NEW g \in Guards, NEW verified \in BOOLEAN, RetrySafePower(g, verified)
  PROVE  IInv'
<1>0. guard \in [Guards -> Loop] /\ guard[g] \in Loop /\ lease \in Guards \cup {"free"}
      /\ autoRestore \in BOOLEAN
  BY OwnershipAssumption DEF IInv, TypeOK
<1> DEFINE next == IF verified /\ ~guard[g].counted THEN "retrySave" ELSE After(g, "retry")
<1>a. next \in {"retrySave", "manual", "wait"} /\ next \in Stages
  BY <1>0, AfterValues DEF Stages
<1>b. /\ guard[g].pc = "retry" /\ guard[g].latched
      /\ guard' = [guard EXCEPT ![g].verified = verified, ![g].pc = next]
      /\ UNCHANGED <<Elsewhere, storedLatch, news, observers>>
  BY <1>0 DEF RetrySafePower, Loop
<1> HIDE DEF next
<1>1. /\ guard' \in [Guards -> Loop] /\ \A h \in Guards \ {g} : guard'[h] = guard[h]
      /\ guard[g].pc = "retry" /\ guard'[g].pc \in {"retrySave", "manual", "wait"}
      /\ guard[g].latched /\ guard'[g].latched
      /\ UNCHANGED <<lease, pipe, request, ui, connected, gate, modals, autoRestore, startLatch,
                     manualReq, storedLatch, news, held, stale, consent, sameLatch>>
  BY <1>0, <1>a, <1>b DEF Elsewhere, tray, observers, Loop
<1>2. TypeOK'
  BY <1>1 DEF IInv, TypeOK
<1>3. Ownership' /\ LatchIsKept'
  BY <1>1 DEF IInv, Ownership, OneWriter, InLoop, LatchIsKept, LatchHeld, Guards
<1>4. PipeInOrder(pipe)' /\ ServedAlone' /\ TalksAlone'
  BY <1>1 DEF IInv, Conversation, ServedAlone, TalksAlone, Serving, NotServing, NoRequest,
              Guards
<1>5. YesIsUsedOnce' /\ VerdictIsTrue'
  BY <1>1 DEF IInv, Conversation, ServedAlone, Serving, YesIsUsedOnce, VerdictIsTrue,
              Pending, NoRequest, Guards
<1> QED  BY <1>2, <1>3, <1>4, <1>5 DEF IInv, Conversation

-----------------------------------------------------------------------------
(* The service.                                                            *)

(* It looks for a request.                                                 *)
LEMMA PollPipeSound ==
  ASSUME IInv, PollPipe
  PROVE  IInv'
<1>0. /\ guard \in [Guards -> Loop] /\ guard["service"] \in Loop /\ "service" \in Guards
      /\ lease \in Guards \cup {"free"} /\ pipe \in Pipes /\ PipeInOrder(pipe)
      /\ request \in Requests
  BY DEF IInv, TypeOK, Conversation, Guards
<1> DEFINE command == PolledRequest(pipe)
           next    == CASE command = NoRequest -> "wait"
                        [] command = "Query" -> "reply"
                        [] OTHER -> "manual"
<1>a. /\ guard["service"].pc = "manual" /\ request = NotServing /\ pipe' = Polled(pipe)
      /\ request' = [command |-> command, outcome |-> "none"]
      /\ guard' = [guard EXCEPT !["service"].pc = next]
      /\ UNCHANGED <<lease, tray, autoRestore, startLatch, manualReq, storedLatch, news,
                     observers>>
  BY DEF PollPipe
<1>b. /\ command \in Commands \cup {NoRequest}
      /\ \/ command = NoRequest /\ next = "wait"
         \/ command = "Query" /\ next = "reply"
         \/ command = "RestoreNormalPower" /\ next = "manual"
  BY <1>0, PolledSound DEF Commands, NoRequest
<1>c. next \in Stages
  BY <1>b DEF Stages
<1>d. /\ pipe' \in Pipes /\ PipeInOrder(pipe')
      /\ pipe'.server = "none" <=> pipe.server = "none"
      /\ command # NoRequest =>
           /\ command = pipe.inbox
           /\ pipe'.server = "connected" /\ pipe'.known /\ ~pipe'.replied
           /\ pipe'.inbox = NoRequest /\ pipe'.outbox = NoAnswer
           /\ pipe'.client = pipe.client /\ pipe.client \in {"reading", "away"}
      /\ command = NoRequest =>
           /\ pipe'.inbox \in {pipe.inbox, NoRequest}
           /\ pipe'.outbox \in {pipe.outbox, NoAnswer}
           /\ \/ pipe'.client = pipe.client
              \/ pipe'.client = "cut" /\ pipe.client # "away"
  BY <1>0, <1>a, PolledSound
<1> HIDE DEF next, command
<1>1. /\ guard' \in [Guards -> Loop] /\ guard'["local"] = guard["local"]
      /\ guard["service"].pc = "manual" /\ guard'["service"].latched = guard["service"].latched
      /\ request = NotServing /\ request'.outcome = "none"
      /\ request' \in Requests
      /\ \/ request'.command = NoRequest /\ guard'["service"].pc = "wait" /\ request' = NotServing
         \/ request'.command = "Query" /\ guard'["service"].pc = "reply"
         \/ request'.command = "RestoreNormalPower" /\ guard'["service"].pc = "manual"
      /\ pipe' \in Pipes /\ PipeInOrder(pipe')
      /\ request'.command # NoRequest =>
           /\ request'.command = pipe.inbox
           /\ pipe'.server = "connected" /\ pipe'.known /\ ~pipe'.replied
           /\ pipe'.inbox = NoRequest /\ pipe'.outbox = NoAnswer
           /\ pipe'.client = pipe.client /\ pipe.client \in {"reading", "away"}
      /\ request'.command = NoRequest =>
           /\ pipe'.inbox \in {pipe.inbox, NoRequest}
           /\ pipe'.outbox \in {pipe.outbox, NoAnswer}
           /\ \/ pipe'.client = pipe.client
              \/ pipe'.client = "cut" /\ pipe.client # "away"
      /\ UNCHANGED <<lease, ui, connected, gate, modals, autoRestore, startLatch, manualReq,
                     storedLatch, news, held, stale, consent, sameLatch>>
  BY <1>0, <1>a, <1>b, <1>c, <1>d DEF Requests, NotServing, Guards, Loop, tray, observers
<1>2. TypeOK'
  BY <1>1 DEF IInv, TypeOK
<1>3. Ownership' /\ LatchIsKept'
  BY <1>1 DEF IInv, Ownership, OneWriter, InLoop, LatchIsKept, LatchHeld, Guards
<1>4. PipeInOrder(pipe)' /\ ServedAlone' /\ TalksAlone'
  BY <1>1 DEF IInv, Conversation, ServedAlone, TalksAlone, Serving, NotServing, NoRequest,
              Guards
<1>5. YesIsUsedOnce' /\ VerdictIsTrue'
  BY <1>1 DEF IInv, Conversation, ServedAlone, Serving, YesIsUsedOnce, VerdictIsTrue,
              Pending, NoRequest, Guards, NotServing
<1> QED  BY <1>2, <1>3, <1>4, <1>5 DEF IInv, Conversation

(* It answers.                                                             *)
LEMMA ReplyToRequestSound ==
  ASSUME IInv, NEW armed \in BOOLEAN, ReplyToRequest(armed)
  PROVE  IInv'
<1>0. /\ guard \in [Guards -> Loop] /\ guard["service"] \in Loop /\ "service" \in Guards
      /\ lease \in Guards \cup {"free"} /\ pipe \in Pipes /\ PipeInOrder(pipe)
      /\ request \in Requests
  BY DEF IInv, TypeOK, Conversation, Guards
<1>a. /\ guard["service"].pc = "reply" /\ request.command # NoRequest
      /\ pipe.server = "connected" /\ pipe.known /\ ~pipe.replied
      /\ pipe.inbox = NoRequest /\ pipe.client \in {"reading", "away"}
  BY DEF ReplyToRequest, IInv, Conversation, ServedAlone, Serving
<1>b. AnswerFor(armed) \in Answers /\ (AnswerFor(armed).done <=> request.outcome = "done")
  BY <1>0 DEF AnswerFor, Answers, Exhausted, Loop
<1>c. /\ pipe' \in Pipes /\ PipeInOrder(pipe')
      /\ pipe'.client = pipe.client /\ pipe'.inbox = NoRequest
      /\ pipe'.server # "none" /\ pipe'.outbox \in {AnswerFor(armed), NoAnswer}
  BY <1>0, <1>a, <1>b, ReplySound DEF ReplyToRequest
<1>d. NotServing \in Requests
  BY DEF Requests, NotServing
<1>1. /\ guard' \in [Guards -> Loop] /\ guard'["local"] = guard["local"]
      /\ guard["service"].pc = "reply" /\ guard'["service"].pc = "wait"
      /\ guard'["service"].latched = guard["service"].latched
      /\ request.command # NoRequest /\ request' = NotServing
      /\ request' \in Requests
      /\ pipe' \in Pipes /\ PipeInOrder(pipe')
      /\ pipe'.client = pipe.client /\ pipe'.inbox = NoRequest
      /\ pipe'.outbox # NoAnswer =>
           /\ pipe'.outbox.done <=> request.outcome = "done"
           /\ pipe.client = "reading"
      /\ news' \in {news, "told"}
      /\ UNCHANGED <<lease, ui, connected, gate, modals, autoRestore, startLatch, manualReq,
                     storedLatch, held, stale, consent, sameLatch>>
  BY <1>0, <1>a, <1>b, <1>c, <1>d DEF ReplyToRequest, PipeInOrder, Stages, Guards, Loop,
                                      tray, observers
<1>2. TypeOK'
  BY <1>1 DEF IInv, TypeOK
<1>3. Ownership' /\ LatchIsKept'
  BY <1>1 DEF IInv, Ownership, OneWriter, InLoop, LatchIsKept, LatchHeld, Guards
<1>4. PipeInOrder(pipe)' /\ ServedAlone' /\ TalksAlone'
  BY <1>1 DEF IInv, Conversation, ServedAlone, TalksAlone, Serving, NotServing, NoRequest,
              Guards
<1>5. YesIsUsedOnce' /\ VerdictIsTrue'
  BY <1>1 DEF Requests, UiStates, IInv, Conversation, ServedAlone, Serving, YesIsUsedOnce,
              VerdictIsTrue, Pending, NoRequest, Guards, NotServing, TalksAlone, TypeOK,
              Commands
<1> QED  BY <1>2, <1>3, <1>4, <1>5 DEF IInv, Conversation

(* It starts,                                                              *)
LEMMA StartServiceSound ==
  ASSUME IInv, StartService
  PROVE  IInv'
<1>0. /\ guard \in [Guards -> Loop] /\ guard["service"] \in Loop /\ "service" \in Guards
      /\ lease \in Guards \cup {"free"} /\ pipe \in Pipes /\ PipeInOrder(pipe)
      /\ request \in Requests
  BY DEF IInv, TypeOK, Conversation, Guards
<1>1. /\ guard' \in [Guards -> Loop] /\ guard'["local"] = guard["local"]
      /\ guard["service"].pc = "off" /\ guard'["service"].pc = "boot"
      /\ UNCHANGED <<request, ui, connected, gate, modals, autoRestore, startLatch,
                     manualReq, storedLatch, news, held, stale, consent, sameLatch, lease,
                     pipe>>
  BY <1>0 DEF StartService, Elsewhere, Stages, Guards, Loop, tray, observers
<1>2. TypeOK'
  BY <1>1 DEF IInv, TypeOK
<1>3. Ownership' /\ LatchIsKept'
  BY <1>1 DEF IInv, Ownership, OneWriter, InLoop, LatchIsKept, LatchHeld, Guards
<1>4. PipeInOrder(pipe)' /\ ServedAlone' /\ TalksAlone'
  BY <1>1 DEF IInv, Conversation, ServedAlone, TalksAlone, Serving, NotServing, NoRequest,
              Guards
<1>5. YesIsUsedOnce' /\ VerdictIsTrue'
  BY <1>1 DEF IInv, Conversation, ServedAlone, Serving, YesIsUsedOnce, VerdictIsTrue,
              Pending, NoRequest, Guards
<1> QED  BY <1>2, <1>3, <1>4, <1>5 DEF IInv, Conversation

(* stops with its pipe,                                                    *)
LEMMA StopServiceSound ==
  ASSUME IInv, StopService
  PROVE  IInv'
<1>0. /\ guard \in [Guards -> Loop] /\ guard["service"] \in Loop /\ "service" \in Guards
      /\ lease \in Guards \cup {"free"} /\ pipe \in Pipes /\ PipeInOrder(pipe)
      /\ request \in Requests
  BY DEF IInv, TypeOK, Conversation, Guards
<1>1. /\ guard' \in [Guards -> Loop] /\ guard'["local"] = guard["local"]
      /\ guard["service"].pc = "wait" /\ guard'["service"].pc = "closing"
      /\ pipe' \in Pipes /\ PipeInOrder(pipe') /\ pipe'.server = "none"
      /\ pipe'.client = IF pipe.client = "away" THEN "away" ELSE "cut"
      /\ pipe'.inbox = NoRequest /\ pipe'.outbox = NoAnswer
      /\ UNCHANGED <<request, ui, connected, gate, modals, autoRestore, startLatch,
                     manualReq, storedLatch, news, held, stale, consent, sameLatch, lease>>
  BY <1>0, IdleType, DestroyedSound DEF StopService, Guards, tray, observers
<1>2. TypeOK'
  BY <1>1 DEF IInv, TypeOK
<1>3. Ownership' /\ LatchIsKept'
  BY <1>1 DEF IInv, Ownership, OneWriter, InLoop, LatchIsKept, LatchHeld, Guards
<1>4. PipeInOrder(pipe)' /\ ServedAlone' /\ TalksAlone'
  BY <1>1 DEF IInv, Conversation, ServedAlone, TalksAlone, Serving, NotServing, NoRequest,
              Guards
<1>5. YesIsUsedOnce' /\ VerdictIsTrue'
  BY <1>1 DEF IInv, Conversation, ServedAlone, Serving, YesIsUsedOnce, VerdictIsTrue,
              Pending, NoRequest, Guards
<1> QED  BY <1>2, <1>3, <1>4, <1>5 DEF IInv, Conversation

(* gives the lease back,                                                   *)
LEMMA ReleaseLeaseSound ==
  ASSUME IInv, ReleaseLease
  PROVE  IInv'
<1>0. /\ guard \in [Guards -> Loop] /\ guard["service"] \in Loop /\ "service" \in Guards
      /\ lease \in Guards \cup {"free"} /\ pipe \in Pipes /\ PipeInOrder(pipe)
      /\ request \in Requests
  BY DEF IInv, TypeOK, Conversation, Guards
<1>1. /\ guard' \in [Guards -> Loop] /\ guard'["local"] = guard["local"]
      /\ guard["service"].pc = "closing" /\ guard'["service"].pc = "off" /\ lease' = "free"
      /\ UNCHANGED <<request, ui, connected, gate, modals, autoRestore, startLatch,
                     manualReq, storedLatch, news, held, stale, consent, sameLatch, pipe>>
  BY <1>0, IdleType DEF ReleaseLease, Guards, tray, observers
<1>2. TypeOK'
  BY <1>1 DEF IInv, TypeOK
<1>3. Ownership' /\ LatchIsKept'
  BY <1>1 DEF IInv, Ownership, OneWriter, InLoop, LatchIsKept, LatchHeld, Guards
<1>4. PipeInOrder(pipe)' /\ ServedAlone' /\ TalksAlone'
  BY <1>1 DEF IInv, Conversation, ServedAlone, TalksAlone, Serving, NotServing, NoRequest,
              Guards
<1>5. YesIsUsedOnce' /\ VerdictIsTrue'
  BY <1>1 DEF IInv, Conversation, ServedAlone, Serving, YesIsUsedOnce, VerdictIsTrue,
              Pending, NoRequest, Guards
<1> QED  BY <1>2, <1>3, <1>4, <1>5 DEF IInv, Conversation

(* or dies.                                                                *)
LEMMA CrashServiceSound ==
  ASSUME IInv, CrashService
  PROVE  IInv'
<1>0. /\ guard \in [Guards -> Loop] /\ guard["service"] \in Loop /\ "service" \in Guards
      /\ lease \in Guards \cup {"free"} /\ pipe \in Pipes /\ PipeInOrder(pipe)
      /\ request \in Requests
  BY DEF IInv, TypeOK, Conversation, Guards
<1>1. /\ guard' \in [Guards -> Loop] /\ guard'["local"] = guard["local"]
      /\ guard'["service"].pc = "off" /\ lease' = IF lease = "service" THEN "free" ELSE lease
      /\ lease' \in Guards \cup {"free"}
      /\ pipe' \in Pipes /\ PipeInOrder(pipe') /\ pipe'.server = "none"
      /\ \/ pipe'.client = pipe.client
         \/ pipe'.client = "cut" /\ pipe.client # "away"
      /\ pipe'.inbox = NoRequest /\ pipe'.outbox = NoAnswer
      /\ request' = NotServing /\ NotServing \in Requests
      /\ UNCHANGED <<ui, connected, gate, modals, autoRestore, startLatch, manualReq,
                     storedLatch, news, held, stale, consent, sameLatch>>
  BY <1>0, IdleType, DestroyedSound DEF Requests, CrashService, Freed, NotServing, PipeInOrder,
                                        Guards, tray, observers
<1>2. TypeOK'
  BY <1>1 DEF IInv, TypeOK
<1>3. Ownership' /\ LatchIsKept'
  BY <1>1 DEF IInv, Ownership, OneWriter, InLoop, LatchIsKept, LatchHeld, Guards
<1>4. PipeInOrder(pipe)' /\ ServedAlone' /\ TalksAlone'
  BY <1>1 DEF IInv, Conversation, ServedAlone, TalksAlone, Serving, NotServing, NoRequest,
              Guards
<1>5. YesIsUsedOnce' /\ VerdictIsTrue'
  BY <1>1 DEF IInv, Conversation, ServedAlone, Serving, YesIsUsedOnce, VerdictIsTrue,
              Pending, NoRequest, Guards, NotServing
<1> QED  BY <1>2, <1>3, <1>4, <1>5 DEF IInv, Conversation

-----------------------------------------------------------------------------
(* The tray's UI thread.                                                   *)

LEMMA UiAtType ==
  ASSUME NEW at \in {"off", "idle", "open", "talk", "join", "local"}
  PROVE  UiAt(at) \in UiStates
BY DEF UiAt, UiStates, Commands

(* A prompt more is one of its own kind.                                   *)
LEMMA PresentSound ==
  ASSUME TypeOK, NEW kind \in Guards, NEW open \in BOOLEAN, NEW latched \in BOOLEAN,
         NEW ready \in BOOLEAN, NEW exhausted \in BOOLEAN,
         Present(open, kind, latched, ready, exhausted)
  PROVE  /\ gate' \in BOOLEAN /\ sameLatch' \in BOOLEAN
         /\ modals' \in Seq(Guards) /\ Len(modals') <= MaxModals
         /\ kind = "local" /\ NoServicePrompt(modals) => NoServicePrompt(modals')
<1>1. /\ autoRestore \in BOOLEAN /\ gate \in BOOLEAN /\ sameLatch \in BOOLEAN
      /\ modals \in Seq(Guards) /\ Len(modals) <= MaxModals
      /\ MaxModals \in Nat /\ Len(modals) \in Nat
  BY OwnershipAssumption, LenProperties DEF TypeOK
<1>2. gate' \in BOOLEAN /\ sameLatch' \in BOOLEAN
  BY <1>1 DEF Present, GateAfter, Prompts
<1>3. CASE modals' = modals
  BY <1>1, <1>2, <1>3
<1>4. CASE modals' = Append(modals, kind) /\ Len(modals) < MaxModals
  <2>1. /\ Append(modals, kind) \in Seq(Guards)
        /\ Len(Append(modals, kind)) = Len(modals) + 1
        /\ \A i \in 1 .. Len(modals) : Append(modals, kind)[i] = modals[i]
        /\ Append(modals, kind)[Len(modals) + 1] = kind
    BY <1>1, AppendProperties
  <2>2. ASSUME kind = "local", NoServicePrompt(modals),
               NEW i \in 1 .. Len(Append(modals, kind))
        PROVE  Append(modals, kind)[i] # "service"
    <3>1. CASE i = Len(modals) + 1
      BY <2>1, <2>2, <3>1
    <3>2. CASE i # Len(modals) + 1
      BY <1>1, <2>1, <2>2, <3>2 DEF NoServicePrompt
    <3> QED  BY <3>1, <3>2
  <2> QED  BY <1>1, <1>2, <1>4, <2>1, <2>2 DEF NoServicePrompt
<1> QED  BY <1>2, <1>3, <1>4 DEF Present

(* The prompt on top is closed.                                            *)
LEMMA PromptClosed ==
  ASSUME NEW prompts \in Seq(Guards), prompts # <<>>
  PROVE  LET rest == SubSeq(prompts, 1, Len(prompts) - 1)
         IN  /\ rest \in Seq(Guards) /\ Len(rest) <= Len(prompts)
             /\ NoServicePrompt(prompts) => NoServicePrompt(rest)
             /\ prompts[Len(prompts)] \in Guards
             /\ NoServicePrompt(prompts) => prompts[Len(prompts)] # "service"
<1> DEFINE n == Len(prompts)
           rest == SubSeq(prompts, 1, n - 1)
<1>1. n \in Nat /\ n > 0
  BY EmptySeq, LenProperties
<1>2. \A i \in 1 .. n : prompts[i] \in Guards
  BY ElementOfSeq
<1>3. /\ rest \in Seq(Guards) /\ Len(rest) = n - 1
      /\ \A i \in 1 .. n - 1 : rest[i] = prompts[i]
  <2>1. 1 \in Int /\ n - 1 \in Int /\ \A i \in 1 .. n - 1 : prompts[i] \in Guards
    BY <1>1, <1>2
  <2>2. /\ rest \in Seq(Guards)
        /\ Len(rest) = IF 1 <= n - 1 THEN n - 1 - 1 + 1 ELSE 0
        /\ \A i \in 1 .. n - 1 - 1 + 1 : rest[i] = prompts[1 + i - 1]
    BY <2>1, SubSeqProperties
  <2> HIDE DEF rest, n
  <2>3. \A i \in 1 .. n - 1 : rest[i] = prompts[i]
    <3> TAKE i \in 1 .. n - 1
    <3>1. i \in 1 .. n - 1 - 1 + 1 /\ 1 + i - 1 = i
      BY <1>1
    <3> QED  BY <2>2, <3>1
  <2> QED  BY <1>1, <2>2, <2>3
<1> QED  BY <1>1, <1>2, <1>3 DEF NoServicePrompt

(* It asks the service how the GPU is,                                     *)
LEMMA QuerySound ==
  ASSUME IInv, Query
  PROVE  IInv'
<1>0. /\ guard \in [Guards -> Loop] /\ guard["local"] \in Loop /\ "local" \in Guards
      /\ lease \in Guards \cup {"free"} /\ pipe \in Pipes /\ PipeInOrder(pipe)
      /\ modals \in Seq(Guards)
  BY DEF IInv, TypeOK, Conversation, Guards
<1>1. /\ ui.at \in {"off", "idle"} /\ ui' = UiAt("open") /\ UiAt("open") \in UiStates
      /\ UiAt("open").at = "open" /\ UiAt("open").command = "Query"
      /\ UNCHANGED <<guard, lease, autoRestore, request, storedLatch, held, stale,
                     startLatch, manualReq, pipe, connected, gate, modals, news, consent,
                     sameLatch>>
  BY UiAtType DEF Query, UiAt, Fixed, observers
<1>2. TypeOK'
  BY <1>1 DEF IInv, TypeOK
<1>3. Ownership' /\ LatchIsKept'
  BY <1>1 DEF IInv, Ownership, OneWriter, InLoop, LatchIsKept, LatchHeld, Guards
<1>4. PipeInOrder(pipe)' /\ ServedAlone' /\ TalksAlone'
  BY <1>1 DEF IInv, Conversation, ServedAlone, TalksAlone, Serving, NotServing, NoRequest,
              Guards
<1>5. YesIsUsedOnce' /\ VerdictIsTrue'
  BY <1>1 DEF IInv, Conversation, ServedAlone, Serving, YesIsUsedOnce, VerdictIsTrue,
              Pending, NoRequest, Guards, TalksAlone
<1> QED  BY <1>2, <1>3, <1>4, <1>5 DEF IInv, Conversation

(* or shows what its own worker found.                                     *)
LEMMA QueryBlindSound ==
  ASSUME IInv, QueryBlind
  PROVE  IInv'
<1>0. /\ guard \in [Guards -> Loop] /\ guard["local"] \in Loop /\ "local" \in Guards
      /\ lease \in Guards \cup {"free"} /\ pipe \in Pipes /\ PipeInOrder(pipe)
      /\ modals \in Seq(Guards)
  BY DEF IInv, TypeOK, Conversation, Guards
<1>1. /\ ui.at = "idle" /\ ui' = UiAt("local") /\ UiAt("local") \in UiStates
      /\ UiAt("local").at = "local" /\ UiAt("local").command = "Query"
      /\ UNCHANGED <<guard, lease, autoRestore, request, storedLatch, held, stale,
                     startLatch, manualReq, pipe, connected, gate, modals, news, consent,
                     sameLatch>>
  BY UiAtType DEF QueryBlind, UiAt, Fixed, observers
<1>2. TypeOK'
  BY <1>1 DEF IInv, TypeOK
<1>3. Ownership' /\ LatchIsKept'
  BY <1>1 DEF IInv, Ownership, OneWriter, InLoop, LatchIsKept, LatchHeld, Guards
<1>4. PipeInOrder(pipe)' /\ ServedAlone' /\ TalksAlone'
  BY <1>1 DEF IInv, Conversation, ServedAlone, TalksAlone, Serving, NotServing, NoRequest,
              Guards
<1>5. YesIsUsedOnce' /\ VerdictIsTrue'
  BY <1>1 DEF IInv, Conversation, ServedAlone, Serving, YesIsUsedOnce, VerdictIsTrue,
              Pending, NoRequest, Guards, TalksAlone
<1> QED  BY <1>2, <1>3, <1>4, <1>5 DEF IInv, Conversation

(* It opens the pipe,                                                      *)
LEMMA OpenPipeSound ==
  ASSUME IInv, OpenPipe
  PROVE  IInv'
<1>0. /\ guard \in [Guards -> Loop] /\ guard["local"] \in Loop /\ "local" \in Guards
      /\ lease \in Guards \cup {"free"} /\ pipe \in Pipes /\ PipeInOrder(pipe)
      /\ modals \in Seq(Guards)
  BY DEF IInv, TypeOK, Conversation, Guards
<1>1. /\ ui.at = "open" /\ pipe.server = "listening" /\ pipe.inbox = NoRequest
      /\ ui' = [ui EXCEPT !.at = "talk"] /\ ui' \in UiStates
      /\ ui'.at = "talk" /\ ui'.command = ui.command
      /\ pipe' \in Pipes /\ PipeInOrder(pipe')
      /\ pipe'.client = "writing" /\ pipe'.inbox = NoRequest /\ pipe'.outbox = NoAnswer
      /\ pipe'.server # "none" /\ request = NotServing
      /\ UNCHANGED <<guard, lease, autoRestore, request, storedLatch, held, stale,
                     startLatch, manualReq, connected, gate, modals, news, consent,
                     sameLatch>>
  BY <1>0, OpenSound DEF OpenPipe, UiStates, PipeInOrder, ServedAlone, Serving,
                         Conversation, IInv, TypeOK, Fixed, observers
<1>2. TypeOK'
  BY <1>1 DEF IInv, TypeOK
<1>3. Ownership' /\ LatchIsKept'
  BY <1>1 DEF IInv, Ownership, OneWriter, InLoop, LatchIsKept, LatchHeld, Guards
<1>4. PipeInOrder(pipe)' /\ ServedAlone' /\ TalksAlone'
  BY <1>1 DEF IInv, Conversation, ServedAlone, TalksAlone, Serving, NotServing, NoRequest,
              Guards
<1>5. YesIsUsedOnce' /\ VerdictIsTrue'
  BY <1>1 DEF IInv, Conversation, ServedAlone, Serving, YesIsUsedOnce, VerdictIsTrue,
              Pending, NoRequest, Guards, NotServing
<1> QED  BY <1>2, <1>3, <1>4, <1>5 DEF IInv, Conversation

(* writes what it asks,                                                    *)
LEMMA WriteRequestSound ==
  ASSUME IInv, WriteRequest
  PROVE  IInv'
<1>0. /\ guard \in [Guards -> Loop] /\ guard["local"] \in Loop /\ "local" \in Guards
      /\ lease \in Guards \cup {"free"} /\ pipe \in Pipes /\ PipeInOrder(pipe)
      /\ modals \in Seq(Guards)
  BY DEF IInv, TypeOK, Conversation, Guards
<1>1. /\ ui.at = "talk" /\ pipe.client = "writing" /\ ui.command \in Commands
      /\ pipe' \in Pipes /\ PipeInOrder(pipe')
      /\ pipe'.client = "reading" /\ pipe'.inbox = ui.command /\ pipe'.outbox = NoAnswer
      /\ pipe'.server = pipe.server /\ request = NotServing
      /\ UNCHANGED <<guard, lease, autoRestore, request, storedLatch, held, stale,
                     startLatch, manualReq, ui, connected, gate, modals, news, consent,
                     sameLatch>>
  BY <1>0, WrittenSound DEF UiStates, WriteRequest, ServedAlone, Serving, Conversation,
                            IInv, TypeOK, tray, Fixed, observers
<1>2. TypeOK'
  BY <1>1 DEF IInv, TypeOK
<1>3. Ownership' /\ LatchIsKept'
  BY <1>1 DEF IInv, Ownership, OneWriter, InLoop, LatchIsKept, LatchHeld, Guards
<1>4. PipeInOrder(pipe)' /\ ServedAlone' /\ TalksAlone'
  BY <1>1 DEF IInv, Conversation, ServedAlone, TalksAlone, Serving, NotServing, NoRequest,
              Guards
<1>5. YesIsUsedOnce' /\ VerdictIsTrue'
  BY <1>1 DEF IInv, Conversation, ServedAlone, Serving, YesIsUsedOnce, VerdictIsTrue,
              Pending, NoRequest, Guards, NotServing
<1> QED  BY <1>2, <1>3, <1>4, <1>5 DEF IInv, Conversation

(* and reads the answer.                                                   *)
LEMMA ReadAnswerSound ==
  ASSUME IInv, ReadAnswer
  PROVE  IInv'
<1>0. /\ guard \in [Guards -> Loop] /\ guard["local"] \in Loop /\ "local" \in Guards
      /\ lease \in Guards \cup {"free"} /\ pipe \in Pipes /\ PipeInOrder(pipe)
      /\ modals \in Seq(Guards)
  BY DEF IInv, TypeOK, Conversation, Guards
<1>a. /\ ui.at = "talk" /\ pipe.client = "reading" /\ pipe.outbox # NoAnswer
      /\ pipe.outbox \in Answers /\ pipe' = Closed(pipe)
  BY <1>0 DEF ReadAnswer, Answered, Pipes
<1>b. pipe.inbox = NoRequest /\ request = NotServing
  BY <1>0, <1>a DEF PipeInOrder, ServedAlone, Serving, Conversation, IInv
<1>c. /\ pipe' \in Pipes /\ PipeInOrder(pipe')
      /\ pipe'.client = "away" /\ pipe'.inbox = NoRequest /\ pipe'.outbox = NoAnswer
      /\ pipe'.server = pipe.server
  BY <1>0, <1>a, <1>b, ClosedSound
<1>d. /\ ui' \in UiStates
      /\ \/ /\ ui'.at = "join" /\ ui'.command = "Query" /\ ui'.answer \in Answers
            /\ consent' = consent
         \/ ui'.at = "idle" /\ ui'.command = "Query" /\ consent' = "none"
  <2>1. CASE ui.command = "Query"
    <3>1. /\ ui' = [ui EXCEPT !.at = "join", !.answer = pipe.outbox] /\ consent' = consent
          /\ ui \in UiStates
      BY <2>1 DEF ReadAnswer, IInv, TypeOK
    <3> QED  BY <1>a, <2>1, <3>1 DEF UiStates
  <2>2. CASE ui.command # "Query"
    BY <2>2, UiAtType DEF ReadAnswer, UiAt
  <2> QED  BY <2>1, <2>2
<1>1. /\ UNCHANGED <<guard, lease, autoRestore, request, storedLatch, held, stale,
                     startLatch, manualReq, connected, gate, modals, news, sameLatch>>
  BY DEF ReadAnswer, Fixed
<1>2. TypeOK'
  BY <1>1, <1>c, <1>d DEF IInv, TypeOK
<1>3. Ownership' /\ LatchIsKept'
  BY <1>1 DEF IInv, Ownership, OneWriter, InLoop, LatchIsKept, LatchHeld, Guards
<1>4. PipeInOrder(pipe)' /\ ServedAlone' /\ TalksAlone'
  BY <1>1, <1>b, <1>c, <1>d DEF IInv, Conversation, ServedAlone, TalksAlone, Serving,
                                NotServing, NoRequest, Guards
<1>5. YesIsUsedOnce' /\ VerdictIsTrue'
  BY <1>1, <1>a, <1>b, <1>c, <1>d DEF IInv, Conversation, ServedAlone, Serving,
                                      YesIsUsedOnce, VerdictIsTrue, Pending, NoRequest,
                                      Guards, NotServing
<1> QED  BY <1>2, <1>3, <1>4, <1>5 DEF IInv, Conversation

(* The service protects the GPU; the tray's worker is joined.              *)
LEMMA HandleServiceResponseSound ==
  ASSUME IInv, HandleServiceResponse
  PROVE  IInv'
<1>0. /\ guard \in [Guards -> Loop] /\ guard["local"] \in Loop /\ "local" \in Guards
      /\ lease \in Guards \cup {"free"} /\ pipe \in Pipes /\ PipeInOrder(pipe)
      /\ modals \in Seq(Guards)
  BY DEF IInv, TypeOK, Conversation, Guards
<1>a. /\ ui.at = "join" /\ ui.answer \in Answers /\ gate \in BOOLEAN
  BY DEF HandleServiceResponse, IInv, TypeOK, Conversation, TalksAlone
<1>b. /\ gate' \in BOOLEAN /\ sameLatch' \in BOOLEAN
      /\ modals' \in Seq(Guards) /\ Len(modals') <= MaxModals
  <2> DEFINE a == ui.answer
             open == gate /\ ~(a.counted \/ a.armed)
  <2>1. Present(open, "service", a.latched, a.ready, a.exhausted)
    BY DEF HandleServiceResponse
  <2>2. /\ open \in BOOLEAN /\ a.latched \in BOOLEAN /\ a.ready \in BOOLEAN
        /\ a.exhausted \in BOOLEAN
    BY <1>a DEF Answers
  <2>3. TypeOK /\ "service" \in Guards
    BY DEF IInv, Guards
  <2> HIDE DEF open, a
  <2> QED  BY <2>1, <2>2, <2>3, PresentSound
<1>c. pipe.client = "away" /\ ~Pending /\ pipe.outbox = NoAnswer
  BY <1>a, <1>0 DEF IInv, Conversation, TalksAlone, YesIsUsedOnce, PipeInOrder, Pipes
<1>1. /\ guard' \in [Guards -> Loop] /\ guard'["service"] = guard["service"]
      /\ guard'["local"].pc = "off" /\ guard["local"].pc \in {"off", "wait"}
      /\ lease' = (IF lease = "local" THEN "free" ELSE lease) /\ lease' \in Guards \cup {"free"}
      /\ news' \in {news, "none"} /\ ui.at = "join"
      /\ ui' = UiAt("idle") /\ UiAt("idle") \in UiStates
      /\ UiAt("idle").at = "idle" /\ UiAt("idle").command = "Query"
      /\ UNCHANGED <<pipe, startLatch, autoRestore, request, storedLatch, held, consent>>
      /\ connected' \in BOOLEAN /\ manualReq' \in BOOLEAN /\ stale' \in BOOLEAN
  BY <1>0, <1>a, IdleType, UiAtType DEF HandleServiceResponse, Freed, UiAt, Guards, Fixed
<1>2. TypeOK'
  BY <1>1, <1>b DEF IInv, TypeOK
<1>3. Ownership' /\ LatchIsKept'
  BY <1>1 DEF IInv, Ownership, OneWriter, InLoop, LatchIsKept, LatchHeld, Guards
<1>4. PipeInOrder(pipe)' /\ ServedAlone' /\ TalksAlone'
  BY <1>1, <1>c DEF IInv, Conversation, ServedAlone, TalksAlone, Serving, NotServing,
                    NoRequest, Guards
<1>5. YesIsUsedOnce' /\ VerdictIsTrue'
  BY <1>1, <1>b, <1>c DEF IInv, Conversation, ServedAlone, Serving, YesIsUsedOnce,
                          VerdictIsTrue, Pending, NoRequest, Guards
<1> QED  BY <1>2, <1>3, <1>4, <1>5 DEF IInv, Conversation

(* Nobody answers; the tray protects the GPU itself.                       *)
LEMMA UnansweredSound ==
  ASSUME IInv, NEW spaced \in BOOLEAN, Unanswered(spaced)
  PROVE  IInv'
<1>0. /\ guard \in [Guards -> Loop] /\ guard["local"] \in Loop /\ "local" \in Guards
      /\ lease \in Guards \cup {"free"} /\ pipe \in Pipes /\ PipeInOrder(pipe)
      /\ modals \in Seq(Guards)
  BY DEF IInv, TypeOK, Conversation, Guards
<1>a. pipe.outbox = NoAnswer
  BY <1>0 DEF Unanswered, Failed, IInv, Conversation, TalksAlone, PipeInOrder
<1>b. Pending => ui.command = "Query" /\ pipe.client = "away"
  BY <1>0 DEF Unanswered, Failed, IInv, Conversation, TalksAlone, YesIsUsedOnce,
              ServedAlone, Serving,
              Pending, PipeInOrder, NoRequest, Pipes
<1>c. /\ ui.command = "Query" => consent' = consent /\ ui'.at = "local"
      /\ ui.command # "Query" => consent' = "none" /\ ui'.at = "idle"
      /\ ui'.command = "Query" /\ consent' \in {consent, "none"}
      /\ ui' \in UiStates
  BY UiAtType DEF Unanswered, UiAt
<1>1. /\ guard' \in [Guards -> Loop] /\ guard'["service"] = guard["service"]
      /\ \/ guard' = guard
         \/ guard["local"].pc = "off" /\ guard'["local"].pc = "boot"
      /\ pipe' \in Pipes /\ PipeInOrder(pipe')
      /\ pipe'.client = "away" /\ pipe'.inbox = pipe.inbox /\ pipe'.outbox = NoAnswer
      /\ pipe'.server = pipe.server /\ pipe'.known = pipe.known /\ pipe'.replied = pipe.replied
      /\ connected' \in BOOLEAN /\ gate' \in BOOLEAN
      /\ startLatch' \in BOOLEAN /\ manualReq' \in BOOLEAN
      /\ UNCHANGED <<lease, modals, news, autoRestore, request, storedLatch, held, stale,
                     sameLatch>>
  BY <1>0, ClosedSound DEF Unanswered, Loop, Stages, Guards, Fixed, IInv, TypeOK
<1>2. TypeOK'
  BY <1>1, <1>c DEF IInv, TypeOK
<1>3. Ownership' /\ LatchIsKept'
  BY <1>1 DEF IInv, Ownership, OneWriter, InLoop, LatchIsKept, LatchHeld, Guards
<1>4. PipeInOrder(pipe)' /\ ServedAlone' /\ TalksAlone'
  BY <1>1, <1>c DEF IInv, Conversation, ServedAlone, TalksAlone, Serving, NotServing,
                    NoRequest, Guards
<1>5. YesIsUsedOnce' /\ VerdictIsTrue'
  BY <1>1, <1>a, <1>b, <1>c DEF IInv, Conversation, ServedAlone, Serving, YesIsUsedOnce,
                                VerdictIsTrue, Pending, NoRequest, Guards, TalksAlone
<1> QED  BY <1>2, <1>3, <1>4, <1>5 DEF IInv, Conversation

(* It shows what its own worker found last,                                *)
LEMMA HandleLocalProtectionSound ==
  ASSUME IInv, HandleLocalProtection
  PROVE  IInv'
<1>0. /\ guard \in [Guards -> Loop] /\ guard["local"] \in Loop /\ "local" \in Guards
      /\ lease \in Guards \cup {"free"} /\ pipe \in Pipes /\ PipeInOrder(pipe)
      /\ modals \in Seq(Guards) /\ MaxModals \in Nat
  BY OwnershipAssumption DEF IInv, TypeOK, Conversation, Guards
<1>a. /\ news' \in {news, "none"} /\ gate' \in BOOLEAN /\ sameLatch' \in BOOLEAN
      /\ modals' \in Seq(Guards) /\ Len(modals') <= MaxModals
      /\ NoServicePrompt(modals) => NoServicePrompt(modals')
  <2> DEFINE w         == guard["local"]
             open      == gate /\ news = "none"
             shown     == w.latched /\ w.verified
             exhausted == w.latched /\ Exhausted("local")
  <2>1. CASE w.pc = "wait"
    <3>1. Present(open, "local", shown, w.ready, exhausted) /\ news' = "none"
      BY <2>1 DEF HandleLocalProtection
    <3>2. /\ open \in BOOLEAN /\ shown \in BOOLEAN /\ w.ready \in BOOLEAN
          /\ exhausted \in BOOLEAN
      BY <1>0, OwnershipAssumption DEF Exhausted, Loop, IInv, TypeOK
    <3>3. TypeOK /\ "local" \in Guards
      BY DEF IInv, Guards
    <3> HIDE DEF open, shown, exhausted, w
    <3> QED  BY <3>1, <3>2, <3>3, PresentSound
  <2>2. CASE w.pc # "wait"
    BY <2>2 DEF HandleLocalProtection, IInv, TypeOK
  <2> QED  BY <2>1, <2>2
<1>1. /\ ui.at = "local" /\ ui' = UiAt("idle") /\ UiAt("idle") \in UiStates
      /\ UiAt("idle").at = "idle" /\ UiAt("idle").command = "Query"
      /\ UNCHANGED <<guard, lease, pipe, connected, startLatch, manualReq, autoRestore,
                     request, storedLatch, held, stale, consent>>
  BY UiAtType DEF HandleLocalProtection, UiAt, Fixed
<1>2. TypeOK'
  BY <1>1, <1>a DEF IInv, TypeOK
<1>3. Ownership' /\ LatchIsKept'
  BY <1>1 DEF IInv, Ownership, OneWriter, InLoop, LatchIsKept, LatchHeld, Guards
<1>4. PipeInOrder(pipe)' /\ ServedAlone' /\ TalksAlone'
  BY <1>1 DEF IInv, Conversation, ServedAlone, TalksAlone, Serving, NotServing, NoRequest,
              Guards
<1>5. YesIsUsedOnce' /\ VerdictIsTrue'
  BY <1>1, <1>a DEF IInv, Conversation, ServedAlone, Serving, YesIsUsedOnce, VerdictIsTrue,
                    Pending, NoRequest, Guards, TalksAlone
<1> QED  BY <1>2, <1>3, <1>4, <1>5 DEF IInv, Conversation

(* and asks the user, whose YES goes to the guard that was shown.          *)
LEMMA AnswerPromptSound ==
  ASSUME IInv, NEW yes \in BOOLEAN, AnswerPrompt(yes)
  PROVE  IInv'
<1>0. /\ guard \in [Guards -> Loop] /\ guard["local"] \in Loop /\ "local" \in Guards
      /\ lease \in Guards \cup {"free"} /\ pipe \in Pipes /\ PipeInOrder(pipe)
      /\ modals \in Seq(Guards) /\ MaxModals \in Nat
  BY OwnershipAssumption DEF IInv, TypeOK, Conversation, Guards
<1>a. /\ modals' \in Seq(Guards) /\ Len(modals') <= MaxModals
      /\ NoServicePrompt(modals) => NoServicePrompt(modals')
      /\ modals[Len(modals)] \in Guards
      /\ NoServicePrompt(modals) => modals[Len(modals)] # "service"
  <2>1. modals # <<>> /\ modals' = SubSeq(modals, 1, Len(modals) - 1)
    BY DEF AnswerPrompt
  <2>2. Len(modals) <= MaxModals /\ Len(modals) \in Nat
    BY LenProperties DEF IInv, TypeOK
  <2>3. /\ modals' \in Seq(Guards) /\ Len(modals') <= Len(modals)
        /\ NoServicePrompt(modals) => NoServicePrompt(modals')
        /\ modals[Len(modals)] \in Guards
        /\ NoServicePrompt(modals) => modals[Len(modals)] # "service"
    BY <1>0, <2>1, PromptClosed
  <2>4. Len(modals') \in Nat
    BY <2>3, LenProperties
  <2> QED  BY <1>0, <2>2, <2>3, <2>4
<1>b. /\ ui.at = "idle" /\ pipe.client = "away" /\ pipe.outbox = NoAnswer
      /\ modals[Len(modals)] = "service" => ~Pending
  BY <1>0, <1>a DEF AnswerPrompt, IInv, Conversation, TalksAlone, YesIsUsedOnce,
                    PipeInOrder, Pipes
<1>c. /\ ui' \in UiStates /\ consent' \in {consent, "given"}
      /\ \/ ui' = ui /\ consent' = consent
         \/ /\ ui'.at = "open" /\ ui'.command = "RestoreNormalPower" /\ consent' = "given"
            /\ modals[Len(modals)] = "service"
  <2> DEFINE asks == [UiAt("open") EXCEPT !.command = "RestoreNormalPower"]
  <2>1. \/ ui' = ui /\ consent' = consent
        \/ ui' = asks /\ consent' = "given" /\ modals[Len(modals)] = "service"
    BY DEF AnswerPrompt
  <2>2. asks \in UiStates /\ asks.at = "open" /\ asks.command = "RestoreNormalPower"
    BY UiAtType DEF UiAt, UiStates, Commands
  <2>3. ui \in UiStates
    BY DEF IInv, TypeOK
  <2> HIDE DEF asks
  <2> QED  BY <2>1, <2>2, <2>3
<1>1. /\ manualReq' \in BOOLEAN /\ sameLatch' \in BOOLEAN
      /\ UNCHANGED <<guard, lease, pipe, connected, gate, news, startLatch, autoRestore,
                     request, storedLatch, held, stale>>
  BY DEF AnswerPrompt, Fixed, IInv, TypeOK
<1>2. TypeOK'
  BY <1>1, <1>a, <1>c DEF IInv, TypeOK
<1>3. Ownership' /\ LatchIsKept'
  BY <1>1 DEF IInv, Ownership, OneWriter, InLoop, LatchIsKept, LatchHeld, Guards
<1>4. PipeInOrder(pipe)' /\ ServedAlone' /\ TalksAlone'
  BY <1>1, <1>b, <1>c DEF IInv, Conversation, ServedAlone, TalksAlone, Serving, NotServing,
                          NoRequest, Guards
<1>5. YesIsUsedOnce' /\ VerdictIsTrue'
  BY <1>1, <1>a, <1>b, <1>c DEF IInv, Conversation, ServedAlone, Serving, YesIsUsedOnce,
                                VerdictIsTrue, Pending, NoRequest, Guards, PipeInOrder
<1> QED  BY <1>2, <1>3, <1>4, <1>5 DEF IInv, Conversation

(* The tray's process ends; what it left in the pipe is still a YES.       *)
LEMMA EndTraySound ==
  ASSUME IInv, NEW crashed \in BOOLEAN, EndTray(crashed)
  PROVE  IInv'
<1>0. /\ guard \in [Guards -> Loop] /\ guard["local"] \in Loop /\ "local" \in Guards
      /\ lease \in Guards \cup {"free"} /\ pipe \in Pipes /\ PipeInOrder(pipe)
      /\ modals \in Seq(Guards) /\ MaxModals \in Nat
  BY OwnershipAssumption DEF IInv, TypeOK, Conversation, Guards
<1>a. /\ modals' \in Seq(Guards) /\ Len(modals') <= MaxModals /\ NoServicePrompt(modals')
  BY <1>0, EmptySeq DEF EndTray, NoServicePrompt
<1>b. /\ Pending => consent' = consent
      /\ consent' \in {consent, "none"}
  BY DEF EndTray, Pending
<1>c. pipe.client = "writing" => pipe.inbox = NoRequest /\ request = NotServing
  BY DEF IInv, Conversation, PipeInOrder, ServedAlone, Serving
<1>1. /\ guard' \in [Guards -> Loop] /\ guard'["service"] = guard["service"]
      /\ guard'["local"].pc = "off"
      /\ lease' = (IF lease = "local" THEN "free" ELSE lease) /\ lease' \in Guards \cup {"free"}
      /\ ui' = UiAt("off") /\ UiAt("off") \in UiStates
      /\ UiAt("off").at = "off" /\ UiAt("off").command = "Query"
      /\ pipe' \in Pipes /\ PipeInOrder(pipe')
      /\ pipe'.client = "away" /\ pipe'.inbox = pipe.inbox /\ pipe'.outbox = NoAnswer
      /\ pipe'.server = pipe.server /\ pipe'.known = pipe.known /\ pipe'.replied = pipe.replied
      /\ connected' \in BOOLEAN /\ gate' \in BOOLEAN
      /\ startLatch' \in BOOLEAN /\ manualReq' \in BOOLEAN
      /\ stale' \in BOOLEAN /\ sameLatch' \in BOOLEAN /\ news' = "none"
      /\ UNCHANGED <<autoRestore, request, storedLatch, held>>
  BY <1>0, IdleType, UiAtType, ClosedSound DEF EndTray, Freed, UiAt, Guards
<1>2. TypeOK'
  BY <1>1, <1>a, <1>b DEF IInv, TypeOK
<1>3. Ownership' /\ LatchIsKept'
  BY <1>1 DEF IInv, Ownership, OneWriter, InLoop, LatchIsKept, LatchHeld, Guards
<1>4. PipeInOrder(pipe)' /\ ServedAlone' /\ TalksAlone'
  BY <1>1 DEF IInv, Conversation, ServedAlone, TalksAlone, Serving, NotServing, NoRequest,
              Guards
<1>5. YesIsUsedOnce' /\ VerdictIsTrue'
  BY <1>1, <1>a, <1>b, <1>c DEF IInv, Conversation, ServedAlone, Serving, YesIsUsedOnce,
                                VerdictIsTrue, Pending, NoRequest, Guards
<1> QED  BY <1>2, <1>3, <1>4, <1>5 DEF IInv, Conversation

-----------------------------------------------------------------------------
(* The invariant.                                                          *)

(* A connection grows older.                                               *)
LEMMA ElapseSound ==
  ASSUME IInv, Elapse
  PROVE  IInv'
<1>0. /\ guard \in [Guards -> Loop] /\ guard["local"] \in Loop /\ "local" \in Guards
      /\ lease \in Guards \cup {"free"} /\ pipe \in Pipes /\ PipeInOrder(pipe)
      /\ modals \in Seq(Guards) /\ MaxModals \in Nat
  BY OwnershipAssumption DEF IInv, TypeOK, Conversation, Guards
<1>1. /\ pipe' \in Pipes /\ PipeInOrder(pipe')
      /\ pipe'.client = pipe.client /\ pipe'.inbox = pipe.inbox /\ pipe'.outbox = pipe.outbox
      /\ pipe'.server = pipe.server /\ pipe'.known = pipe.known /\ pipe'.replied = pipe.replied
      /\ UNCHANGED <<guard, lease, autoRestore, request, storedLatch, held, ui, connected,
                     gate, modals, news, startLatch, manualReq, stale, consent, sameLatch>>
  BY <1>0, PipeElapsedSound DEF Elapse, tray, observers
<1>2. TypeOK'
  BY <1>1 DEF IInv, TypeOK
<1>3. Ownership' /\ LatchIsKept'
  BY <1>1 DEF IInv, Ownership, OneWriter, InLoop, LatchIsKept, LatchHeld, Guards
<1>4. PipeInOrder(pipe)' /\ ServedAlone' /\ TalksAlone'
  BY <1>1 DEF IInv, Conversation, ServedAlone, TalksAlone, Serving, NotServing, NoRequest,
              Guards
<1>5. YesIsUsedOnce' /\ VerdictIsTrue'
  BY <1>1 DEF IInv, Conversation, ServedAlone, Serving, YesIsUsedOnce, VerdictIsTrue,
              Pending, NoRequest, Guards
<1> QED  BY <1>2, <1>3, <1>4, <1>5 DEF IInv, Conversation

(* Nobody guards the GPU, nobody talks, and nothing was recorded.          *)
LEMMA InitSound == Init => IInv
<1> SUFFICES ASSUME Init PROVE IInv
  OBVIOUS
<1>1. /\ guard \in [Guards -> Loop] /\ \A g \in Guards : guard[g].pc = "off"
  BY IdleType DEF Init
<1>2. /\ pipe \in Pipes /\ PipeInOrder(pipe) /\ pipe.server = "none" /\ pipe.client = "away"
      /\ pipe.inbox = NoRequest /\ pipe.outbox = NoAnswer
  BY PipeAssumption DEF Init, Instance, Pipes, PipeInOrder
<1>3. /\ ui \in UiStates /\ ui.at = "off" /\ ui.command = "Query"
      /\ modals \in Seq(Guards) /\ Len(modals) <= MaxModals
  BY UiAtType, EmptySeq, OwnershipAssumption DEF Init, UiAt
<1>4. TypeOK
  BY <1>1, <1>2, <1>3 DEF Requests, Init, TypeOK, NotServing
<1>5. Ownership /\ LatchIsKept
  BY <1>1 DEF Init, Ownership, OneWriter, InLoop, LatchIsKept, LatchHeld, Guards
<1>6. ServedAlone /\ TalksAlone
  BY <1>1, <1>2, <1>3 DEF Init, ServedAlone, TalksAlone, Serving, NotServing, NoRequest,
                          Guards
<1>7. YesIsUsedOnce /\ VerdictIsTrue
  BY <1>2, <1>3 DEF Init, YesIsUsedOnce, VerdictIsTrue, Pending, NotServing, NoRequest
<1> QED  BY <1>2, <1>4, <1>5, <1>6, <1>7 DEF IInv, Conversation

(* A guard's loop keeps it.                                                *)
LEMMA LoopsSound ==
  ASSUME IInv, NEW g \in Guards, Loops(g)
  PROVE  IInv'
<1>1. CASE \E seen, trips, ready \in BOOLEAN : Observe(g, seen, trips, ready)
  BY <1>1, ObserveSound
<1>2. CASE \E verified \in BOOLEAN : \/ BootWrite(g, verified) \/ ApplySafePower(g, verified)
                                     \/ RestoreFallback(g, verified)
                                     \/ RetrySafePower(g, verified)
  BY <1>2, GuardBootWriteSound, GuardApplySafePowerSound, GuardRestoreFallbackSound,
     GuardRetrySafePowerSound
<1>3. CASE BootSave(g) \/ RecordTrip(g) \/ RestoreSave(g) \/ RecordRetry(g) \/ NoRetry(g)
  BY <1>3, GuardBootSaveSound, GuardRecordTripSound, GuardRestoreSaveSound,
     GuardRecordRetrySound,
     GuardNoRetrySound
<1>4. CASE \E stage \in {"auto", "manual"} : NoRestore(g, stage) \/ RefuseRestore(g, stage)
  BY <1>4, NoRestoreSound, RefuseRestoreSound
<1>5. CASE \E stage \in {"auto", "manual"}, verified, mayRetry \in BOOLEAN :
             Restore(g, stage, verified, mayRetry)
  BY <1>5, GuardRestoreSound
<1> QED  BY <1>1, <1>2, <1>3, <1>4, <1>5 DEF Loops

(* Every step of the service, of the tray and of their guards keeps it.    *)
LEMMA StepSound == IInv /\ [Next]_vars => IInv'
<1> SUFFICES ASSUME IInv, [Next]_vars PROVE IInv'
  OBVIOUS
<1>1. CASE UNCHANGED vars
  BY <1>1 DEF vars, tray, observers, IInv, TypeOK, Ownership, OneWriter, InLoop,
              LatchIsKept,
              LatchHeld, Conversation, ServedAlone, Serving, TalksAlone, YesIsUsedOnce, Pending,
              VerdictIsTrue
<1>2. CASE \E g \in Guards : Boot(g) \/ BootFails(g) \/ Loops(g)
  BY <1>2, BootSound, BootFailsSound, LoopsSound
<1>3. CASE Serves \/ StartService \/ StopService \/ ReleaseLease \/ CrashService
  BY <1>3, PollPipeSound, ReplyToRequestSound, StartServiceSound, StopServiceSound,
     ReleaseLeaseSound, CrashServiceSound DEF Serves
<1>4. CASE Talks \/ QueryBlind
  BY <1>4, QuerySound, QueryBlindSound, OpenPipeSound, WriteRequestSound, ReadAnswerSound,
     HandleServiceResponseSound, HandleLocalProtectionSound, UnansweredSound DEF Talks
<1>5. CASE \E yes \in BOOLEAN : AnswerPrompt(yes)
  BY <1>5, AnswerPromptSound
<1>6. CASE \E crashed \in BOOLEAN : EndTray(crashed)
  BY <1>6, EndTraySound
<1>7. CASE Elapse
  BY <1>7, ElapseSound
<1> QED  BY <1>1, <1>2, <1>3, <1>4, <1>5, <1>6, <1>7 DEF Next

-----------------------------------------------------------------------------
(* Theorems.                                                               *)

(* In every reachable state the guards, the registry, the pipe and the     *)
(* tray agree on who protects the GPU and on what was asked.               *)
THEOREM OwnershipInvariant == Spec => []IInv
BY InitSound, StepSound, PTL DEF Spec

(* Service and local worker never work on the card at the same time,       *)
(* however they start, stop, die and take over from one another.           *)
THEOREM NeverTwoWriters == Spec => []WriterIsOne
<1>1. IInv => WriterIsOne
  BY DEF IInv, Ownership, WriterIsOne
<1> QED  BY <1>1, OwnershipInvariant, PTL

(* A recorded trip is held by whichever guard runs next, until a restore   *)
(* was verified (but for a worker that was told of the latch too early).   *)
THEOREM TripOutlivesItsGuard == Spec => []LatchHeld
<1>1. IInv => LatchHeld
  BY DEF IInv, LatchIsKept
<1> QED  BY <1>1, OwnershipInvariant, PTL

(* Which request is served changes only when the service looks for one,    *)
(* answers it, or dies.                                                    *)
LEMMA RequestStays ==
  ASSUME IInv, [Next]_vars, guard'["service"].pc \in {"manualSave", "manualFallback"}
  PROVE  request'.command = request.command
<1>1. /\ guard \in [Guards -> Loop] /\ "service" \in Guards
      /\ request \in Requests
  BY DEF IInv, TypeOK, Guards
<1>2. CASE UNCHANGED request
  BY <1>2
<1>3. ASSUME NEW g \in Guards, NEW stage, NEW outcome, Outcome(g, stage, outcome)
      PROVE  request'.command = request.command
  BY <1>1, <1>3 DEF Outcome
<1>4. ASSUME NEW g \in Guards, Loops(g)
      PROVE  request'.command = request.command
  <2>1. CASE \/ \E seen, trips, ready \in BOOLEAN : Observe(g, seen, trips, ready)
             \/ \E verified \in BOOLEAN : \/ BootWrite(g, verified) \/ ApplySafePower(g, verified)
                                          \/ RestoreFallback(g, verified)
                                          \/ RetrySafePower(g, verified)
             \/ BootSave(g) \/ RecordTrip(g) \/ RestoreSave(g) \/ RecordRetry(g) \/ NoRetry(g)
    <3>1. UNCHANGED request
      BY <2>1 DEF Observe, BootWrite, ApplySafePower, RestoreFallback, RetrySafePower,
                  BootSave,
                  RecordTrip, RestoreSave, RecordRetry, NoRetry, Elsewhere
    <3> QED  BY <3>1
  <2>2. CASE \E stage \in {"auto", "manual"} :
               \/ NoRestore(g, stage) \/ RefuseRestore(g, stage)
               \/ \E verified, mayRetry \in BOOLEAN : Restore(g, stage, verified, mayRetry)
    <3>1. ASSUME NEW stage \in {"auto", "manual"}, NoRestore(g, stage)
          PROVE  request'.command = request.command
      BY <1>3, <3>1 DEF NoRestore
    <3>2. ASSUME NEW stage \in {"auto", "manual"}, RefuseRestore(g, stage)
          PROVE  request'.command = request.command
      BY <1>3, <3>2 DEF RefuseRestore
    <3>3. ASSUME NEW stage \in {"auto", "manual"}, NEW verified \in BOOLEAN,
                 NEW mayRetry \in BOOLEAN, Restore(g, stage, verified, mayRetry)
          PROVE  request'.command = request.command
      <4>1. Outcome(g, stage, IF verified THEN "done" ELSE "failed")
        BY <3>3 DEF Restore
      <4> QED  BY <1>3, <4>1
    <3> QED  BY <2>2, <3>1, <3>2, <3>3
  <2> QED  BY <1>4, <2>1, <2>2 DEF Loops
<1>5. CASE Serves \/ CrashService
  <2>1. CASE PollPipe
    <3>1. guard'["service"].pc \in {"wait", "reply", "manual"}
      BY <1>1, <2>1 DEF PollPipe, Loop
    <3> QED  BY <3>1
  <2>2. CASE \E armed \in BOOLEAN : ReplyToRequest(armed)
    BY <1>1, <2>2 DEF ReplyToRequest, Loop
  <2>3. CASE CrashService
    BY <1>1, <2>3, IdleType DEF CrashService
  <2> QED  BY <1>5, <2>1, <2>2, <2>3 DEF Serves
<1>6. CASE StartService \/ StopService \/ ReleaseLease \/ Talks \/ QueryBlind \/ Elapse
           \/ \E yes \in BOOLEAN : AnswerPrompt(yes)
           \/ \E crashed \in BOOLEAN : EndTray(crashed)
           \/ \E g \in Guards : Boot(g) \/ BootFails(g)
  <2>1. UNCHANGED request
    BY <1>6 DEF StartService, StopService, ReleaseLease, Elsewhere, Talks, Query, OpenPipe,
                WriteRequest, ReadAnswer, HandleServiceResponse, HandleLocalProtection,
                Unanswered, QueryBlind, Elapse, AnswerPrompt, EndTray, Boot, BootFails, Fixed
  <2> QED  BY <2>1
<1> QED  BY <1>2, <1>4, <1>5, <1>6 DEF Next, vars

(* The service restores on request only for a YES that was not used yet.   *)
THEOREM OneYesOneRestore == Spec => ConsentPerRestore
<1> DEFINE Once == guard["service"].pc = "manual"
                     /\ guard'["service"].pc \in {"manualSave", "manualFallback"}
                     => consent = "given"
<1>1. IInv /\ [Next]_vars => [Once]_vars
  <2> SUFFICES ASSUME IInv, [Next]_vars, guard["service"].pc = "manual",
                      guard'["service"].pc \in {"manualSave", "manualFallback"}
               PROVE  consent = "given"
    OBVIOUS
  <2>1. IInv'
    BY StepSound
  <2>2. request'.command = "RestoreNormalPower"
    BY <2>1 DEF IInv, Conversation, ServedAlone
  <2>3. request.command = "RestoreNormalPower"
    BY <2>2, RequestStays
  <2> QED  BY <2>3 DEF IInv, Conversation, YesIsUsedOnce
<1> QED  BY <1>1, OwnershipInvariant, PTL DEF Spec, ConsentPerRestore

(* What the tray reads after a YES says what became of that YES.           *)
THEOREM AnswersAreHonest == Spec => AnswerIsHonest
<1>1. IInv /\ [Next]_vars =>
        [ReadAnswer => IF ui.command = "Query" THEN ~pipe.outbox.done
                       ELSE pipe.outbox.done <=> consent = "done"]_vars
  BY DEF IInv, Conversation, VerdictIsTrue, ReadAnswer, Answered
<1> QED  BY <1>1, OwnershipInvariant, PTL DEF Spec, AnswerIsHonest
=============================================================================
