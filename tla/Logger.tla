------------------------------- MODULE Logger -------------------------------
(***************************************************************************)
(* The internal back end of the logger (core/logger/logger.cpp), which the *)
(* default build uses: the threads of the program push messages to a queue *)
(* and one writer thread prints them.                                      *)
(*                                                                         *)
(* The writer is started before the members declared after it are made:    *)
(* until then the flag it reads may have any value, and if it sleeps on    *)
(* the condition variable by then, nobody may know of it.  The critical    *)
(* sections do not wait inside, so that each is one step.  main has joined *)
(* its threads when the logger is destroyed.                               *)
(***************************************************************************)
EXTENDS Naturals, Sequences

CONSTANTS
  Threads,      \* the threads that log
  MaxMessages,  \* bound on the calls of log of each thread
  Levels        \* the levels they log at

ASSUME LoggerAssumption == MaxMessages \in Nat /\ Levels \subseteq Nat

Message == Threads \X (1 .. MaxMessages)

VARIABLES
  level,     \* the least level that is logged
  calls,     \* thread -> how often it has called log
  pc,        \* thread -> where it is in push_message
  messages,  \* the queue
  writer,    \* where the writer thread is
  pending,   \* pending_messages: what the writer took from the queue
  active,
  impl,      \* where the life of logger_impl is
  printed,   \* what was printed
  pushed     \* history: all messages as they were pushed

loggers == <<level, calls, pc, pushed>>
loggervars == <<loggers, messages, writer, pending, active, impl, printed>>

LoggerInit ==
  /\ level \in Levels
  /\ calls = [t \in Threads |-> 0]
  /\ pc = [t \in Threads |-> "idle"]
  /\ messages = <<>> /\ pending = <<>>
  /\ writer = "loop"
  /\ active \in BOOLEAN
  /\ impl = "constructing"
  /\ printed = <<>> /\ pushed = <<>>

(* The end of the constructor, after the writer's start.                   *)
Construct ==
  /\ impl = "constructing"
  /\ impl' = "alive"
  /\ active' = TRUE
  /\ writer' \in IF writer = "asleep" THEN {"asleep", "stranded"} ELSE {writer}
  /\ UNCHANGED <<loggers, messages, pending, printed>>

(* main sets the level before it has any other threads.                    *)
SetLevel ==
  /\ impl = "alive" /\ \A t \in Threads : calls[t] = 0
  /\ level' \in Levels
  /\ UNCHANGED <<calls, pc, pushed, messages, writer, pending, active, impl, printed>>

Log(t) ==
  /\ impl = "alive" /\ pc[t] = "idle" /\ calls[t] < MaxMessages
  /\ calls' = [calls EXCEPT ![t] = @ + 1]
  /\ \E l \in Levels : pc' = [pc EXCEPT ![t] = IF level > l THEN "idle" ELSE "push"]
  /\ UNCHANGED <<level, pushed, messages, writer, pending, active, impl, printed>>

Push(t) ==
  /\ pc[t] = "push"
  /\ messages' = Append(messages, <<t, calls[t]>>)
  /\ pushed' = Append(pushed, <<t, calls[t]>>)
  /\ pc' = [pc EXCEPT ![t] = "notify"]
  /\ UNCHANGED <<level, calls, writer, pending, active, impl, printed>>

Wake == writer' = IF writer = "asleep" THEN "woken" ELSE writer

Notify(t) ==
  /\ pc[t] = "notify"
  /\ pc' = [pc EXCEPT ![t] = "idle"]
  /\ Wake
  /\ UNCHANGED <<level, calls, pushed, messages, pending, active, impl, printed>>

(* The writer goes on or ends, whatever is in the queue.                   *)
TestActive ==
  /\ writer = "loop"
  /\ writer' = IF active THEN "wait" ELSE "ended"
  /\ UNCHANGED <<loggers, messages, pending, active, impl, printed>>

(* It sleeps without a look at the queue.                                  *)
Wait ==
  /\ writer = "wait"
  /\ writer' = "asleep"
  /\ UNCHANGED <<loggers, messages, pending, active, impl, printed>>

SpuriousWakeup == writer = "asleep" /\ Wake
                  /\ UNCHANGED <<loggers, messages, pending, active, impl, printed>>

(* Mutant: the queue is copied and not emptied.                            *)
TakeCopy ==
  /\ writer = "woken"
  /\ pending' = messages
  /\ writer' = IF messages = <<>> THEN "loop" ELSE "write"
  /\ UNCHANGED <<loggers, messages, active, impl, printed>>

(* Mutant: the flag is tested again before the queue is taken.             *)
TakeIfActive ==
  /\ writer = "woken"
  /\ \/ active /\ pending' = messages /\ messages' = <<>>
        /\ writer' = IF messages = <<>> THEN "loop" ELSE "write"
     \/ ~active /\ writer' = "ended" /\ UNCHANGED <<messages, pending>>
  /\ UNCHANGED <<loggers, active, impl, printed>>

Take ==
  /\ writer = "woken"
  /\ pending' = messages
  /\ messages' = <<>>
  /\ writer' = IF messages = <<>> THEN "loop" ELSE "write"
  /\ UNCHANGED <<loggers, active, impl, printed>>

WriteMessage ==
  /\ writer = "write"
  /\ printed' = Append(printed, Head(pending))
  /\ pending' = Tail(pending)
  /\ writer' = IF Len(pending) = 1 THEN "loop" ELSE "write"
  /\ UNCHANGED <<loggers, messages, active, impl>>

Destroy ==
  /\ impl = "alive" /\ \A t \in Threads : pc[t] = "idle"
  /\ impl' = "notify"
  /\ active' = FALSE
  /\ UNCHANGED <<loggers, messages, writer, pending, printed>>

NotifyEnd ==
  /\ impl = "notify"
  /\ impl' = "join"
  /\ Wake
  /\ UNCHANGED <<loggers, messages, pending, active, printed>>

Join ==
  /\ impl = "join" /\ writer = "ended"
  /\ impl' = "destroyed"
  /\ UNCHANGED <<loggers, messages, writer, pending, active, printed>>

Pushing(t) == Push(t) \/ Notify(t)
Writing == TestActive \/ Wait \/ Take \/ WriteMessage
Destruction == NotifyEnd \/ Join

LoggerNext ==
  \/ Construct \/ SetLevel
  \/ \E t \in Threads : Log(t) \/ Push(t) \/ Notify(t)
  \/ TestActive \/ Wait \/ SpuriousWakeup \/ Take \/ WriteMessage
  \/ Destroy \/ NotifyEnd \/ Join

LoggerSpec == LoggerInit /\ [][LoggerNext]_loggervars

(* Threads that can run do; nobody has to log or to end the program, and   *)
(* no wakeup is owed without a notification.                               *)
FairSpec ==
  /\ LoggerSpec
  /\ WF_loggervars(Construct) /\ WF_loggervars(Writing) /\ WF_loggervars(Destruction)
  /\ \A t \in Threads : WF_loggervars(Pushing(t))
-----------------------------------------------------------------------------
TypeOK ==
  /\ level \in Levels
  /\ calls \in [Threads -> 0 .. MaxMessages]
  /\ pc \in [Threads -> {"idle", "push", "notify"}]
  /\ messages \in Seq(Message) /\ pending \in Seq(Message)
  /\ printed \in Seq(Message) /\ pushed \in Seq(Message)
  /\ writer \in {"loop", "wait", "asleep", "stranded", "woken", "write", "ended"}
  /\ active \in BOOLEAN
  /\ impl \in {"constructing", "alive", "notify", "join", "destroyed"}

(* What was printed, what the writer holds and what is in the queue are    *)
(* together all messages in the order in which they were pushed: however   *)
(* late, each is printed once and in its turn, or never for the queue is   *)
(* destroyed with the logger.                                              *)
NothingOutOfTurn == printed \o pending \o messages = pushed

Has(queue, m) == \E k \in DOMAIN queue : queue[k] = m

(* A notification that finds the writer asleep is not in vain, although    *)
(* nothing but the notification tells it of a message or of its end: what  *)
(* is in the queue by then gets printed, and the destructor returns.       *)
SleeperIsHeard ==
  /\ \A m \in Message :
       (\E t \in Threads : pc[t] = "notify") /\ writer = "asleep" /\ Has(messages, m)
         ~> Has(printed, m)
  /\ impl = "notify" /\ writer = "asleep" ~> impl = "destroyed"

=============================================================================
