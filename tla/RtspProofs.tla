------------------------------ MODULE RtspProofs ------------------------------
(***************************************************************************)
(* Proofs about the RTSP client, for any times the client is compiled with *)
(* in which it waits longer for its thread than the thread sleeps, and any *)
(* timeouts and delays of the server.                                      *)
(***************************************************************************)
EXTENDS RtspClient, SequenceTheorems, TLAPS

Methods == {"OPTIONS", "DESCRIBE", "SETUP", "PLAY", "TEARDOWN"}
Requests == [by : {"main", "thread"}, method : Methods]

(* Where the decode task is: before it makes the thread, and after it has   *)
(* told it to stop.                                                         *)
Asking == main.pc \in {"send", "receive"}

Opening ==
  \/ main.pc \in {"connect", "ports", "threads"}
  \/ Asking /\ main.method \in {"OPTIONS", "DESCRIBE", "SETUP"}

Stopping ==
  \/ main.pc \in {"destroy", "disconnect", "pend", "deleted"}
  \/ Asking /\ main.method = "TEARDOWN"

(* The parts of TypeOK, and that no answer comes that nobody waits for.     *)
Mains ==
  [pc : {"connect", "send", "receive", "ports", "threads", "open", "stop", "destroy",
         "disconnect", "pend", "deleted"},
   method : {"none"} \union Methods,
   destroys : BOOLEAN, waited : 0 .. WAIT_TO_EXIT_KEEP_ALIVE_THREAD]

Threads == [pc : {"none", "sleep", "send", "receive", "test", "post", "ended"},
            sleep : 0 .. KEEP_ALIVE_TASK_LOOP_SLEEP, slept : Nat]

Servers == [up : BOOLEAN, session : BOOLEAN, timeout : Nat, age : Nat, delay : 0 .. MaxDelay]

Records == main \in Mains /\ thread \in Threads /\ server \in Servers

Sequences == requests \in Seq(Requests) /\ stream \in Seq(BOOLEAN)

Flags ==
  /\ keepAliveTimeout \in Nat /\ connected \in BOOLEAN /\ merged \in BOOLEAN
  /\ udpReceiver \in {"none", "alive", "destroyed"}
  /\ Asking => main.method \in Methods

Types == Records /\ Sequences /\ Flags

Waiting ==
  (IF main.pc = "receive" THEN 1 ELSE 0) + (IF thread.pc = "receive" THEN 1 ELSE 0)

NoStrayAnswer ==
  /\ Len(requests) + Len(stream) <= 2
  /\ connected => Len(requests) + Len(stream) <= Waiting
  /\ ~server.up => requests = << >>
  /\ main.pc = "connect" => requests = << >> /\ stream = << >>

(* The thread runs from its creation until it has found the stop, which is  *)
(* posted once.                                                             *)
StopOnce ==
  /\ Opening => thread.pc = "none"
  /\ stopKeepAliveThreadSem \in 0 .. 1 /\ keepAliveTaskExitSem \in 0 .. 1
  /\ ~Stopping => stopKeepAliveThreadSem = 0
  /\ Stopping /\ thread.pc \in {"sleep", "send", "receive", "test"} => stopKeepAliveThreadSem = 1
  /\ thread.pc # "ended" => keepAliveTaskExitSem = 0

(* The thread has at most a sleep to go when the wait for it begins.        *)
InTime ==
  /\ main.pc \in {"pend", "deleted"} => ~connected
  /\ main.pc = "pend" /\ thread.pc = "sleep" =>
       thread.sleep + main.waited <= KEEP_ALIVE_TASK_LOOP_SLEEP
  /\ main.pc = "pend" /\ thread.pc \in {"send", "receive", "test", "post"} =>
       main.waited <= KEEP_ALIVE_TASK_LOOP_SLEEP

(* The receiver is destroyed before the TEARDOWN.                           *)
ReceiverFirst ==
  main.destroys /\ Stopping /\ main.pc # "destroy" => udpReceiver # "alive"

ClientInv ==
  /\ Types /\ NoStrayAnswer /\ StopOnce /\ InTime /\ ReceiverFirst /\ ClientOutlivesThread

-------------------------------------------------------------------------------
(* The session, from its SETUP on.                                          *)

(* keepAliveTimeout is what the server has announced.                       *)
Announced ==
  /\ \A i \in 1 .. Len(requests) : requests[i].method = "SETUP" =>
       main.pc = "receive" /\ main.method = "SETUP"
  /\ ~server.up => ~server.session
  /\ server.session /\ (main.pc = "threads" \/ thread.pc # "none") =>
       keepAliveTimeout = KeepAlive(server.timeout)

(* A client that is open, or about to be, has a connection, and an answer   *)
(* is taken in the second in which it comes.                                *)
Fresh ==
  /\ \/ main.pc \in {"receive", "ports", "threads", "open"}
     \/ main.pc = "send" /\ main.method # "TEARDOWN"
     => connected
  /\ connected /\ stream # << >> => server.age = 0
  /\ requests = << >> /\ (server.up \/ main.pc = "connect") => server.delay = 0
  /\ Opening /\ server.session =>
       /\ server.age = 0 /\ main.method = "SETUP"
       /\ main.pc = "threads" \/ (main.pc = "receive" /\ stream # << >>)

(* Whoever waits is owed an answer, and PLAY's comes before the thread      *)
(* sends its first request.                                                 *)
Playing == Asking /\ main.method = "PLAY"

SleptFor ==
  thread.slept + (IF thread.pc = "sleep" THEN KEEP_ALIVE_TASK_LOOP_SLEEP - thread.sleep ELSE 0)

PlayFirst ==
  /\ server.session /\ Playing => thread.pc \in {"sleep", "test"} /\ SleptFor <= MaxDelay
  /\ server.session /\ Playing /\ stream = << >> => SleptFor <= server.delay
  /\ /\ server.session
     /\ (main.pc = "receive" /\ Playing) \/ (main.pc = "open" /\ thread.pc = "receive")
     => requests # << >> \/ stream # << >>

(* How long the session has been idle, where the thread is.                 *)
Idle ==
  server.session /\ (Playing \/ main.pc = "open") =>
    /\ thread.pc # "none"
    /\ thread.pc \in {"sleep", "test"} => thread.slept <= SleepDuration /\ server.age <= SleptFor
    /\ thread.pc = "send" => server.age <= SleepDuration + KEEP_ALIVE_TASK_LOOP_SLEEP
    /\ thread.pc = "receive" /\ stream = << >> =>
         server.age <= SleepDuration + KEEP_ALIVE_TASK_LOOP_SLEEP + server.delay
    /\ thread.pc = "post" => server.age = 0

SessionInv == Announced /\ Fresh /\ PlayFirst /\ Idle

-------------------------------------------------------------------------------
(* Where a response takes the decode task.                                  *)
LEMMA AfterResponse ==
  ASSUME Types, ReceiveResponse
  PROVE  /\ main.pc = "receive" /\ main' \in Mains
         /\ main.method # "SETUP" => keepAliveTimeout' = keepAliveTimeout
         /\ main.method = "TEARDOWN" => main' = [main EXCEPT !.pc = "disconnect"]
         /\ main.method # "TEARDOWN" =>
              \/ main' = [main EXCEPT !.pc = "stop", !.destroys = TRUE]
              \/ /\ stream # << >> /\ connected
                 /\ main.method = "SETUP" => keepAliveTimeout' = KeepAlive(server.timeout)
                 /\ main' = CASE main.method = "OPTIONS"  -> [main EXCEPT !.pc = "send",
                                                                         !.method = "DESCRIBE"]
                              [] main.method = "DESCRIBE" -> [main EXCEPT !.pc = "ports"]
                              [] main.method = "SETUP"    -> [main EXCEPT !.pc = "threads"]
                              [] main.method = "PLAY"     -> [main EXCEPT !.pc = "open"]
<1> USE DEF Types, Records, Flags, Asking, Methods
<1>1. main.pc = "receive"
  BY DEF ReceiveResponse
<1>2. PICK ok \in BOOLEAN :
        /\ Receives(ok)
        /\ CASE main.method = "TEARDOWN"  -> MainGoto("disconnect")
             [] OTHER -> IF ~ok THEN Error
                         ELSE CASE main.method = "OPTIONS"  -> MainSends("DESCRIBE")
                                [] main.method = "DESCRIBE" -> MainGoto("ports")
                                [] main.method = "SETUP"    -> MainGoto("threads")
                                [] main.method = "PLAY"     -> MainGoto("open")
  BY DEF ReceiveResponse
<1>0. /\ main.method # "SETUP" => keepAliveTimeout' = keepAliveTimeout
      /\ main.method = "SETUP" /\ stream # << >> /\ connected /\ Head(stream)
           => keepAliveTimeout' = KeepAlive(server.timeout)
  BY DEF ReceiveResponse, Receives
<1>3. CASE main.method = "TEARDOWN"
  BY <1>1, <1>2, <1>0, <1>3 DEF MainGoto, Mains
<1>4. CASE main.method # "TEARDOWN" /\ ~ok
  BY <1>1, <1>2, <1>0, <1>4 DEF Error, Mains
<1>5. CASE main.method # "TEARDOWN" /\ ok
  <2>1. stream # << >> /\ connected /\ Head(stream)
    BY <1>2, <1>5 DEF Receives
  <2>2. CASE main.method = "OPTIONS"
    BY <1>1, <1>2, <1>0, <1>5, <2>1, <2>2 DEF MainSends, Mains
  <2>3. CASE main.method = "DESCRIBE"
    BY <1>1, <1>2, <1>0, <1>5, <2>1, <2>3 DEF MainGoto, Mains
  <2>4. CASE main.method = "SETUP"
    BY <1>1, <1>2, <1>0, <1>5, <2>1, <2>4 DEF MainGoto, Mains
  <2>5. CASE main.method = "PLAY"
    BY <1>1, <1>2, <1>0, <1>5, <2>1, <2>5 DEF MainGoto, Mains
  <2>6. QED
    BY <1>1, <1>0, <1>5, <2>1, <2>2, <2>3, <2>4, <2>5
<1>6. QED
  BY <1>0, <1>2, <1>3, <1>4, <1>5

(* The steps of the session part, field by field.                           *)
LEMMA SendMoves ==
  ASSUME Types, SendRequest
  PROVE  /\ main.pc = "send" /\ UNCHANGED <<thread, client, stream, server>>
         /\ \/ /\ main'.pc = "receive" /\ main'.method = main.method /\ connected
               /\ requests' = IF server.up
                                THEN Append(requests, [by |-> "main", method |-> main.method])
                                ELSE requests
            \/ /\ main'.pc = "disconnect" /\ main.method = "TEARDOWN" /\ requests' = requests
            \/ main'.pc = "stop" /\ main.method # "TEARDOWN" /\ requests' = requests
         /\ main'.pc # "receive" => ~connected \/ ~server.up
BY DEF SendRequest, Sends, MainGoto, Error, Types, Records, Mains

(* A response moves the decode task on, or to its error exit.                *)
LEMMA ResponseMoves ==
  ASSUME Types, ReceiveResponse
  PROVE  /\ main.pc = "receive"
         /\ UNCHANGED <<thread, connected, stopKeepAliveThreadSem, requests, server>>
         /\ stream' = IF connected THEN << >> ELSE stream
         /\ stream # << >> \/ ~connected \/ ~server.up
         /\ \/ main'.pc = "stop" /\ main.method # "TEARDOWN"
            \/ /\ main'.pc = "disconnect" /\ main.method = "TEARDOWN"
               /\ main'.destroys = main.destroys
            \/ /\ main'.pc = "send" /\ main.method = "OPTIONS" /\ main'.method = "DESCRIBE"
               /\ stream # << >> /\ connected
            \/ /\ main'.pc = "ports" /\ main.method = "DESCRIBE" /\ stream # << >> /\ connected
            \/ /\ main'.pc = "threads" /\ main.method = "SETUP" /\ main'.method = "SETUP"
               /\ keepAliveTimeout' = KeepAlive(server.timeout) /\ stream # << >> /\ connected
            \/ /\ main'.pc = "open" /\ main.method = "PLAY" /\ stream # << >> /\ connected
         /\ main.method # "SETUP" => keepAliveTimeout' = keepAliveTimeout
<1>1. main.method \in Methods /\ main.pc = "receive"
  BY DEF ReceiveResponse, Types, Flags, Asking
<1>2. /\ UNCHANGED <<thread, connected, stopKeepAliveThreadSem, requests, server>>
      /\ stream' = IF connected THEN << >> ELSE stream
      /\ stream # << >> \/ ~connected \/ ~server.up
  BY DEF ReceiveResponse, Receives, Readable
<1>3. QED
  BY <1>1, <1>2, AfterResponse DEF Types, Records, Mains, Methods

(* A wake counts the sleep that is over.                                     *)
LEMMA WakeMoves ==
  ASSUME Types, Wake
  PROVE  /\ thread.pc = "sleep" /\ thread.sleep = 0 /\ UNCHANGED <<main, client, network>>
         /\ thread'.slept = thread.slept + KEEP_ALIVE_TASK_LOOP_SLEEP
         /\ thread'.pc = IF thread'.slept > SleepDuration THEN "send" ELSE "test"
         /\ SleptFor = thread'.slept
<1>1. /\ thread.pc = "sleep" /\ thread.sleep = 0 /\ UNCHANGED <<main, client, network>>
      /\ thread'.slept = thread.slept + KEEP_ALIVE_TASK_LOOP_SLEEP
      /\ thread'.pc = IF thread'.slept > SleepDuration THEN "send" ELSE "test"
  BY DEF Wake, Types, Records, Threads
<1>2. KEEP_ALIVE_TASK_LOOP_SLEEP \in Nat /\ thread.slept \in Nat
  BY RtspAssumption DEF RtspAssumption, Types, Records, Threads
<1>3. QED
  BY <1>1, <1>2 DEF SleptFor

(* Without a stop the thread sleeps again.                                   *)
LEMMA TestMoves ==
  ASSUME Types, TestStop
  PROVE  /\ thread.pc = "test" /\ thread'.slept = thread.slept /\ UNCHANGED <<main, network>>
         /\ UNCHANGED <<keepAliveTimeout, connected>>
         /\ \/ stopKeepAliveThreadSem > 0 /\ thread'.pc = "post"
            \/ thread'.pc = "sleep" /\ thread'.sleep = KEEP_ALIVE_TASK_LOOP_SLEEP
BY DEF TestStop, ThreadGoto, Types, Records, Threads

(* A response, whoever it was for, starts the count anew.                    *)
LEMMA OptionsMoves ==
  ASSUME Types, ReceiveOptions
  PROVE  /\ thread.pc = "receive" /\ UNCHANGED <<main, client, requests, server>>
         /\ stream # << >> \/ ~connected \/ ~server.up
         /\ stream' = IF connected THEN << >> ELSE stream
         /\ \/ thread'.pc = "test" /\ thread'.slept = 0
            \/ thread'.pc = "post"
<1>1. /\ thread.pc = "receive" /\ UNCHANGED <<main, client, requests, server>>
      /\ stream # << >> \/ ~connected \/ ~server.up
      /\ stream' = IF connected THEN << >> ELSE stream
      /\ \/ thread' = [thread EXCEPT !.pc = "test", !.slept = 0]
         \/ thread' = [thread EXCEPT !.pc = "post"]
  BY DEF ReceiveOptions, Receives, Readable
<1>2. QED
  BY <1>1 DEF Types, Records, Threads

(* Only the answer to SETUP makes a session, and its timeout.                *)
LEMMA AnswerMoves ==
  ASSUME Types, Answer
  PROVE  /\ requests # << >> /\ server.up /\ server'.up /\ UNCHANGED <<main, thread, client>>
         /\ requests' = Tail(requests) /\ server'.age = 0 /\ server'.delay = 0
         /\ connected => stream' # << >>
         /\ Head(requests).method # "SETUP" =>
              server'.timeout = server.timeout /\ (server'.session => server.session)
<1>1. PICK ok \in BOOLEAN, timeout \in Timeouts :
        /\ stream' = IF connected THEN Append(stream, ok) ELSE stream
        /\ server' = [server EXCEPT !.age = 0, !.delay = 0,
             !.session = (@ \/ (ok /\ Head(requests).method = "SETUP"))
                           /\ Head(requests).method # "TEARDOWN",
             !.timeout = IF ok /\ Head(requests).method = "SETUP" THEN timeout ELSE @]
  BY DEF Answer
<1>2. connected => stream' # << >>
  BY <1>1, AppendProperties DEF Types, Sequences
<1>3. /\ requests # << >> /\ server.up /\ requests' = Tail(requests)
      /\ UNCHANGED <<main, thread, client>>
  BY DEF Answer
<1>4. /\ server'.up = server.up /\ server'.age = 0 /\ server'.delay = 0
      /\ Head(requests).method # "SETUP" =>
           server'.timeout = server.timeout /\ (server'.session => server.session)
  BY <1>1 DEF Types, Records, Servers
<1>5. QED
  BY <1>2, <1>3, <1>4

(* A request sent is on its way.                                             *)
LEMMA NotEmpty ==
  ASSUME NEW by \in {"main", "thread"}, NEW method \in Methods, Sequences
  PROVE  Append(requests, [by |-> by, method |-> method]) # << >>
<1>1. [by |-> by, method |-> method] \in Requests
  BY DEF Requests
<1>2. QED
  BY <1>1, AppendProperties, LenProperties, EmptySeq DEF Sequences

(* A second passes for the server and for a sleeping thread.                 *)
LEMMA TickMoves ==
  ASSUME Types, Tick
  PROVE  /\ ~MainRuns /\ ~ThreadRuns /\ UNCHANGED <<client, requests, stream>>
         /\ main'.pc = main.pc /\ main'.method = main.method
         /\ thread'.pc = thread.pc /\ thread'.slept = thread.slept
         /\ thread.pc = "sleep" => thread'.sleep = thread.sleep - 1
         /\ server'.up = server.up /\ server'.session = server.session
         /\ server'.timeout = server.timeout
         /\ server'.age \in {server.age, server.age + 1}
         /\ requests # << >> => server'.delay = server.delay + 1 /\ server'.delay <= MaxDelay
         /\ requests = << >> => server'.delay = 0
         /\ thread.pc = "sleep" => SleptFor \in Int /\ SleptFor' = SleptFor + 1
         /\ server.age \in Nat /\ server.delay \in Nat
<1>1. /\ server'.up = server.up /\ server'.session = server.session
      /\ server'.timeout = server.timeout
      /\ server'.age \in {server.age, server.age + 1}
      /\ requests # << >> => server'.delay = server.delay + 1 /\ server'.delay <= MaxDelay
      /\ requests = << >> => server'.delay = 0
  BY RtspAssumption DEF RtspAssumption, Tick, Types, Records, Servers
<1>2. main'.pc = main.pc /\ main'.method = main.method
  BY DEF Tick, Types, Records, Mains
<1>3. /\ thread'.pc = thread.pc /\ thread'.slept = thread.slept
      /\ thread.pc = "sleep" => thread'.sleep = thread.sleep - 1
  BY DEF Tick, Types, Records, Threads
<1>4. ~MainRuns /\ ~ThreadRuns /\ UNCHANGED <<client, requests, stream>>
  BY DEF Tick
<1>5. /\ thread.sleep \in Int /\ thread.slept \in Int /\ KEEP_ALIVE_TASK_LOOP_SLEEP \in Int
      /\ server.age \in Nat /\ server.delay \in Nat
  BY RtspAssumption DEF RtspAssumption, Types, Records, Threads, Servers
<1>6. thread.pc = "sleep" => SleptFor \in Int /\ SleptFor' = SleptFor + 1
  BY <1>3, <1>5 DEF SleptFor
<1>7. QED
  BY <1>1, <1>2, <1>3, <1>4, <1>5, <1>6

(* Each action keeps the types of the records, ...                           *)
LEMMA MainKept ==
  ASSUME ClientInv, [Next]_vars
  PROVE  main' \in Mains
<1> USE RtspAssumption DEF RtspAssumption, ClientInv, Types, Records, Mains, Methods,
        MainGoto, MainSends, Error, ThreadGoto, client, network
<1>1. CASE Connect
  BY <1>1 DEF Connect
<1>2. CASE SendRequest
  BY <1>2 DEF SendRequest, Sends
<1>3. CASE ReceiveResponse
    BY <1>3, AfterResponse
<1>4. CASE CreateRtpPorts
  BY <1>4 DEF CreateRtpPorts
<1>5. CASE CreateThreads
  BY <1>5 DEF CreateThreads
<1>6. CASE Stop
  BY <1>6 DEF Stop
<1>7. CASE PostStop
  BY <1>7 DEF PostStop
<1>8. CASE DestroyReceiver
  BY <1>8 DEF DestroyReceiver
<1>9. CASE Disconnect
  <2>1. 0 \in 0 .. WAIT_TO_EXIT_KEEP_ALIVE_THREAD
    OBVIOUS
  <2>2. QED
    BY <1>9, <2>1 DEF Disconnect
<1>10. CASE PendExit
  BY <1>10 DEF PendExit
<1>11. CASE Wake
  BY <1>11 DEF Wake, SleepDuration
<1>12. CASE SendOptions
  BY <1>12 DEF SendOptions, Sends
<1>13. CASE ReceiveOptions
  BY <1>13 DEF ReceiveOptions, Receives, Readable
<1>14. CASE TestStop
  BY <1>14 DEF TestStop
<1>15. CASE PostExit
  BY <1>15 DEF PostExit
<1>16. CASE Answer
  BY <1>16 DEF Answer
<1>17. CASE CloseConnection
  BY <1>17 DEF CloseConnection
<1>18. CASE Tick
  BY <1>18 DEF Tick, MainRuns, ThreadRuns, Readable
<1>19. CASE UNCHANGED vars
  BY <1>19 DEF vars
<1>20. QED
  BY <1>1, <1>2, <1>3, <1>4, <1>5, <1>6, <1>7, <1>8, <1>9, <1>10, <1>11, <1>12, <1>13,
     <1>14, <1>15, <1>16, <1>17, <1>18, <1>19 DEF Next, Main, KeepAliveTask

(* ... of the thread's, ...                                                  *)
LEMMA ThreadKept ==
  ASSUME ClientInv, [Next]_vars
  PROVE  thread' \in Threads
<1> USE RtspAssumption DEF RtspAssumption, ClientInv, Types, Records, Threads, MainGoto,
        MainSends, Error, ThreadGoto, client, network
<1>1. CASE Connect
  BY <1>1 DEF Connect
<1>2. CASE SendRequest
  BY <1>2 DEF SendRequest, Sends
<1>3. CASE ReceiveResponse
  BY <1>3 DEF ReceiveResponse, Receives, Readable
<1>4. CASE CreateRtpPorts
  BY <1>4 DEF CreateRtpPorts
<1>5. CASE CreateThreads
  BY <1>5 DEF CreateThreads
<1>6. CASE Stop
  BY <1>6 DEF Stop
<1>7. CASE PostStop
  BY <1>7 DEF PostStop
<1>8. CASE DestroyReceiver
  BY <1>8 DEF DestroyReceiver
<1>9. CASE Disconnect
  BY <1>9 DEF Disconnect
<1>10. CASE PendExit
  BY <1>10 DEF PendExit
<1>11. CASE Wake
  <2>1. thread.slept + KEEP_ALIVE_TASK_LOOP_SLEEP \in Nat
    OBVIOUS
  <2>2. QED
    BY <1>11, <2>1 DEF Wake
<1>12. CASE SendOptions
  BY <1>12 DEF SendOptions, Sends
<1>13. CASE ReceiveOptions
  <2>1. \/ thread' = [thread EXCEPT !.pc = "test", !.slept = 0]
        \/ thread' = [thread EXCEPT !.pc = "post"]
    BY <1>13 DEF ReceiveOptions
  <2>2. [thread EXCEPT !.pc = "test", !.slept = 0] \in Threads
    OBVIOUS
  <2>3. [thread EXCEPT !.pc = "post"] \in Threads
    OBVIOUS
  <2>4. QED
    BY <2>1, <2>2, <2>3
<1>14. CASE TestStop
  <2>1. KEEP_ALIVE_TASK_LOOP_SLEEP \in 0 .. KEEP_ALIVE_TASK_LOOP_SLEEP
    OBVIOUS
  <2>2. QED
    BY <1>14, <2>1 DEF TestStop
<1>15. CASE PostExit
  BY <1>15 DEF PostExit
<1>16. CASE Answer
  BY <1>16 DEF Answer
<1>17. CASE CloseConnection
  BY <1>17 DEF CloseConnection
<1>18. CASE Tick
  BY <1>18 DEF Tick, MainRuns, ThreadRuns, Readable
<1>19. CASE UNCHANGED vars
  BY <1>19 DEF vars
<1>20. QED
  BY <1>1, <1>2, <1>3, <1>4, <1>5, <1>6, <1>7, <1>8, <1>9, <1>10, <1>11, <1>12, <1>13,
     <1>14, <1>15, <1>16, <1>17, <1>18, <1>19 DEF Next, Main, KeepAliveTask

(* ... and of the server's,                                                  *)
LEMMA ServerKept ==
  ASSUME ClientInv, [Next]_vars
  PROVE  server' \in Servers
<1> USE RtspAssumption DEF RtspAssumption, ClientInv, Types, Records, Servers, MainGoto,
        MainSends, Error, ThreadGoto, client, network
<1>1. CASE Connect
  BY <1>1 DEF Connect
<1>2. CASE SendRequest
  BY <1>2 DEF SendRequest, Sends
<1>3. CASE ReceiveResponse
  BY <1>3 DEF ReceiveResponse, Receives, Readable
<1>4. CASE CreateRtpPorts
  BY <1>4 DEF CreateRtpPorts
<1>5. CASE CreateThreads
  BY <1>5 DEF CreateThreads
<1>6. CASE Stop
  BY <1>6 DEF Stop
<1>7. CASE PostStop
  BY <1>7 DEF PostStop
<1>8. CASE DestroyReceiver
  BY <1>8 DEF DestroyReceiver
<1>9. CASE Disconnect
  BY <1>9 DEF Disconnect
<1>10. CASE PendExit
  BY <1>10 DEF PendExit
<1>11. CASE Wake
  BY <1>11 DEF Wake, SleepDuration
<1>12. CASE SendOptions
  BY <1>12 DEF SendOptions, Sends
<1>13. CASE ReceiveOptions
  BY <1>13 DEF ReceiveOptions, Receives, Readable
<1>14. CASE TestStop
  BY <1>14 DEF TestStop
<1>15. CASE PostExit
  BY <1>15 DEF PostExit
<1>16. CASE Answer
  <2>1. PICK ok \in BOOLEAN, timeout \in Timeouts :
          server' = [server EXCEPT !.age = 0, !.delay = 0,
            !.session = (@ \/ (ok /\ Head(requests).method = "SETUP"))
                          /\ Head(requests).method # "TEARDOWN",
            !.timeout = IF ok /\ Head(requests).method = "SETUP" THEN timeout ELSE @]
    BY <1>16 DEF Answer
  <2>2. 0 \in 0 .. MaxDelay /\ timeout \in Nat
    OBVIOUS
  <2>3. QED
    BY <2>1, <2>2
<1>17. CASE CloseConnection
  BY <1>17 DEF CloseConnection
<1>18. CASE Tick
  <2>1. /\ requests # << >> => server.delay + 1 \in 0 .. MaxDelay
        /\ server.age + 1 \in Nat /\ 0 \in 0 .. MaxDelay
    BY <1>18 DEF Tick
  <2>2. QED
    BY <1>18, <2>1 DEF Tick
<1>19. CASE UNCHANGED vars
  BY <1>19 DEF vars
<1>20. QED
  BY <1>1, <1>2, <1>3, <1>4, <1>5, <1>6, <1>7, <1>8, <1>9, <1>10, <1>11, <1>12, <1>13,
     <1>14, <1>15, <1>16, <1>17, <1>18, <1>19 DEF Next, Main, KeepAliveTask

(* of the requests and responses under way,                                  *)
LEMMA SequencesKept ==
  ASSUME ClientInv, [Next]_vars
  PROVE  Sequences'
<1> USE DEF ClientInv, Types, Sequences, MainGoto, MainSends, Error, ThreadGoto, client,
        network
<1>1. CASE Connect
  BY <1>1 DEF Connect
<1>2. CASE SendRequest
  <2>1. [by |-> "main", method |-> main.method] \in Requests
    BY <1>2 DEF SendRequest, Flags, Asking, Requests
  <2>2. stream' = stream /\ (requests' = requests \/
           requests' = Append(requests, [by |-> "main", method |-> main.method]))
    BY <1>2 DEF SendRequest, Sends
  <2>3. Append(requests, [by |-> "main", method |-> main.method]) \in Seq(Requests)
    BY <2>1, AppendProperties
  <2>4. QED
    BY <2>2, <2>3
<1>3. CASE ReceiveResponse
  BY <1>3, EmptySeq, LenProperties DEF ReceiveResponse, Receives, Readable
<1>4. CASE CreateRtpPorts
  BY <1>4 DEF CreateRtpPorts
<1>5. CASE CreateThreads
  BY <1>5 DEF CreateThreads
<1>6. CASE Stop
  BY <1>6 DEF Stop
<1>7. CASE PostStop
  BY <1>7 DEF PostStop
<1>8. CASE DestroyReceiver
  BY <1>8 DEF DestroyReceiver
<1>9. CASE Disconnect
  BY <1>9 DEF Disconnect
<1>10. CASE PendExit
  BY <1>10 DEF PendExit
<1>11. CASE Wake
  BY <1>11 DEF Wake, SleepDuration
<1>12. CASE SendOptions
  <2>1. [by |-> "thread", method |-> "OPTIONS"] \in Requests
    BY DEF Requests, Methods
  <2>2. stream' = stream /\ (requests' = requests \/
           requests' = Append(requests, [by |-> "thread", method |-> "OPTIONS"]))
    BY <1>12 DEF SendOptions, Sends
  <2>3. Append(requests, [by |-> "thread", method |-> "OPTIONS"]) \in Seq(Requests)
    BY <2>1, AppendProperties
  <2>4. QED
    BY <2>2, <2>3
<1>13. CASE ReceiveOptions
  BY <1>13, EmptySeq, LenProperties DEF ReceiveOptions, Receives, Readable
<1>14. CASE TestStop
  BY <1>14 DEF TestStop
<1>15. CASE PostExit
  BY <1>15 DEF PostExit
<1>16. CASE Answer
  <2>1. requests' \in Seq(Requests)
    BY <1>16, HeadTailProperties DEF Answer
  <2>2. PICK ok \in BOOLEAN : stream' = IF connected THEN Append(stream, ok) ELSE stream
    BY <1>16 DEF Answer
  <2>3. QED
    BY <2>1, <2>2, AppendProperties
<1>17. CASE CloseConnection
  BY <1>17, EmptySeq DEF CloseConnection
<1>18. CASE Tick
  BY <1>18 DEF Tick, MainRuns, ThreadRuns, Readable
<1>19. CASE UNCHANGED vars
  BY <1>19 DEF vars
<1>20. QED
  BY <1>1, <1>2, <1>3, <1>4, <1>5, <1>6, <1>7, <1>8, <1>9, <1>10, <1>11, <1>12, <1>13,
     <1>14, <1>15, <1>16, <1>17, <1>18, <1>19 DEF Next, Main, KeepAliveTask

(* and of the rest.                                                          *)
LEMMA FlagsKept ==
  ASSUME ClientInv, [Next]_vars
  PROVE  Flags'
<1> USE RtspAssumption DEF RtspAssumption, ClientInv, Types, Records, Servers, Flags,
        Mains, Asking, Methods, KeepAlive, MainGoto, MainSends, Error, ThreadGoto,
        client, network
<1>1. CASE Connect
  BY <1>1 DEF Connect
<1>2. CASE SendRequest
  BY <1>2 DEF SendRequest, Sends
<1>3. CASE ReceiveResponse
  BY <1>3 DEF ReceiveResponse, Receives, Readable
<1>4. CASE CreateRtpPorts
  BY <1>4 DEF CreateRtpPorts
<1>5. CASE CreateThreads
  BY <1>5 DEF CreateThreads
<1>6. CASE Stop
  BY <1>6 DEF Stop
<1>7. CASE PostStop
  BY <1>7 DEF PostStop
<1>8. CASE DestroyReceiver
  BY <1>8 DEF DestroyReceiver
<1>9. CASE Disconnect
  BY <1>9 DEF Disconnect
<1>10. CASE PendExit
  BY <1>10 DEF PendExit
<1>11. CASE Wake
  BY <1>11 DEF Wake, SleepDuration
<1>12. CASE SendOptions
  BY <1>12 DEF SendOptions, Sends
<1>13. CASE ReceiveOptions
  BY <1>13 DEF ReceiveOptions, Receives, Readable
<1>14. CASE TestStop
  BY <1>14 DEF TestStop
<1>15. CASE PostExit
  BY <1>15 DEF PostExit
<1>16. CASE Answer
  BY <1>16 DEF Answer
<1>17. CASE CloseConnection
  BY <1>17 DEF CloseConnection
<1>18. CASE Tick
  BY <1>18 DEF Tick, MainRuns, ThreadRuns, Readable
<1>19. CASE UNCHANGED vars
  BY <1>19 DEF vars
<1>20. QED
  BY <1>1, <1>2, <1>3, <1>4, <1>5, <1>6, <1>7, <1>8, <1>9, <1>10, <1>11, <1>12, <1>13,
     <1>14, <1>15, <1>16, <1>17, <1>18, <1>19 DEF Next, Main, KeepAliveTask

(* A request is made by one who then waits, and a recv takes an answer from  *)
(* one who waits.                                                            *)
LEMMA NoStrayAnswerKept ==
  ASSUME ClientInv, [Next]_vars
  PROVE  NoStrayAnswer'
<1> USE DEF ClientInv, Types, Records, Mains, Threads, NoStrayAnswer, Waiting, MainGoto,
        MainSends, Error, ThreadGoto, client, network
<1>1. CASE Connect
  BY <1>1 DEF Connect
<1>2. CASE SendRequest
  <2>1. /\ main.pc = "send" /\ main'.pc # "connect"
        /\ UNCHANGED <<thread, connected, stream, server>>
        /\ \/ requests' = requests
           \/ /\ connected /\ main'.pc = "receive" /\ server.up
              /\ requests' = Append(requests, [by |-> "main", method |-> main.method])
    BY <1>2 DEF SendRequest, Sends
  <2>2. Len(Append(requests, [by |-> "main", method |-> main.method])) = Len(requests) + 1
    BY <1>2, AppendProperties DEF Sequences, Flags, Asking, Methods, Requests,
       SendRequest
  <2>3. QED
    BY <2>1, <2>2, LenProperties DEF Sequences
<1>3. CASE ReceiveResponse
  <2>1. /\ main.pc = "receive" /\ main'.pc \in {"send", "ports", "threads", "open", "stop", "disconnect"}
        /\ UNCHANGED <<thread, connected, requests, server>>
        /\ stream # << >> \/ ~connected \/ ~server.up
        /\ stream' = IF connected THEN << >> ELSE stream
    BY <1>3, AfterResponse DEF Flags, Asking, Methods, ReceiveResponse, Receives,
       Readable
  <2>2. QED
    BY <2>1, LenProperties, EmptySeq DEF Sequences
<1>4. CASE CreateRtpPorts
  BY <1>4 DEF CreateRtpPorts
<1>5. CASE CreateThreads
  <2>1. /\ main.pc = "threads" /\ main'.pc = "send" /\ thread.pc = "none" /\ thread'.pc = "sleep"
        /\ UNCHANGED <<connected, requests, stream, server>>
    BY <1>5 DEF CreateThreads, StopOnce, Opening
  <2>2. QED
    BY <2>1
<1>6. CASE Stop
  <2>1. /\ main.pc = "open" /\ main'.pc = "stop"
        /\ UNCHANGED <<thread, connected, requests, stream, server>>
    BY <1>6 DEF Stop
  <2>2. QED
    BY <2>1
<1>7. CASE PostStop
  <2>1. /\ main.pc = "stop" /\ main'.pc = "destroy"
        /\ UNCHANGED <<thread, connected, requests, stream, server>>
    BY <1>7 DEF PostStop
  <2>2. QED
    BY <2>1
<1>8. CASE DestroyReceiver
  BY <1>8 DEF DestroyReceiver
<1>9. CASE Disconnect
  BY <1>9 DEF Disconnect
<1>10. CASE PendExit
  BY <1>10 DEF PendExit
<1>11. CASE Wake
  BY <1>11 DEF Wake, SleepDuration
<1>12. CASE SendOptions
  <2>1. /\ thread.pc = "send" /\ thread'.pc = "receive"
        /\ UNCHANGED <<main, connected, stream, server>>
        /\ \/ requests' = requests
           \/ /\ connected /\ server.up
              /\ requests' = Append(requests, [by |-> "thread", method |-> "OPTIONS"])
    BY <1>12 DEF SendOptions, Sends
  <2>2. [by |-> "thread", method |-> "OPTIONS"] \in Requests
    BY DEF Requests, Methods
  <2>3. Len(Append(requests, [by |-> "thread", method |-> "OPTIONS"])) = Len(requests) + 1
    BY <2>2, AppendProperties DEF Sequences
  <2>4. Waiting' = Waiting + 1 /\ Waiting \in 0 .. 1
    BY <2>1
  <2>5. main.pc # "connect"
    BY <2>1 DEF StopOnce, Opening
  <2>6. QED
    BY <2>1, <2>3, <2>4, <2>5, LenProperties DEF Sequences
<1>13. CASE ReceiveOptions
  <2>1. /\ thread.pc = "receive" /\ thread'.pc \in {"test", "post"}
        /\ UNCHANGED <<main, connected, requests, server>>
        /\ stream # << >> \/ ~connected \/ ~server.up
        /\ stream' = IF connected THEN << >> ELSE stream
    BY <1>13 DEF ReceiveOptions, Receives, Readable
  <2>2. QED
    BY <2>1, LenProperties, EmptySeq DEF Sequences
<1>14. CASE TestStop
  BY <1>14 DEF TestStop
<1>15. CASE PostExit
  BY <1>15 DEF PostExit
<1>16. CASE Answer
  <2>1. PICK ok \in BOOLEAN :
          /\ stream' = IF connected THEN Append(stream, ok) ELSE stream
          /\ requests # << >> /\ requests' = Tail(requests)
          /\ UNCHANGED <<main, thread, connected>> /\ server.up
    BY <1>16 DEF Answer
  <2>2. Len(Tail(requests)) = Len(requests) - 1 /\ Len(Append(stream, ok)) = Len(stream) + 1
    BY <2>1, HeadTailProperties, AppendProperties DEF Sequences
  <2>3. server'.up = server.up
    BY <1>16 DEF Answer, Servers
  <2>4. QED
    BY <2>1, <2>2, <2>3, LenProperties DEF Sequences
<1>17. CASE CloseConnection
  BY <1>17, EmptySeq, LenProperties DEF CloseConnection
<1>18. CASE Tick
  BY <1>18 DEF Tick, MainRuns, ThreadRuns, Readable
<1>19. CASE UNCHANGED vars
  BY <1>19 DEF vars
<1>20. QED
  BY <1>1, <1>2, <1>3, <1>4, <1>5, <1>6, <1>7, <1>8, <1>9, <1>10, <1>11, <1>12, <1>13,
     <1>14, <1>15, <1>16, <1>17, <1>18, <1>19 DEF Next, Main, KeepAliveTask

(* There is one stop to post, and the thread that takes it posts one exit.   *)
LEMMA StopOnceKept ==
  ASSUME ClientInv, [Next]_vars
  PROVE  StopOnce'
<1> USE DEF ClientInv, Types, Records, Mains, Threads, StopOnce, Opening, Stopping,
        Asking, MainGoto, MainSends, Error, ThreadGoto, client, network
<1>1. CASE Connect
  <2>1. /\ main.pc = "connect" /\ main'.pc \in {"send", "stop"}
        /\ main'.pc = "send" => main'.method = "OPTIONS"
        /\ UNCHANGED <<thread, stopKeepAliveThreadSem, keepAliveTaskExitSem>>
    BY <1>1 DEF Connect
  <2>2. QED
    BY <2>1
<1>2. CASE SendRequest
  BY <1>2, SendMoves
<1>3. CASE ReceiveResponse
  <2>1. /\ UNCHANGED <<thread, connected, stopKeepAliveThreadSem>>
        /\ \/ main'.pc = "disconnect" /\ main.method = "TEARDOWN" /\ main'.destroys = main.destroys
           \/ main.method # "TEARDOWN" /\ main'.pc \in {"open", "stop"}
           \/ main'.pc = "send" /\ main'.method = "DESCRIBE" /\ main.method = "OPTIONS"
           \/ main'.pc \in {"ports", "threads"} /\ main.method \in {"DESCRIBE", "SETUP"}
        /\ main.pc = "receive"
    BY <1>3, ResponseMoves
  <2>2. UNCHANGED <<keepAliveTaskExitSem, udpReceiver>>
    BY <1>3 DEF ReceiveResponse
  <2>3. QED
    BY <2>1, <2>2
<1>4. CASE CreateRtpPorts
  BY <1>4 DEF CreateRtpPorts
<1>5. CASE CreateThreads
  BY <1>5 DEF CreateThreads
<1>6. CASE Stop
  BY <1>6 DEF Stop
<1>7. CASE PostStop
  BY <1>7 DEF PostStop
<1>8. CASE DestroyReceiver
  BY <1>8 DEF DestroyReceiver
<1>9. CASE Disconnect
  BY <1>9 DEF Disconnect
<1>10. CASE PendExit
  BY <1>10 DEF PendExit
<1>11. CASE Wake
  BY <1>11 DEF Wake, SleepDuration
<1>12. CASE SendOptions
  BY <1>12 DEF SendOptions, Sends
<1>13. CASE ReceiveOptions
  BY <1>13 DEF ReceiveOptions, Receives, Readable
<1>14. CASE TestStop
  BY <1>14 DEF TestStop
<1>15. CASE PostExit
  BY <1>15 DEF PostExit
<1>16. CASE Answer
  BY <1>16 DEF Answer
<1>17. CASE CloseConnection
  BY <1>17 DEF CloseConnection
<1>18. CASE Tick
  BY <1>18 DEF Tick, MainRuns, ThreadRuns, Readable
<1>19. CASE UNCHANGED vars
  BY <1>19 DEF vars
<1>20. QED
  BY <1>1, <1>2, <1>3, <1>4, <1>5, <1>6, <1>7, <1>8, <1>9, <1>10, <1>11, <1>12, <1>13,
     <1>14, <1>15, <1>16, <1>17, <1>18, <1>19 DEF Next, Main, KeepAliveTask

(* The thread finds the connection closed, and its sleep is short.           *)
LEMMA InTimeKept ==
  ASSUME ClientInv, [Next]_vars
  PROVE  InTime'
<1> USE RtspAssumption DEF RtspAssumption, ClientInv, Types, Records, Mains, Threads,
        InTime, StopOnce, Stopping, Asking, MainGoto, MainSends, Error, ThreadGoto,
        client, network
<1>1. CASE Connect
  BY <1>1 DEF Connect
<1>2. CASE SendRequest
  BY <1>2 DEF SendRequest, Sends
<1>3. CASE ReceiveResponse
  <2>1. /\ UNCHANGED <<thread, connected, stopKeepAliveThreadSem>>
        /\ \/ main'.pc = "disconnect" /\ main.method = "TEARDOWN" /\ main'.destroys = main.destroys
           \/ main.method # "TEARDOWN" /\ main'.pc \in {"open", "stop"}
           \/ main'.pc = "send" /\ main'.method = "DESCRIBE" /\ main.method = "OPTIONS"
           \/ main'.pc \in {"ports", "threads"} /\ main.method \in {"DESCRIBE", "SETUP"}
        /\ main.pc = "receive"
    BY <1>3, ResponseMoves
  <2>2. UNCHANGED <<keepAliveTaskExitSem, udpReceiver>>
    BY <1>3 DEF ReceiveResponse
  <2>3. QED
    BY <2>1, <2>2
<1>4. CASE CreateRtpPorts
  BY <1>4 DEF CreateRtpPorts
<1>5. CASE CreateThreads
  BY <1>5 DEF CreateThreads
<1>6. CASE Stop
  BY <1>6 DEF Stop
<1>7. CASE PostStop
  BY <1>7 DEF PostStop
<1>8. CASE DestroyReceiver
  BY <1>8 DEF DestroyReceiver
<1>9. CASE Disconnect
  BY <1>9 DEF Disconnect
<1>10. CASE PendExit
  BY <1>10 DEF PendExit
<1>11. CASE Wake
  BY <1>11 DEF Wake, SleepDuration
<1>12. CASE SendOptions
  BY <1>12 DEF SendOptions, Sends
<1>13. CASE ReceiveOptions
  BY <1>13 DEF ReceiveOptions, Receives, Readable
<1>14. CASE TestStop
  BY <1>14 DEF TestStop
<1>15. CASE PostExit
  BY <1>15 DEF PostExit
<1>16. CASE Answer
  BY <1>16 DEF Answer
<1>17. CASE CloseConnection
  BY <1>17 DEF CloseConnection
<1>18. CASE Tick
  BY <1>18 DEF Tick, MainRuns, ThreadRuns, Readable
<1>19. CASE UNCHANGED vars
  BY <1>19 DEF vars
<1>20. QED
  BY <1>1, <1>2, <1>3, <1>4, <1>5, <1>6, <1>7, <1>8, <1>9, <1>10, <1>11, <1>12, <1>13,
     <1>14, <1>15, <1>16, <1>17, <1>18, <1>19 DEF Next, Main, KeepAliveTask

(* stopStreaming destroys the receiver before it sends TEARDOWN.             *)
LEMMA ReceiverFirstKept ==
  ASSUME ClientInv, [Next]_vars
  PROVE  ReceiverFirst'
<1> USE DEF ClientInv, Types, Records, Mains, ReceiverFirst, StopOnce, Stopping,
        Opening, Asking, MainGoto, MainSends, Error, ThreadGoto, client, network
<1>1. CASE Connect
  BY <1>1 DEF Connect
<1>2. CASE SendRequest
  BY <1>2 DEF SendRequest, Sends
<1>3. CASE ReceiveResponse
  <2>1. /\ UNCHANGED <<thread, connected, stopKeepAliveThreadSem>>
        /\ \/ main'.pc = "disconnect" /\ main.method = "TEARDOWN" /\ main'.destroys = main.destroys
           \/ main.method # "TEARDOWN" /\ main'.pc \in {"open", "stop"}
           \/ main'.pc = "send" /\ main'.method = "DESCRIBE" /\ main.method = "OPTIONS"
           \/ main'.pc \in {"ports", "threads"} /\ main.method \in {"DESCRIBE", "SETUP"}
        /\ main.pc = "receive"
    BY <1>3, ResponseMoves
  <2>2. UNCHANGED <<keepAliveTaskExitSem, udpReceiver>>
    BY <1>3 DEF ReceiveResponse
  <2>3. QED
    BY <2>1, <2>2
<1>4. CASE CreateRtpPorts
  BY <1>4 DEF CreateRtpPorts
<1>5. CASE CreateThreads
  BY <1>5 DEF CreateThreads
<1>6. CASE Stop
  BY <1>6 DEF Stop
<1>7. CASE PostStop
  BY <1>7 DEF PostStop
<1>8. CASE DestroyReceiver
  BY <1>8 DEF DestroyReceiver
<1>9. CASE Disconnect
  BY <1>9 DEF Disconnect
<1>10. CASE PendExit
  BY <1>10 DEF PendExit
<1>11. CASE Wake
  BY <1>11 DEF Wake, SleepDuration
<1>12. CASE SendOptions
  BY <1>12 DEF SendOptions, Sends
<1>13. CASE ReceiveOptions
  BY <1>13 DEF ReceiveOptions, Receives, Readable
<1>14. CASE TestStop
  BY <1>14 DEF TestStop
<1>15. CASE PostExit
  BY <1>15 DEF PostExit
<1>16. CASE Answer
  BY <1>16 DEF Answer
<1>17. CASE CloseConnection
  BY <1>17 DEF CloseConnection
<1>18. CASE Tick
  BY <1>18 DEF Tick, MainRuns, ThreadRuns, Readable
<1>19. CASE UNCHANGED vars
  BY <1>19 DEF vars
<1>20. QED
  BY <1>1, <1>2, <1>3, <1>4, <1>5, <1>6, <1>7, <1>8, <1>9, <1>10, <1>11, <1>12, <1>13,
     <1>14, <1>15, <1>16, <1>17, <1>18, <1>19 DEF Next, Main, KeepAliveTask

(* The wait for the thread is longer than what is left of its sleep.         *)
LEMMA OutlivesKept ==
  ASSUME ClientInv, [Next]_vars
  PROVE  ClientOutlivesThread'
<1> USE RtspAssumption DEF RtspAssumption, ClientInv, Types, Records, Mains, Threads,
        ClientOutlivesThread, InTime, StopOnce, Stopping, Asking, MainGoto, MainSends,
        Error, ThreadGoto, client, network
<1>1. CASE Connect
  BY <1>1 DEF Connect
<1>2. CASE SendRequest
  BY <1>2 DEF SendRequest, Sends
<1>3. CASE ReceiveResponse
  <2>1. /\ UNCHANGED <<thread, connected, stopKeepAliveThreadSem>>
        /\ \/ main'.pc = "disconnect" /\ main.method = "TEARDOWN" /\ main'.destroys = main.destroys
           \/ main.method # "TEARDOWN" /\ main'.pc \in {"open", "stop"}
           \/ main'.pc = "send" /\ main'.method = "DESCRIBE" /\ main.method = "OPTIONS"
           \/ main'.pc \in {"ports", "threads"} /\ main.method \in {"DESCRIBE", "SETUP"}
        /\ main.pc = "receive"
    BY <1>3, ResponseMoves
  <2>2. UNCHANGED <<keepAliveTaskExitSem, udpReceiver>>
    BY <1>3 DEF ReceiveResponse
  <2>3. QED
    BY <2>1, <2>2
<1>4. CASE CreateRtpPorts
  BY <1>4 DEF CreateRtpPorts
<1>5. CASE CreateThreads
  BY <1>5 DEF CreateThreads
<1>6. CASE Stop
  BY <1>6 DEF Stop
<1>7. CASE PostStop
  BY <1>7 DEF PostStop
<1>8. CASE DestroyReceiver
  BY <1>8 DEF DestroyReceiver
<1>9. CASE Disconnect
  BY <1>9 DEF Disconnect
<1>10. CASE PendExit
  BY <1>10 DEF PendExit
<1>11. CASE Wake
  BY <1>11 DEF Wake, SleepDuration
<1>12. CASE SendOptions
  BY <1>12 DEF SendOptions, Sends
<1>13. CASE ReceiveOptions
  BY <1>13 DEF ReceiveOptions, Receives, Readable
<1>14. CASE TestStop
  BY <1>14 DEF TestStop
<1>15. CASE PostExit
  BY <1>15 DEF PostExit
<1>16. CASE Answer
  BY <1>16 DEF Answer
<1>17. CASE CloseConnection
  BY <1>17 DEF CloseConnection
<1>18. CASE Tick
  BY <1>18 DEF Tick, MainRuns, ThreadRuns, Readable
<1>19. CASE UNCHANGED vars
  BY <1>19 DEF vars
<1>20. QED
  BY <1>1, <1>2, <1>3, <1>4, <1>5, <1>6, <1>7, <1>8, <1>9, <1>10, <1>11, <1>12, <1>13,
     <1>14, <1>15, <1>16, <1>17, <1>18, <1>19 DEF Next, Main, KeepAliveTask

(* ClientInv is inductive.                                                  *)
LEMMA ClientKept ==
  ASSUME ClientInv, [Next]_vars
  PROVE  ClientInv'
BY MainKept, ThreadKept, ServerKept, SequencesKept, FlagsKept, NoStrayAnswerKept, StopOnceKept,
   InTimeKept, ReceiverFirstKept, OutlivesKept
   DEF ClientInv, Types, Records

(* SETUP is answered while the decode task waits for it.                     *)
LEMMA HeadAnswered ==
  ASSUME ClientInv, SessionInv, Answer
  PROVE  /\ Head(requests).method = "SETUP" => main.pc = "receive" /\ main.method = "SETUP"
         /\ Len(requests) > 0 /\ Len(Tail(requests)) = Len(requests) - 1
         /\ \A i \in 1 .. Len(Tail(requests)) : Tail(requests)[i] = requests[i + 1]
BY AnswerMoves, HeadTailProperties, EmptySeq, LenProperties
   DEF ClientInv, SessionInv, Types, Sequences, Announced

(* The timeout that is kept leaves time for an answer, and a long enough    *)
(* session is kept for as long as it lasts.                                 *)
LEMMA KeepAliveBounds ==
  ASSUME NEW timeout \in Nat
  PROVE  /\ KeepAlive(timeout) \in Nat /\ KeepAlive(timeout) >= MaxDelay + 10
         /\ timeout >= RTSP_DEFAULT_KEEP_ALIVE => KeepAlive(timeout) <= timeout
BY RtspAssumption, ServerAssumption DEF RtspAssumption, ServerAssumption, KeepAlive

(* keepAliveTimeout comes with the one response to SETUP.                    *)
LEMMA AnnouncedKept ==
  ASSUME ClientInv, SessionInv, [Next]_vars
  PROVE  Announced'
<1> USE DEF SessionInv, Announced, ClientInv, Types, Records, Mains, Threads, Servers,
        MainGoto, MainSends, Error, ThreadGoto, client, network
<1>1. CASE Connect
  <2>1. main.pc = "connect" /\ requests = << >> /\ ~server'.session /\ requests' = requests
    BY <1>1 DEF Connect, Fresh, Opening, NoStrayAnswer
  <2>2. QED
    BY <2>1, EmptySeq
<1>2. CASE SendRequest
  <2>1. /\ main.pc = "send" /\ UNCHANGED <<thread, client, server>>
        /\ main'.pc # "threads"
        /\ \/ requests' = requests
           \/ /\ requests' = Append(requests, [by |-> "main", method |-> main.method])
              /\ main'.pc = "receive" /\ main'.method = main.method
    BY <1>2, SendMoves
  <2>2. [by |-> "main", method |-> main.method] \in Requests
    BY <2>1 DEF Flags, Asking, Requests
  <2>3. \A i \in 1 .. Len(requests') : requests'[i].method = "SETUP" =>
           main'.pc = "receive" /\ main'.method = "SETUP"
    <3>1. CASE requests' = requests
      BY <2>1, <3>1
    <3>2. CASE requests' = Append(requests, [by |-> "main", method |-> main.method])
      <4>1. /\ Len(requests') = Len(requests) + 1 /\ Len(requests) \in Nat
            /\ requests'[Len(requests) + 1].method = main.method
            /\ \A i \in 1 .. Len(requests) : requests'[i] = requests[i]
        BY <2>2, <3>2, AppendProperties, LenProperties DEF Sequences
      <4>2. QED
        BY <2>1, <3>2, <4>1
    <3>3. QED
      BY <2>1, <3>1, <3>2
  <2>4. QED
    BY <2>1, <2>3
<1>3. CASE ReceiveResponse
  <2>1. main.method = "SETUP" => requests' = << >>
    BY <1>3, ResponseMoves, LenProperties, EmptySeq DEF NoStrayAnswer, StopOnce,
       Opening, Asking, Waiting, Sequences, Fresh
  <2>2. main.method = "SETUP" => thread.pc = "none"
    BY <1>3, ResponseMoves DEF StopOnce, Opening, Asking
  <2>3. QED
    BY <1>3, <2>1, <2>2, ResponseMoves, EmptySeq
<1>4. CASE CreateRtpPorts
  BY <1>4 DEF CreateRtpPorts
<1>5. CASE CreateThreads
  BY <1>5 DEF CreateThreads
<1>6. CASE Stop
  BY <1>6 DEF Stop
<1>7. CASE PostStop
  BY <1>7 DEF PostStop
<1>8. CASE DestroyReceiver
  BY <1>8 DEF DestroyReceiver
<1>9. CASE Disconnect
  BY <1>9 DEF Disconnect
<1>10. CASE PendExit
  BY <1>10 DEF PendExit
<1>11. CASE Wake
  BY <1>11 DEF Wake, SleepDuration
<1>12. CASE SendOptions
  BY <1>12 DEF SendOptions, Sends
<1>13. CASE ReceiveOptions
  BY <1>13 DEF ReceiveOptions, Receives, Readable
<1>14. CASE TestStop
  BY <1>14 DEF TestStop
<1>15. CASE PostExit
  BY <1>15 DEF PostExit
<1>16. CASE Answer
  <2>1. Head(requests).method = "SETUP" => thread.pc = "none"
    BY <1>16, HeadAnswered DEF StopOnce, Opening, Asking
  <2>2. \A i \in 1 .. Len(requests') : requests'[i].method = "SETUP" =>
           main'.pc = "receive" /\ main'.method = "SETUP"
    <3>1. requests' = Tail(requests) /\ UNCHANGED main /\ Len(requests) \in Nat
      BY <1>16, AnswerMoves, LenProperties DEF Sequences
    <3>2. \A i \in 1 .. Len(requests') : i + 1 \in 1 .. Len(requests)
      BY <1>16, HeadAnswered, <3>1
    <3>3. QED
      BY <1>16, HeadAnswered, <3>1, <3>2
  <2>3. QED
    BY <1>16, HeadAnswered, <2>1, <2>2, AnswerMoves
<1>17. CASE CloseConnection
  BY <1>17 DEF CloseConnection
<1>18. CASE Tick
  BY <1>18 DEF Tick, MainRuns, ThreadRuns, Readable
<1>19. CASE UNCHANGED vars
  BY <1>19 DEF vars
<1>20. QED
  BY <1>1, <1>2, <1>3, <1>4, <1>5, <1>6, <1>7, <1>8, <1>9, <1>10, <1>11, <1>12, <1>13,
     <1>14, <1>15, <1>16, <1>17, <1>18, <1>19 DEF Next, Main, KeepAliveTask

(* No second passes while somebody can take an answer.                       *)
LEMMA FreshKept ==
  ASSUME ClientInv, SessionInv, [Next]_vars
  PROVE  Fresh'
<1> USE DEF SessionInv, Fresh, Opening, Asking, ClientInv, Types, Records, Mains,
        Threads, Servers, MainGoto, MainSends, Error, ThreadGoto, client, network
<1>1. CASE Connect
  <2>1. /\ main.pc = "connect" /\ requests = << >> /\ stream = << >> /\ server.delay = 0
        /\ server'.delay = 0 /\ server'.age = server.age /\ ~server.session /\ ~server'.session
    BY <1>1 DEF Connect, NoStrayAnswer
  <2>2. QED
    BY <1>1, <2>1 DEF Connect
<1>2. CASE SendRequest
  <2>1. \/ requests' = requests
        \/ requests' # << >>
    BY <1>2, SendMoves, NotEmpty DEF Flags
  <2>2. QED
    BY <1>2, <2>1, SendMoves
<1>3. CASE ReceiveResponse
  BY <1>3, ResponseMoves
<1>4. CASE CreateRtpPorts
  BY <1>4 DEF CreateRtpPorts
<1>5. CASE CreateThreads
  BY <1>5 DEF CreateThreads
<1>6. CASE Stop
  BY <1>6 DEF Stop
<1>7. CASE PostStop
  BY <1>7 DEF PostStop
<1>8. CASE DestroyReceiver
  BY <1>8 DEF DestroyReceiver
<1>9. CASE Disconnect
  BY <1>9 DEF Disconnect
<1>10. CASE PendExit
  BY <1>10 DEF PendExit
<1>11. CASE Wake
  BY <1>11 DEF Wake, SleepDuration
<1>12. CASE SendOptions
  <2>1. requests' = requests \/ requests' # << >>
    BY <1>12, NotEmpty DEF SendOptions, Sends, Methods
  <2>2. QED
    BY <1>12, <2>1 DEF SendOptions, Sends
<1>13. CASE ReceiveOptions
  <2>1. ~Opening
    BY <1>13, OptionsMoves DEF StopOnce
  <2>2. QED
    BY <1>13, <2>1, OptionsMoves
<1>14. CASE TestStop
  BY <1>14 DEF TestStop
<1>15. CASE PostExit
  BY <1>15 DEF PostExit
<1>16. CASE Answer
  <2>1. Opening /\ server'.session => main.pc = "receive" /\ main.method = "SETUP"
    <3>1. Opening /\ server.session => main.pc = "receive"
      BY <1>16, AnswerMoves, LenProperties, EmptySeq DEF NoStrayAnswer, Waiting,
       StopOnce, Sequences
    <3>2. QED
      BY <1>16, HeadAnswered, <3>1, AnswerMoves
  <2>2. QED
    BY <1>16, <2>1, AnswerMoves
<1>17. CASE CloseConnection
  <2>1. /\ server.up /\ ~server'.up /\ ~server'.session /\ server'.delay = server.delay
        /\ server'.age = server.age /\ UNCHANGED <<main, connected, stream>> /\ requests' = << >>
    BY <1>17 DEF CloseConnection
  <2>2. main.pc = "connect" => requests = << >>
    BY DEF NoStrayAnswer
  <2>3. QED
    BY <2>1, <2>2
<1>18. CASE Tick
  <2>1. connected /\ stream # << >> => main.pc = "receive" \/ thread.pc = "receive"
    BY LenProperties, EmptySeq DEF NoStrayAnswer, Waiting, Sequences
  <2>2. ~(connected /\ stream # << >>) /\ ~(Opening /\ server.session)
    BY <1>18, <2>1, TickMoves DEF MainRuns, ThreadRuns, Readable
  <2>3. QED
    BY <1>18, <2>2, TickMoves
<1>19. CASE UNCHANGED vars
  BY <1>19 DEF vars
<1>20. QED
  BY <1>1, <1>2, <1>3, <1>4, <1>5, <1>6, <1>7, <1>8, <1>9, <1>10, <1>11, <1>12, <1>13,
     <1>14, <1>15, <1>16, <1>17, <1>18, <1>19 DEF Next, Main, KeepAliveTask

(* PLAY is pending for as long as the thread has slept.                      *)
LEMMA PlayFirstKept ==
  ASSUME ClientInv, SessionInv, [Next]_vars
  PROVE  PlayFirst'
<1> USE DEF SessionInv, PlayFirst, Playing, Asking, SleptFor, ClientInv, Types, Records,
        Mains, Threads, Servers, MainGoto, MainSends, Error, ThreadGoto, client, network
<1>1. CASE Connect
  BY <1>1 DEF Connect
<1>2. CASE SendRequest
  <2>1. server.session /\ Playing => server.up /\ connected
    BY <1>2, SendMoves DEF Announced, Fresh
  <2>2. Append(requests, [by |-> "main", method |-> main.method]) # << >>
    BY <1>2, SendMoves, NotEmpty DEF Flags
  <2>3. QED
    BY <1>2, <2>1, <2>2, SendMoves
<1>3. CASE ReceiveResponse
  BY <1>3, ResponseMoves
<1>4. CASE CreateRtpPorts
  BY <1>4 DEF CreateRtpPorts
<1>5. CASE CreateThreads
  <2>1. /\ main'.pc = "send" /\ thread'.pc = "sleep" /\ thread'.slept = 0
        /\ thread'.sleep = KEEP_ALIVE_TASK_LOOP_SLEEP /\ UNCHANGED <<requests, stream, server>>
    BY <1>5 DEF CreateThreads
  <2>2. SleptFor' = 0
    BY <2>1, RtspAssumption DEF RtspAssumption
  <2>3. QED
    BY <2>1, <2>2, RtspAssumption DEF RtspAssumption, Flags
<1>6. CASE Stop
  BY <1>6 DEF Stop
<1>7. CASE PostStop
  BY <1>7 DEF PostStop
<1>8. CASE DestroyReceiver
  BY <1>8 DEF DestroyReceiver
<1>9. CASE Disconnect
  BY <1>9 DEF Disconnect
<1>10. CASE PendExit
  BY <1>10 DEF PendExit
<1>11. CASE Wake
  <2>1. server.session /\ Playing => thread'.pc = "test" /\ SleptFor' = SleptFor
    <3>1. server.session /\ Playing => keepAliveTimeout >= MaxDelay + 10
      BY <1>11, WakeMoves, KeepAliveBounds DEF Announced
    <3>2. thread'.slept = SleptFor
      BY <1>11, WakeMoves, RtspAssumption DEF RtspAssumption
    <3>3. server.session /\ Playing => thread'.slept <= MaxDelay
      BY <3>2
    <3>4. server.session /\ Playing => thread'.pc = "test"
      BY <1>11, <3>1, <3>2, <3>3, WakeMoves, RtspAssumption DEF RtspAssumption,
       SleepDuration, Flags
    <3>5. QED
      BY <1>11, <3>2, <3>4, WakeMoves, RtspAssumption DEF RtspAssumption
  <2>2. thread'.pc # "receive"
    BY <1>11, WakeMoves
  <2>3. QED
    BY <1>11, <2>1, <2>2, WakeMoves
<1>12. CASE SendOptions
  <2>1. /\ thread.pc = "send" /\ UNCHANGED <<main, client, stream, server>>
        /\ connected /\ server.up =>
             requests' = Append(requests, [by |-> "thread", method |-> "OPTIONS"])
    BY <1>12 DEF SendOptions, Sends
  <2>2. Append(requests, [by |-> "thread", method |-> "OPTIONS"]) # << >>
    BY NotEmpty DEF Methods
  <2>3. server.session /\ main.pc = "open" => connected /\ server.up
    BY DEF Announced, Fresh
  <2>4. QED
    BY <2>1, <2>2, <2>3
<1>13. CASE ReceiveOptions
  BY <1>13, OptionsMoves
<1>14. CASE TestStop
  <2>1. Playing => stopKeepAliveThreadSem = 0
    BY DEF StopOnce, Stopping
  <2>2. Playing => SleptFor' = SleptFor /\ thread'.pc = "sleep"
    BY <1>14, <2>1, TestMoves, RtspAssumption DEF RtspAssumption
  <2>3. QED
    BY <1>14, <2>1, <2>2, TestMoves
<1>15. CASE PostExit
  BY <1>15 DEF PostExit
<1>16. CASE Answer
  <2>1. server'.session /\ (Playing \/ main.pc = "open") => server.session /\ connected
    BY <1>16, HeadAnswered, AnswerMoves DEF Fresh
  <2>2. SleptFor' = SleptFor /\ Playing' = Playing
    BY <1>16, AnswerMoves
  <2>3. QED
    BY <1>16, <2>1, <2>2, AnswerMoves
<1>17. CASE CloseConnection
  BY <1>17 DEF CloseConnection
<1>18. CASE Tick
  <2>1. server.session /\ Playing => main.pc = "receive" /\ stream = << >> /\ thread.pc = "sleep"
    BY <1>18, TickMoves DEF MainRuns, ThreadRuns, Readable
  <2>2. server.session /\ Playing => requests # << >>
    BY <2>1
  <2>3. /\ thread.pc = "sleep" => SleptFor \in Int /\ SleptFor' = SleptFor + 1
        /\ requests # << >> => server'.delay = server.delay + 1 /\ server'.delay <= MaxDelay
        /\ server.delay \in Nat
    BY <1>18, TickMoves
  <2>4. server.session /\ Playing => SleptFor <= server.delay
    BY <2>1
  <2>5. server.session /\ Playing => SleptFor' <= server'.delay /\ SleptFor' <= MaxDelay
    <3> HIDE DEF SleptFor, Mains, Threads, Servers
    <3>1. QED
      BY <2>1, <2>2, <2>3, <2>4, RtspAssumption DEF RtspAssumption
  <2>6. QED
    BY <1>18, <2>1, <2>5, TickMoves
<1>19. CASE UNCHANGED vars
  BY <1>19 DEF vars
<1>20. QED
  BY <1>1, <1>2, <1>3, <1>4, <1>5, <1>6, <1>7, <1>8, <1>9, <1>10, <1>11, <1>12, <1>13,
     <1>14, <1>15, <1>16, <1>17, <1>18, <1>19 DEF Next, Main, KeepAliveTask

(* A session is idle for no longer than the thread has counted.              *)
LEMMA IdleKept ==
  ASSUME ClientInv, SessionInv, [Next]_vars
  PROVE  Idle'
<1> USE DEF SessionInv, Idle, Playing, Asking, SleptFor, SleepDuration, ClientInv,
        Types, Records, Mains, Threads, Servers, MainGoto, MainSends, Error, ThreadGoto,
        client, network
<1>1. CASE Connect
  BY <1>1 DEF Connect
<1>2. CASE SendRequest
  BY <1>2, SendMoves
<1>3. CASE ReceiveResponse
  <2>1. /\ main'.pc = "open" => Playing
        /\ ~Playing' /\ UNCHANGED <<thread, server>>
    BY <1>3, ResponseMoves
  <2>2. Playing => thread.pc \in {"sleep", "test"} \/ ~server.session
    BY DEF PlayFirst
  <2>3. main'.pc = "open" => keepAliveTimeout' = keepAliveTimeout
    BY <1>3, ResponseMoves
  <2>4. QED
    BY <2>1, <2>2, <2>3
<1>4. CASE CreateRtpPorts
  BY <1>4 DEF CreateRtpPorts
<1>5. CASE CreateThreads
  <2>1. /\ main.pc = "threads" /\ main'.pc = "send" /\ thread'.pc = "sleep" /\ thread'.slept = 0
        /\ thread'.sleep = KEEP_ALIVE_TASK_LOOP_SLEEP
        /\ UNCHANGED <<keepAliveTimeout, requests, stream, server>>
    BY <1>5 DEF CreateThreads
  <2>2. server.session => keepAliveTimeout >= MaxDelay + 10 /\ server.age = 0
    BY <2>1, KeepAliveBounds DEF Announced, Fresh, Opening
  <2>3. QED
    BY <2>1, <2>2, RtspAssumption DEF RtspAssumption, Flags
<1>6. CASE Stop
  BY <1>6 DEF Stop
<1>7. CASE PostStop
  BY <1>7 DEF PostStop
<1>8. CASE DestroyReceiver
  BY <1>8 DEF DestroyReceiver
<1>9. CASE Disconnect
  BY <1>9 DEF Disconnect
<1>10. CASE PendExit
  BY <1>10 DEF PendExit
<1>11. CASE Wake
  <2>1. /\ thread.pc = "sleep" /\ UNCHANGED <<main, client, network>>
        /\ thread'.slept = SleptFor /\ thread'.slept = thread.slept + KEEP_ALIVE_TASK_LOOP_SLEEP
        /\ thread'.pc = IF thread'.slept > SleepDuration THEN "send" ELSE "test"
    BY <1>11, WakeMoves
  <2>2. /\ keepAliveTimeout \in Nat /\ thread.slept \in Nat /\ server.age \in Nat
        /\ KEEP_ALIVE_TASK_LOOP_SLEEP \in Nat
    BY RtspAssumption DEF RtspAssumption, Flags
  <2>3. thread'.pc = "test" => SleptFor' = SleptFor
    BY <2>1, <2>2
  <2>4. QED
    <3> HIDE DEF SleptFor, Mains, Threads, Servers
    <3>1. QED
      BY <2>1, <2>2, <2>3
<1>12. CASE SendOptions
  <2>1. /\ thread.pc = "send" /\ thread'.pc = "receive"
        /\ UNCHANGED <<main, client, stream, server>>
    BY <1>12 DEF SendOptions, Sends
  <2>2. QED
    BY <2>1, RtspAssumption DEF RtspAssumption, Flags
<1>13. CASE ReceiveOptions
  <2>1. server.session /\ (Playing \/ main.pc = "open") => main.pc = "open" /\ connected /\ server.up
    BY <1>13, OptionsMoves DEF PlayFirst, Announced, Fresh
  <2>2. server.session /\ main.pc = "open" => server.age = 0 /\ keepAliveTimeout >= MaxDelay + 10
    BY <1>13, <2>1, OptionsMoves, KeepAliveBounds DEF Fresh, Announced
  <2>3. /\ UNCHANGED <<main, server, keepAliveTimeout>> /\ thread'.pc \in {"test", "post"}
        /\ thread'.pc = "test" => thread'.slept = 0 /\ SleptFor' = 0
    <3>1. /\ UNCHANGED <<main, server, keepAliveTimeout>>
          /\ \/ thread'.pc = "test" /\ thread'.slept = 0
             \/ thread'.pc = "post"
      BY <1>13, OptionsMoves
    <3>2. QED
      BY <3>1
  <2>4. server.session /\ main.pc = "open" => SleepDuration >= 0
    BY <2>2, RtspAssumption DEF RtspAssumption, Flags
  <2>5. SleepDuration' = SleepDuration
    BY <2>3
  <2>6. QED
    <3> HIDE DEF SleptFor, SleepDuration, Mains, Threads, Servers
    <3>1. QED
      BY <2>1, <2>2, <2>3, <2>4, <2>5
<1>14. CASE TestStop
  <2>1. Playing \/ main.pc = "open" => stopKeepAliveThreadSem = 0
    BY DEF StopOnce, Stopping
  <2>2. Playing \/ main.pc = "open" => SleptFor' = SleptFor /\ thread'.pc = "sleep"
    BY <1>14, <2>1, TestMoves, RtspAssumption DEF RtspAssumption
  <2>3. QED
    BY <1>14, <2>2, TestMoves
<1>15. CASE PostExit
  BY <1>15 DEF PostExit
<1>16. CASE Answer
  <2>1. server'.session /\ (Playing \/ main.pc = "open") =>
           server.session /\ connected /\ server'.timeout = server.timeout
    BY <1>16, HeadAnswered, AnswerMoves DEF Fresh
  <2>2. server.session /\ (Playing \/ main.pc = "open") => keepAliveTimeout >= MaxDelay + 10
    BY KeepAliveBounds DEF Announced
  <2>3. SleptFor' = SleptFor /\ SleptFor >= 0 /\ SleptFor \in Int
    BY <1>16, AnswerMoves, RtspAssumption DEF RtspAssumption
  <2>4. /\ UNCHANGED <<main, thread, client>> /\ server'.age = 0 /\ server'.delay = 0
        /\ connected => stream' # << >>
    BY <1>16, AnswerMoves
  <2>5. /\ keepAliveTimeout \in Nat /\ KEEP_ALIVE_TASK_LOOP_SLEEP \in Nat /\ MaxDelay \in Nat
    BY RtspAssumption DEF RtspAssumption, Flags
  <2>6. QED
    <3> HIDE DEF SleptFor, Mains, Threads, Servers
    <3>1. QED
      BY <2>1, <2>2, <2>3, <2>4, <2>5
<1>17. CASE CloseConnection
  BY <1>17 DEF CloseConnection
<1>18. CASE Tick
  <2>1. server.session /\ (Playing \/ main.pc = "open") =>
           \/ thread.pc \in {"sleep", "ended"}
           \/ thread.pc = "receive" /\ stream = << >> /\ requests # << >>
    BY <1>18, TickMoves DEF ThreadRuns, Readable, PlayFirst
  <2>2. /\ thread.pc = "sleep" => SleptFor \in Int /\ SleptFor' = SleptFor + 1
        /\ requests # << >> => server'.delay = server.delay + 1
        /\ server.delay \in Nat /\ server.age \in Nat /\ server'.age \in {server.age, server.age + 1}
        /\ thread'.pc = thread.pc /\ thread'.slept = thread.slept /\ server'.session = server.session
        /\ main'.pc = main.pc /\ main'.method = main.method /\ UNCHANGED <<keepAliveTimeout, stream>>
    BY <1>18, TickMoves
  <2>3. QED
    <3> HIDE DEF SleptFor, Mains, Threads, Servers
    <3>1. keepAliveTimeout \in Int /\ KEEP_ALIVE_TASK_LOOP_SLEEP \in Int
      BY RtspAssumption DEF RtspAssumption, Flags
    <3>2. CASE thread.pc = "sleep"
      BY <2>2, <3>1, <3>2
    <3>3. CASE thread.pc = "receive" /\ stream = << >> /\ requests # << >>
      BY <2>2, <3>1, <3>3
    <3>4. CASE thread.pc = "ended"
      BY <2>2, <3>4
    <3>5. QED
      BY <2>1, <2>2, <3>2, <3>3, <3>4
<1>19. CASE UNCHANGED vars
  BY <1>19 DEF vars
<1>20. QED
  BY <1>1, <1>2, <1>3, <1>4, <1>5, <1>6, <1>7, <1>8, <1>9, <1>10, <1>11, <1>12, <1>13,
     <1>14, <1>15, <1>16, <1>17, <1>18, <1>19 DEF Next, Main, KeepAliveTask

-------------------------------------------------------------------------------
(* The two invariants hold in every reachable state.                        *)
LEMMA Invariance == Spec => [](ClientInv /\ SessionInv)
<1>1. Init => ClientInv /\ SessionInv
  <2> SUFFICES ASSUME Init PROVE ClientInv /\ SessionInv
    OBVIOUS
  <2>1. main \in Mains /\ thread \in Threads /\ server \in Servers
    BY RtspAssumption DEF RtspAssumption, Init, Mains, Threads, Servers
  <2>2. Sequences /\ Flags
    BY EmptySeq DEF Init, Sequences, Flags, Asking
  <2>3. NoStrayAnswer /\ StopOnce
    BY EmptySeq DEF Init, NoStrayAnswer, Waiting, StopOnce, Stopping, Asking
  <2>4. InTime /\ ReceiverFirst /\ ClientOutlivesThread
    BY DEF Init, InTime, ReceiverFirst, Stopping, Asking, ClientOutlivesThread
  <2>5. Announced /\ Fresh
    BY EmptySeq DEF Init, Announced, Fresh, Opening, Asking
  <2>6. PlayFirst /\ Idle
    BY DEF Init, PlayFirst, Idle, Playing, Asking
  <2>7. QED
    BY <2>1, <2>2, <2>3, <2>4, <2>5, <2>6 DEF ClientInv, SessionInv, Types, Records
<1>2. ClientInv /\ SessionInv /\ [Next]_vars => (ClientInv /\ SessionInv)'
  <2> SUFFICES ASSUME ClientInv, SessionInv, [Next]_vars PROVE ClientInv' /\ SessionInv'
    OBVIOUS
  <2>1. ClientInv'
    BY ClientKept
  <2>2. Announced' /\ Fresh' /\ PlayFirst' /\ Idle'
    BY AnnouncedKept, FreshKept, PlayFirstKept, IdleKept
  <2>3. QED
    BY <2>1, <2>2 DEF SessionInv
<1>3. QED
  BY <1>1, <1>2, PTL DEF Spec

(* The client is deleted after the last step of its thread, although the    *)
(* wait for it is limited, and a URL that could not be opened leaves no     *)
(* receiver behind (stopStreaming).                                         *)
THEOREM ClientEndsClean == Spec => []ClientOK
<1>1. ClientInv => ClientOK
  <2> SUFFICES ASSUME ClientInv PROVE ClientOK
    OBVIOUS
  <2>1. /\ Len(requests) <= 2 /\ Len(stream) <= 2
    BY LenProperties DEF ClientInv, Types, Sequences, NoStrayAnswer
  <2>2. TypeOK
    BY <2>1 DEF ClientInv, Types, Records, Mains, Threads, Servers, Flags, Methods, StopOnce, TypeOK
  <2>3. FailureLeavesNothing
    BY DEF ClientInv, ReceiverFirst, Stopping, FailureLeavesNothing
  <2>4. QED
    BY <2>2, <2>3 DEF ClientOK, ClientInv
<1>2. QED
  BY <1>1, Invariance, PTL

(* "sleep 10 sec less of keep alive" keeps every session of a server that   *)
(* answers within what the 10 s leave beside a sleep.                       *)
THEOREM SessionsKeptAlive == Spec => []SessionKeptAlive
<1>1. ClientInv /\ SessionInv => SessionKeptAlive
  <2> SUFFICES ASSUME ClientInv, SessionInv,
                      server.session, server.timeout >= RTSP_DEFAULT_KEEP_ALIVE,
                      thread.pc # "ended", main.pc = "open"
               PROVE  server.age <= server.timeout
    BY DEF SessionKeptAlive
  <2> USE DEF ClientInv, SessionInv, Types, Records, Mains, Threads, Servers, Flags
  <2>1. /\ keepAliveTimeout <= server.timeout /\ connected
        /\ thread.pc # "none"
    BY KeepAliveBounds DEF Announced, Fresh, Idle
  <2>2. CASE thread.pc \in {"sleep", "test", "send", "post"}
    BY <2>1, <2>2, RtspAssumption, ServerAssumption
       DEF RtspAssumption, ServerAssumption, Idle, SleptFor, SleepDuration
  <2>3. CASE thread.pc = "receive" /\ stream = << >>
    BY <2>1, <2>3, RtspAssumption, ServerAssumption
       DEF RtspAssumption, ServerAssumption, Idle, SleepDuration
  <2>4. CASE stream # << >>
    BY <2>1, <2>4 DEF Fresh
  <2>5. QED
    BY <2>1, <2>2, <2>3, <2>4
<1>2. QED
  BY <1>1, Invariance, PTL

===============================================================================
