------------------------------ MODULE RtspClient ------------------------------
(***************************************************************************)
(* The RTSP client (SLARtspClient.cpp): the thread that opens and stops a  *)
(* session (SLARtspOpenURL, stopStreaming; the decode task) and the thread *)
(* that keeps it alive (rtpClientKeepAliveTask), which send requests and   *)
(* receive responses on one TCP socket without a lock.                     *)
(*                                                                         *)
(* The server is external.  It answers the requests in their order, each   *)
(* within MaxDelay seconds, well or with an error, or it closes the        *)
(* connection.  A response arrives in one piece; a recv takes all that has *)
(* arrived, and only the first status line of it is looked at.             *)
(*                                                                         *)
(* Time passes in seconds, and only when neither thread can go on: the     *)
(* threads are scheduled promptly.                                         *)
(***************************************************************************)
EXTENDS Integers, Sequences

CONSTANTS
  KEEP_ALIVE_TASK_LOOP_SLEEP,      (* 2 s                                   *)
  WAIT_TO_EXIT_KEEP_ALIVE_THREAD,  (* 5 s                                   *)
  RTSP_DEFAULT_KEEP_ALIVE,         (* 60 s                                  *)
  Timeouts,                        (* session timeouts a server announces   *)
  MaxDelay                         (* bound of the model: the server's      *)

ASSUME RtspAssumption ==
  /\ KEEP_ALIVE_TASK_LOOP_SLEEP \in Nat \ {0}
  /\ WAIT_TO_EXIT_KEEP_ALIVE_THREAD \in Nat
  /\ WAIT_TO_EXIT_KEEP_ALIVE_THREAD > KEEP_ALIVE_TASK_LOOP_SLEEP
  /\ RTSP_DEFAULT_KEEP_ALIVE \in Nat /\ RTSP_DEFAULT_KEEP_ALIVE > 10
  /\ Timeouts \subseteq Nat /\ Timeouts # {} /\ MaxDelay \in Nat

(* What the keep-alive thread counts on: the 10 s it leaves are enough for a *)
(* sleep and an answer, and the first session is longer than an answer.      *)
ASSUME ServerAssumption ==
  /\ KEEP_ALIVE_TASK_LOOP_SLEEP + MaxDelay <= 10
  /\ MaxDelay + 10 <= RTSP_DEFAULT_KEEP_ALIVE

VARIABLES
  main,      (* where the decode task is, the request it makes, whether     *)
             (* stopStreaming destroys the receiver, how long it has waited *)
  thread,    (* where the keep-alive thread is, the seconds left of its     *)
             (* sleep, and sleptTime                                        *)
  keepAliveTimeout,
  connected, (* sock is connected and not closed by the client              *)
  stopKeepAliveThreadSem, keepAliveTaskExitSem,
  udpReceiver,  (* "none", "alive" or "destroyed"                           *)
  requests,  (* on their way to the server: who sent them, and what         *)
  stream,    (* responses that have arrived: TRUE for 200                   *)
  merged,    (* one recv has taken two responses                            *)
  server     (* whether its side is up; the session, its timeout and the    *)
             (* time since its last request; how long it has been answering *)

client == <<keepAliveTimeout, connected, stopKeepAliveThreadSem, keepAliveTaskExitSem,
            udpReceiver>>
network == <<requests, stream, merged, server>>
vars == <<main, thread, client, network>>

Init ==
  /\ main = [pc |-> "connect", method |-> "none", destroys |-> TRUE, waited |-> 0]
  /\ thread = [pc |-> "none", sleep |-> 0, slept |-> 0]
  /\ keepAliveTimeout = 0 /\ connected = FALSE
  /\ stopKeepAliveThreadSem = 0 /\ keepAliveTaskExitSem = 0
  /\ udpReceiver = "none"
  /\ requests = << >> /\ stream = << >> /\ merged = FALSE
  /\ server = [up |-> FALSE, session |-> FALSE, timeout |-> 0, age |-> 0, delay |-> 0]

-------------------------------------------------------------------------------
(* sendRequest and receiveResponse, for either thread.                       *)

(* A request sent to a server that has closed is lost, or the send fails.    *)
Sends(who, method, sent) ==
  /\ sent => connected
  /\ ~sent => ~connected \/ ~server.up
  /\ requests' = IF sent /\ server.up
                   THEN Append(requests, [by |-> who, method |-> method])
                   ELSE requests
  /\ UNCHANGED <<client, stream, merged, server>>

Readable == stream # << >> \/ ~connected \/ ~server.up

(* FALSE when the first response is an error, or there is none.              *)
Receives(ok) ==
  /\ Readable
  /\ ok = (connected /\ stream # << >> /\ Head(stream))
  /\ stream' = IF connected THEN << >> ELSE stream
  /\ merged' = (merged \/ (connected /\ Len(stream) > 1))

-------------------------------------------------------------------------------
(* SLARtspOpenURL                                                            *)
MainGoto(pc) == main' = [main EXCEPT !.pc = pc]
MainSends(method) == main' = [main EXCEPT !.pc = "send", !.method = method]

(* error: stopStreaming(true)                                                *)
Error == main' = [main EXCEPT !.pc = "stop", !.destroys = TRUE]

Connect ==
  /\ main.pc = "connect"
  /\ \/ /\ MainSends("OPTIONS")
        /\ connected' = TRUE /\ server' = [server EXCEPT !.up = TRUE]
     \/ Error /\ UNCHANGED <<connected, server>>
  /\ UNCHANGED <<thread, keepAliveTimeout, stopKeepAliveThreadSem, keepAliveTaskExitSem,
                 udpReceiver, requests, stream, merged>>

SendRequest ==
  /\ main.pc = "send"
  /\ \E sent \in BOOLEAN :
       /\ Sends("main", main.method, sent)
       /\ IF sent THEN MainGoto("receive")
          ELSE IF main.method = "TEARDOWN" THEN MainGoto("disconnect") ELSE Error
  /\ UNCHANGED thread

(* onResponseSetup: "atleast 60".                                            *)
KeepAlive(timeout) == IF timeout >= 60 THEN timeout ELSE RTSP_DEFAULT_KEEP_ALIVE

ReceiveResponse ==
  /\ main.pc = "receive"
  /\ \E ok \in BOOLEAN :
       /\ Receives(ok)
       /\ CASE main.method = "TEARDOWN"  -> MainGoto("disconnect")
            [] OTHER -> IF ~ok THEN Error
                        ELSE CASE main.method = "OPTIONS"  -> MainSends("DESCRIBE")
                               [] main.method = "DESCRIBE" -> MainGoto("ports")
                               [] main.method = "SETUP"    -> MainGoto("threads")
                               [] main.method = "PLAY"     -> MainGoto("open")
       /\ keepAliveTimeout' = IF ok /\ main.method = "SETUP" THEN KeepAlive(server.timeout)
                              ELSE keepAliveTimeout
  /\ UNCHANGED <<thread, connected, stopKeepAliveThreadSem, keepAliveTaskExitSem,
                 udpReceiver, requests, server>>

CreateRtpPorts ==
  /\ main.pc = "ports"
  /\ MainSends("SETUP") \/ Error
  /\ UNCHANGED <<thread, client, network>>

(* The receiver may be NULL, which nobody looks at.                          *)
CreateThreads ==
  /\ main.pc = "threads"
  /\ udpReceiver' \in {"none", "alive"}
  /\ thread' = [pc |-> "sleep", sleep |-> KEEP_ALIVE_TASK_LOOP_SLEEP, slept |-> 0]
  /\ MainSends("PLAY")
  /\ UNCHANGED <<keepAliveTimeout, connected, stopKeepAliveThreadSem, keepAliveTaskExitSem,
                 network>>

-------------------------------------------------------------------------------
(* stopStreaming, and the delete that follows it                             *)

(* The decode task changes its address, or ends.  Without a receiver it has  *)
(* ended before, and has left the client behind.                             *)
Stop ==
  /\ main.pc = "open" /\ udpReceiver # "none"
  /\ \E destroys \in BOOLEAN : main' = [main EXCEPT !.pc = "stop", !.destroys = destroys]
  /\ UNCHANGED <<thread, client, network>>

PostStop ==
  /\ main.pc = "stop"
  /\ stopKeepAliveThreadSem' = stopKeepAliveThreadSem + 1
  /\ MainGoto("destroy")
  /\ UNCHANGED <<thread, keepAliveTimeout, connected, keepAliveTaskExitSem, udpReceiver,
                 network>>

DestroyReceiver ==
  /\ main.pc = "destroy"
  /\ udpReceiver' = IF main.destroys /\ udpReceiver = "alive" THEN "destroyed" ELSE udpReceiver
  /\ MainSends("TEARDOWN")
  /\ UNCHANGED <<thread, keepAliveTimeout, connected, stopKeepAliveThreadSem,
                 keepAliveTaskExitSem, network>>

(* Mutant: the socket is not closed.                                         *)
DisconnectNothing ==
  /\ main.pc = "disconnect"
  /\ main' = [main EXCEPT !.pc = "pend", !.waited = 0]
  /\ UNCHANGED <<thread, client, network>>

Disconnect ==
  /\ main.pc = "disconnect"
  /\ connected' = FALSE
  /\ main' = [main EXCEPT !.pc = "pend", !.waited = 0]
  /\ UNCHANGED <<thread, keepAliveTimeout, stopKeepAliveThreadSem, keepAliveTaskExitSem,
                 udpReceiver, network>>

(* Mutant: it waits for a thread that was perhaps never made.                *)
PendExitForever ==
  /\ main.pc = "pend" /\ keepAliveTaskExitSem > 0
  /\ keepAliveTaskExitSem' = keepAliveTaskExitSem - 1
  /\ MainGoto("deleted")
  /\ UNCHANGED <<thread, keepAliveTimeout, connected, stopKeepAliveThreadSem, udpReceiver,
                 network>>

PendExit ==
  /\ main.pc = "pend"
  /\ \/ /\ keepAliveTaskExitSem > 0
        /\ keepAliveTaskExitSem' = keepAliveTaskExitSem - 1
     \/ /\ keepAliveTaskExitSem = 0 /\ main.waited = WAIT_TO_EXIT_KEEP_ALIVE_THREAD
        /\ UNCHANGED keepAliveTaskExitSem
  /\ MainGoto("deleted")
  /\ UNCHANGED <<thread, keepAliveTimeout, connected, stopKeepAliveThreadSem, udpReceiver,
                 network>>

Main ==
  \/ Connect \/ SendRequest \/ ReceiveResponse \/ CreateRtpPorts \/ CreateThreads
  \/ PostStop \/ DestroyReceiver \/ Disconnect \/ PendExit

-------------------------------------------------------------------------------
(* rtpClientKeepAliveTask                                                    *)
ThreadGoto(pc) == thread' = [thread EXCEPT !.pc = pc]

(* Mutant: "sleep 10 sec less of keep alive" is forgotten.                   *)
SleepDurationWhole == keepAliveTimeout

SleepDuration == keepAliveTimeout - 10

Wake ==
  /\ thread.pc = "sleep" /\ thread.sleep = 0
  /\ LET slept == thread.slept + KEEP_ALIVE_TASK_LOOP_SLEEP
     IN thread' = [thread EXCEPT !.slept = slept,
                     !.pc = IF slept > SleepDuration THEN "send" ELSE "test"]
  /\ UNCHANGED <<main, client, network>>

(* Whether it was sent is not looked at.                                     *)
SendOptions ==
  /\ thread.pc = "send"
  /\ \E sent \in BOOLEAN : Sends("thread", "OPTIONS", sent)
  /\ ThreadGoto("receive")
  /\ UNCHANGED main

ReceiveOptions ==
  /\ thread.pc = "receive"
  /\ \E ok \in BOOLEAN :
       /\ Receives(ok)
       /\ thread' = IF ok THEN [thread EXCEPT !.pc = "test", !.slept = 0]
                    ELSE [thread EXCEPT !.pc = "post"]
  /\ UNCHANGED <<main, client, requests, server>>

TestStop ==
  /\ thread.pc = "test"
  /\ IF stopKeepAliveThreadSem > 0
       THEN /\ stopKeepAliveThreadSem' = stopKeepAliveThreadSem - 1
            /\ ThreadGoto("post")
       ELSE /\ thread' = [thread EXCEPT !.pc = "sleep", !.sleep = KEEP_ALIVE_TASK_LOOP_SLEEP]
            /\ UNCHANGED stopKeepAliveThreadSem
  /\ UNCHANGED <<main, keepAliveTimeout, connected, keepAliveTaskExitSem, udpReceiver, network>>

PostExit ==
  /\ thread.pc = "post"
  /\ keepAliveTaskExitSem' = keepAliveTaskExitSem + 1
  /\ ThreadGoto("ended")
  /\ UNCHANGED <<main, keepAliveTimeout, connected, stopKeepAliveThreadSem, udpReceiver, network>>

KeepAliveTask == Wake \/ SendOptions \/ ReceiveOptions \/ TestStop \/ PostExit

-------------------------------------------------------------------------------
(* The server, and time.                                                     *)
Answer ==
  /\ requests # << >> /\ server.up
  /\ requests' = Tail(requests)
  /\ \E ok \in BOOLEAN, timeout \in Timeouts :
       LET setup == ok /\ Head(requests).method = "SETUP"
       IN /\ stream' = IF connected THEN Append(stream, ok) ELSE stream
          /\ server' = [server EXCEPT !.age = 0, !.delay = 0,
               !.session = (@ \/ setup) /\ Head(requests).method # "TEARDOWN",
               !.timeout = IF setup THEN timeout ELSE @]
  /\ UNCHANGED <<main, thread, client, merged>>

CloseConnection ==
  /\ server.up
  /\ server' = [server EXCEPT !.up = FALSE, !.session = FALSE]
  /\ requests' = << >>
  /\ UNCHANGED <<main, thread, client, stream, merged>>

MainRuns ==
  \/ main.pc \in {"connect", "send", "ports", "threads", "stop", "destroy", "disconnect"}
  \/ main.pc = "receive" /\ Readable
  \/ main.pc = "pend" /\ (keepAliveTaskExitSem > 0 \/ main.waited = WAIT_TO_EXIT_KEEP_ALIVE_THREAD)

ThreadRuns ==
  \/ thread.pc \in {"send", "test", "post"}
  \/ thread.pc = "receive" /\ Readable
  \/ thread.pc = "sleep" /\ thread.sleep = 0

(* server.age is counted one second past the timeout.                        *)
Tick ==
  /\ ~MainRuns /\ ~ThreadRuns
  /\ requests # << >> => server.delay < MaxDelay
  /\ server' = [server EXCEPT
       !.age   = IF server.session /\ @ <= server.timeout THEN @ + 1 ELSE @,
       !.delay = IF requests # << >> THEN @ + 1 ELSE 0]
  /\ thread' = IF thread.pc = "sleep" THEN [thread EXCEPT !.sleep = @ - 1] ELSE thread
  /\ main' = IF main.pc = "pend" THEN [main EXCEPT !.waited = @ + 1] ELSE main
  /\ UNCHANGED <<client, requests, stream, merged>>

Next == Main \/ Stop \/ KeepAliveTask \/ Answer \/ CloseConnection \/ Tick

Spec == Init /\ [][Next]_vars

(* The threads run and the server answers (see Tick); nobody has to stop.    *)
FairSpec == Spec /\ WF_vars(Main) /\ WF_vars(KeepAliveTask) /\ WF_vars(Answer) /\ WF_vars(Tick)

-------------------------------------------------------------------------------
TypeOK ==
  /\ main \in [pc : {"connect", "send", "receive", "ports", "threads", "open", "stop",
                     "destroy", "disconnect", "pend", "deleted"},
               method : {"none", "OPTIONS", "DESCRIBE", "SETUP", "PLAY", "TEARDOWN"},
               destroys : BOOLEAN, waited : 0 .. WAIT_TO_EXIT_KEEP_ALIVE_THREAD]
  /\ thread \in [pc : {"none", "sleep", "send", "receive", "test", "post", "ended"},
                 sleep : 0 .. KEEP_ALIVE_TASK_LOOP_SLEEP, slept : Nat]
  /\ keepAliveTimeout \in Nat /\ connected \in BOOLEAN /\ merged \in BOOLEAN
  /\ stopKeepAliveThreadSem \in 0 .. 1 /\ keepAliveTaskExitSem \in 0 .. 1
  /\ udpReceiver \in {"none", "alive", "destroyed"}
  /\ Len(requests) <= 2 /\ Len(stream) <= 2
  /\ server \in [up : BOOLEAN, session : BOOLEAN, timeout : Nat, age : Nat, delay : 0 .. MaxDelay]

(* The client is deleted, and its semaphores destroyed, only when the        *)
(* keep-alive thread no longer uses them, although the wait for it is        *)
(* limited.                                                                  *)
ClientOutlivesThread == main.pc = "deleted" => thread.pc \in {"none", "ended"}

(* "sleep 10 sec less of keep alive": no session expires at the server while *)
(* it is in use and the server answers well.  (A timeout of less than a      *)
(* minute is ignored, and a session with one expires.)                       *)
SessionKeptAlive ==
  /\ server.session /\ server.timeout >= RTSP_DEFAULT_KEEP_ALIVE
  /\ thread.pc # "ended" /\ main.pc = "open"
  => server.age <= server.timeout

(* When the URL could not be opened, and when the decode task has ended, no  *)
(* receiver is left.                                                         *)
FailureLeavesNothing ==
  main.pc = "deleted" /\ main.destroys => udpReceiver # "alive"

(* What the end of a client leaves.                                          *)
ClientOK == TypeOK /\ ClientOutlivesThread /\ FailureLeavesNothing

(* The call to open or to stop returns, unless one thread has taken the      *)
(* response to the other with its own.                                       *)
CallsReturn ==
  main.pc \in {"connect", "stop"} ~> main.pc \in {"open", "deleted"} \/ merged

===============================================================================
