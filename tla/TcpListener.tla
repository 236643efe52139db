---------------------------- MODULE TcpListener ----------------------------
(***************************************************************************)
(* The server side of ppl7::TCPSocket (src/src/internet/TCPSocket.cpp):    *)
(* one thread is in listen(), others end it with stopListen,               *)
(* signalStopListen, disconnect or shutdown.                               *)
(*                                                                         *)
(* A section under the object's mutex is one step; so is a read or write   *)
(* of a field outside of it.  The application calls listen again only when *)
(* no call that ends it is under way, and disconnect not while listen is   *)
(* about to set islisten, which disconnect reads without the mutex.        *)
(***************************************************************************)
CONSTANT Stoppers  (* the threads that end the server *)

VARIABLES
  bound,       (* s->sd is a descriptor                                    *)
  islisten,
  stoplisten,
  lpc,         (* where the server thread is in listen()                   *)
  spc          (* where a stopper is in its call                           *)

vars == <<bound, islisten, stoplisten, lpc, spc>>

(* "stuck": in the stopListen that listen() calls first; "mark": before it *)
(* sets islisten; "open": before ::listen; "loop": before it looks at      *)
(* stoplisten; "select": waiting for a connection; "callback": in          *)
(* receiveConnect; "ending": it has seen stoplisten.                       *)
Accepting == {"loop", "select", "callback"}
ListenPC == Accepting \cup {"idle", "stuck", "mark", "open", "ending"}

(* "stop", "discStop": in the loop of stopListen, called directly or by    *)
(* disconnect; "disc": disconnect is past that.                            *)
StopPC == {"idle", "stop", "discStop", "disc"}

Init ==
  /\ bound = FALSE
  /\ islisten = FALSE /\ stoplisten = FALSE
  /\ lpc = "idle"
  /\ spc = [s \in Stoppers |-> "idle"]

ServerGoes(pc) == lpc' = pc /\ UNCHANGED spc
StopperGoes(s, pc) == spc' = [spc EXCEPT ![s] = pc] /\ UNCHANGED lpc

-----------------------------------------------------------------------------
(* The server thread.                                                      *)

bind ==
  /\ lpc = "idle"
  /\ ~bound
  /\ \A s \in Stoppers : spc[s] = "idle"
  /\ bound' = TRUE
  /\ UNCHANGED <<islisten, stoplisten, lpc, spc>>

(* listen() throws without a descriptor, and begins with a stopListen of   *)
(* its own: that one returns only if no earlier listen left islisten set.  *)
listen ==
  /\ lpc = "idle"
  /\ bound
  /\ \A s \in Stoppers : spc[s] = "idle"
  /\ stoplisten' = islisten
  /\ ServerGoes(IF islisten THEN "stuck" ELSE "mark")
  /\ UNCHANGED <<bound, islisten>>

MarkListening ==
  /\ lpc = "mark"
  /\ stoplisten' = FALSE
  /\ islisten' = TRUE
  /\ ServerGoes("open")
  /\ UNCHANGED bound

(* An exception of setBlocking, of receiveConnect or for lack of memory    *)
(* leaves listen(); only the one about ::listen resets islisten.           *)
Thrown == ServerGoes("idle") /\ UNCHANGED islisten

OpenListen ==
  /\ lpc = "open"
  /\ \/ ServerGoes("loop") /\ UNCHANGED islisten
     \/ ServerGoes("idle") /\ islisten' = FALSE
     \/ Thrown
  /\ UNCHANGED <<bound, stoplisten>>

CheckStop ==
  /\ lpc = "loop"
  /\ ServerGoes(IF stoplisten THEN "ending" ELSE "select")
  /\ UNCHANGED <<bound, islisten, stoplisten>>

(* select() times out, or a connection is accepted, or accepting it fails. *)
Select ==
  /\ lpc = "select"
  /\ \E pc \in {"loop", "callback"} : ServerGoes(pc)
  /\ UNCHANGED <<bound, islisten, stoplisten>>

(* receiveConnect may call signalStopListen.                               *)
ReceiveConnect ==
  /\ lpc = "callback"
  /\ \/ ServerGoes("loop") /\ UNCHANGED islisten
     \/ Thrown
  /\ stoplisten' \in {stoplisten, TRUE}
  /\ UNCHANGED bound

EndListen ==
  /\ lpc = "ending"
  /\ islisten' = FALSE
  /\ ServerGoes("idle")
  /\ UNCHANGED <<bound, stoplisten>>

InListen ==
  \/ MarkListening \/ OpenListen \/ CheckStop \/ Select
  \/ ReceiveConnect \/ EndListen

-----------------------------------------------------------------------------
(* The threads that end it.                                                *)

signalStopListen(s) ==
  /\ spc[s] = "idle"
  /\ stoplisten' = TRUE
  /\ UNCHANGED <<bound, islisten, lpc, spc>>

(* A mistake: stopListen does not set stoplisten.                          *)
StopRequestSilent(s, waiting, after) ==
  /\ StopperGoes(s, IF islisten THEN waiting ELSE after)
  /\ UNCHANGED <<bound, islisten, stoplisten>>

(* stopListen up to its first look at islisten.                            *)
StopRequest(s, waiting, after) ==
  /\ stoplisten' = islisten
  /\ StopperGoes(s, IF islisten THEN waiting ELSE after)
  /\ UNCHANGED <<bound, islisten>>

stopListen(s) == spc[s] = "idle" /\ StopRequest(s, "stop", "idle")

(* A mistake: stopListen does not wait.                                    *)
StopReturnsAtOnce(s) ==
  /\ spc[s] \in {"stop", "discStop"}
  /\ stoplisten' = FALSE
  /\ StopperGoes(s, IF spc[s] = "stop" THEN "idle" ELSE "disc")
  /\ UNCHANGED <<bound, islisten>>

StopReturns(s) ==
  /\ spc[s] \in {"stop", "discStop"}
  /\ ~islisten
  /\ stoplisten' = FALSE
  /\ StopperGoes(s, IF spc[s] = "stop" THEN "idle" ELSE "disc")
  /\ UNCHANGED <<bound, islisten>>

(* A mistake: disconnect does not stop the server.                         *)
disconnectAtOnce(s) ==
  /\ spc[s] = "idle"
  /\ lpc # "mark"
  /\ StopperGoes(s, "disc")
  /\ UNCHANGED <<bound, islisten, stoplisten>>

(* disconnect and shutdown, and with them the destructor.                  *)
disconnect(s) ==
  /\ spc[s] = "idle"
  /\ lpc # "mark"
  /\ IF islisten
     THEN StopRequest(s, "discStop", "disc")
     ELSE StopperGoes(s, "disc") /\ UNCHANGED <<bound, islisten, stoplisten>>

CloseSocket(s) ==
  /\ spc[s] = "disc"
  /\ bound' = FALSE
  /\ islisten' = FALSE
  /\ StopperGoes(s, "idle")
  /\ UNCHANGED stoplisten

StopperStep(s) ==
  \/ signalStopListen(s) \/ stopListen(s) \/ StopReturns(s)
  \/ disconnect(s) \/ CloseSocket(s)

Next ==
  \/ bind \/ listen \/ InListen
  \/ \E s \in Stoppers : StopperStep(s)

(* All threads are scheduled; select() has a timeout and receiveConnect    *)
(* returns or throws.                                                      *)
Fairness ==
  /\ WF_vars(InListen)
  /\ \A s \in Stoppers : WF_vars(StopReturns(s) \/ CloseSocket(s))

Spec == Init /\ [][Next]_vars
FairSpec == Spec /\ Fairness

-----------------------------------------------------------------------------
(* The values of the variables.                                            *)
TypeOK ==
  /\ bound \in BOOLEAN
  /\ islisten \in BOOLEAN
  /\ stoplisten \in BOOLEAN
  /\ lpc \in ListenPC
  /\ spc \in [Stoppers -> StopPC]

(* While the server accepts connections, islisten says so, and its         *)
(* descriptor is open: neither a stopper that saw the server end nor a     *)
(* disconnect that came later takes them away.                             *)
ListenKeepsSocket == lpc \in Accepting => islisten /\ bound

(* When stopListen returns, alone or in disconnect, the server accepts no  *)
(* connection and runs no receiveConnect any more (TCPSocket.cpp 362-365). *)
StopMeansStopped ==
  [][\A s \in Stoppers :
       spc[s] \in {"stop", "discStop"} /\ spc'[s] # spc[s] => lpc \notin Accepting]_vars

(* A stop request that reaches a listening server ends it: no stopper      *)
(* withdraws the request of another.                                       *)
StopRequestServed == (lpc \in Accepting /\ stoplisten) ~> lpc \notin Accepting

Waiting(s) == spc[s] \in {"stop", "discStop"}
Abandoned == lpc \in {"idle", "stuck"} /\ islisten

(* Every stopListen returns, unless an exception has ended the server and  *)
(* left islisten behind.                                                   *)
StopListenReturns == \A s \in Stoppers : Waiting(s) ~> ~Waiting(s) \/ Abandoned

(* TCPSocket.cpp 362-366: stopListen returns when the server has ended.    *)
StopListenReturnsAlways == \A s \in Stoppers : Waiting(s) ~> ~Waiting(s)

=============================================================================
