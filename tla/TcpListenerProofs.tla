------------------------- MODULE TcpListenerProofs -------------------------
(***************************************************************************)
(* Proofs about TcpListener, for any number of threads that end the        *)
(* server: a listening server keeps its socket, and stopListen returns     *)
(* only when it has stopped.                                               *)
(***************************************************************************)
EXTENDS TcpListener, TLAPS

(* islisten and the descriptor, wherever the server thread may be in       *)
(* listen(); no call that ends the server is past stopListen by then.      *)
ListenerInv ==
  /\ TypeOK
  /\ lpc \in Accepting \cup {"mark", "open", "ending"} =>
       bound /\ \A s \in Stoppers : spc[s] # "disc"
  /\ lpc \in Accepting \cup {"open", "ending"} => islisten
  /\ lpc = "mark" => ~islisten /\ \A s \in Stoppers : spc[s] = "idle"

USE DEF Accepting, ListenPC, StopPC, ServerGoes, StopperGoes, Thrown

LEMMA InitListenerInv == Init => ListenerInv
BY DEF Init, ListenerInv, TypeOK

(* The steps of the server thread keep the invariant.                      *)
LEMMA ServerKeepsInv ==
  ASSUME ListenerInv, bind \/ listen \/ InListen
  PROVE  ListenerInv'
<1>1. CASE bind
  BY <1>1 DEF ListenerInv, TypeOK, bind
<1>2. CASE listen
  BY <1>2 DEF ListenerInv, TypeOK, listen
<1>3. CASE MarkListening
  BY <1>3 DEF ListenerInv, TypeOK, MarkListening
<1>4. CASE OpenListen
  BY <1>4 DEF ListenerInv, TypeOK, OpenListen
<1>5. CASE CheckStop
  BY <1>5 DEF ListenerInv, TypeOK, CheckStop
<1>6. CASE Select
  BY <1>6 DEF ListenerInv, TypeOK, Select
<1>7. CASE ReceiveConnect
  <2>1. stoplisten' \in BOOLEAN
    BY <1>7 DEF ListenerInv, TypeOK, ReceiveConnect
  <2>2. /\ lpc = "callback" /\ UNCHANGED <<bound, islisten, spc>>
        /\ lpc' \in {"loop", "idle"}
    BY <1>7 DEF ReceiveConnect
  <2>3. QED
    BY <2>1, <2>2 DEF ListenerInv, TypeOK
<1>8. CASE EndListen
  BY <1>8 DEF ListenerInv, TypeOK, EndListen
<1>9. QED
  BY <1>1, <1>2, <1>3, <1>4, <1>5, <1>6, <1>7, <1>8 DEF InListen

(* So do the steps of the others.                                          *)
LEMMA StopperKeepsInv ==
  ASSUME ListenerInv, NEW s \in Stoppers, StopperStep(s)
  PROVE  ListenerInv'
<1>1. CASE signalStopListen(s)
  BY <1>1 DEF ListenerInv, TypeOK, signalStopListen
<1>2. CASE stopListen(s)
  BY <1>2 DEF ListenerInv, TypeOK, stopListen, StopRequest
<1>3. CASE StopReturns(s)
  BY <1>3 DEF ListenerInv, TypeOK, StopReturns
<1>4. CASE disconnect(s)
  <2>1. CASE islisten
    BY <1>4, <2>1 DEF ListenerInv, TypeOK, disconnect, StopRequest
  <2>2. CASE ~islisten
    BY <1>4, <2>2 DEF ListenerInv, TypeOK, disconnect
  <2>3. QED
    BY <2>1, <2>2
<1>5. CASE CloseSocket(s)
  BY <1>5 DEF ListenerInv, TypeOK, CloseSocket
<1>6. QED
  BY <1>1, <1>2, <1>3, <1>4, <1>5 DEF StopperStep

(* ListenerInv is inductive.                                               *)
THEOREM ListenerInvariant == Spec => []ListenerInv
<1>1. ListenerInv /\ [Next]_vars => ListenerInv'
  <2> SUFFICES ASSUME ListenerInv, [Next]_vars PROVE ListenerInv'
    OBVIOUS
  <2>1. CASE bind \/ listen \/ InListen
    BY <2>1, ServerKeepsInv
  <2>2. CASE \E s \in Stoppers : StopperStep(s)
    BY <2>2, StopperKeepsInv
  <2>3. CASE UNCHANGED vars
    BY <2>3 DEF ListenerInv, TypeOK, vars
  <2>4. QED
    BY <2>1, <2>2, <2>3 DEF Next
<1>2. QED
  BY InitListenerInv, <1>1, PTL DEF Spec

(* While it accepts connections, the server is marked as listening and its *)
(* descriptor is open (TCPSocket::listen against disconnect).              *)
THEOREM ListenKeepsSocketHolds == Spec => []ListenKeepsSocket
<1>1. ListenerInv => ListenKeepsSocket
  BY DEF ListenerInv, ListenKeepsSocket
<1>2. QED
  BY ListenerInvariant, <1>1, PTL

(* stopListen returns only when the server has stopped.                    *)
THEOREM StopMeansStoppedHolds == Spec => StopMeansStopped
<1>1. ListenerInv /\ [Next]_vars =>
        [\A s \in Stoppers :
           spc[s] \in {"stop", "discStop"} /\ spc'[s] # spc[s]
             => lpc \notin Accepting]_vars
  <2> SUFFICES ASSUME ListenerInv, Next, NEW s \in Stoppers,
                      spc[s] \in {"stop", "discStop"}, spc'[s] # spc[s]
               PROVE  lpc \notin Accepting
    OBVIOUS
  <2>1. ~(bind \/ listen \/ InListen)
    BY DEF bind, listen, InListen, MarkListening, OpenListen, CheckStop, Select,
           ReceiveConnect, EndListen
  <2>2. PICK r \in Stoppers : StopperStep(r)
    BY <2>1 DEF Next
  <2>3. r = s
    BY <2>2 DEF ListenerInv, TypeOK, StopperStep, signalStopListen, stopListen,
                StopRequest, StopReturns, disconnect, CloseSocket
  <2>4. StopReturns(s)
    BY <2>2, <2>3 DEF StopperStep, signalStopListen, stopListen, disconnect,
                      CloseSocket
  <2>5. QED
    BY <2>4 DEF ListenerInv, StopReturns
<1>2. QED
  BY ListenerInvariant, <1>1, PTL DEF Spec, StopMeansStopped

=============================================================================
