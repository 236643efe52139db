--------------------------- MODULE SocketMessage ---------------------------
(***************************************************************************)
(* Messages over a connected ppl7::TCPSocket: write(SocketMessage) and     *)
(* waitForMessage (src/src/internet/SocketMessage.cpp) with the loops of   *)
(* TCPSocket::write and readLoop (src/src/internet/TCPSocket.cpp).         *)
(*                                                                         *)
(* Two ends; at each of them one thread receives, and answers with the     *)
(* message object it received into, and others send with objects of their  *)
(* own.  Nothing keeps two threads from writing to one socket at a time.   *)
(*                                                                         *)
(* The bytes on the wire are grouped into words.  A word stands for what   *)
(* was written there, so a checksum holds for exactly the words it was     *)
(* computed of: collisions, and payloads that contain frames, are left     *)
(* out.                                                                    *)
(***************************************************************************)
EXTENDS Naturals, Sequences

CONSTANTS
  Ends,       (* the two ends of the connection                            *)
  Threads,
  End,        (* End[t]: the end where t runs                              *)
  Readers,    (* the threads that receive, one at each end                 *)
  Announces,  (* threads whose objects have UseCompression                 *)
  Outbox,     (* Outbox[t]: the messages t sends                           *)
  Size,       (* Size[m]: words of the payload                             *)
  Large,      (* messages above 64 bytes, which zlib makes smaller         *)
  HeadWords   (* bound: words of a version 1 header, 5 of 4 bytes          *)

Messages == UNION {Outbox[t] : t \in Threads}

ASSUME MessageAssumption ==
  /\ \E a, b \in Ends : a # b /\ Ends = {a, b}
  /\ Outbox \in [Threads -> SUBSET Messages]
  /\ Announces \subseteq Threads
  /\ End \in [Threads -> Ends]
  /\ Readers \subseteq Threads
  /\ \A e \in Ends : \E t \in Readers : End[t] = e
  /\ \A t, u \in Readers : End[t] = End[u] => t = u
  /\ \A t, u \in Threads : t # u => Outbox[t] \cap Outbox[u] = {}
  /\ Size \in [Messages -> Nat]
  /\ \A m \in Large : Size[m] > 1
  /\ HeadWords \in Nat \ {0}

VARIABLES
  wire,       (* wire[e]: the words on their way to e                      *)
  tpc,        (* what a thread is doing                                    *)
  todo,       (* what it has still to send                                 *)
  got,        (* what it has read of the frame it receives                 *)
  supports,   (* ClientSupportsCompression of its message object           *)
  unsent,     (* the messages it has still to send                         *)
  sent,       (* sent[e]: the messages to e, in the order they began       *)
  delivered,  (* delivered[e]: what waitForMessage has returned at e       *)
  disturbed   (* disturbed[e]: a frame to e was cut off or mixed with      *)
              (* another                                                   *)

reading == <<wire, tpc, got>>
vars == <<reading, todo, supports, unsent, sent, delivered, disturbed>>

Reading == {"head", "more", "body"}

Init ==
  /\ wire = [e \in Ends |-> <<>>]
  /\ tpc = [t \in Threads |-> "idle"]
  /\ todo = [t \in Threads |-> <<>>]
  /\ got = [t \in Threads |-> <<>>]
  /\ supports = [t \in Threads |-> FALSE]
  /\ unsent = Outbox
  /\ sent = [e \in Ends |-> <<>>]
  /\ delivered = [e \in Ends |-> <<>>]
  /\ disturbed = [e \in Ends |-> FALSE]

-----------------------------------------------------------------------------
(* Frames: a header of HeadWords words and one more, then the payload.     *)

Frames == [msg : Messages, packed : BOOLEAN, announces : BOOLEAN]

BodySize(f) == IF f.packed THEN Size[f.msg] - 1 ELSE Size[f.msg]

Words(what, f, n) == [k \in 1..n |-> [what |-> what, frame |-> f, part |-> k]]
Header(f) == Words("head", f, HeadWords + 1)
Body(f) == Words("body", f, BodySize(f))

-----------------------------------------------------------------------------
(* write(SocketMessage).                                                   *)

Peer(t) == CHOOSE e \in Ends : e # End[t]

(* A mistake: the payload is compressed without a look at what the other   *)
(* side supports.                                                          *)
MayPackAlways(t, m) == m \in Large /\ t \in Announces

(* compress() may fail, and the payload is sent as it is then.             *)
MayPack(t, m) == m \in Large /\ supports[t] /\ t \in Announces

StartWrite(t) ==
  /\ tpc[t] = "idle"
  /\ \E m \in unsent[t] : \E packed \in {FALSE, MayPack(t, m)} :
       LET f == [msg |-> m, packed |-> packed, announces |-> t \in Announces] IN
       /\ todo' = [todo EXCEPT ![t] = Header(f) \o Body(f)]
       /\ unsent' = [unsent EXCEPT ![t] = @ \ {m}]
  /\ tpc' = [tpc EXCEPT ![t] = "write"]
  /\ UNCHANGED <<wire, got, supports, sent, delivered, disturbed>>

Begins(t) == todo[t][1].what = "head" /\ todo[t][1].part = 1

(* Another thread is in the middle of a frame on the same socket.          *)
Mixes(t) ==
  \E u \in Threads \ {t} : End[u] = End[t] /\ tpc[u] = "write" /\ ~Begins(u)

(* send() takes some or all of what is left of the buffer: the header is   *)
(* one, the payload another.                                               *)
Send(t) ==
  /\ tpc[t] = "write"
  /\ \E n \in {k \in 1..Len(todo[t]) : todo[t][k].what = todo[t][1].what} :
       /\ wire' = [wire EXCEPT ![Peer(t)] = @ \o SubSeq(todo[t], 1, n)]
       /\ todo' = [todo EXCEPT ![t] = SubSeq(@, n + 1, Len(@))]
       /\ tpc' = [tpc EXCEPT ![t] = IF n = Len(todo[t]) THEN "idle" ELSE "write"]
  /\ sent' = IF Begins(t)
             THEN [sent EXCEPT ![Peer(t)] = Append(@, todo[t][1].frame.msg)] ELSE sent
  /\ disturbed' = [disturbed EXCEPT ![Peer(t)] = @ \/ Mixes(t)]
  /\ UNCHANGED <<got, supports, unsent, delivered>>

-----------------------------------------------------------------------------
(* waitForMessage.                                                         *)

Goes(t, pc) == tpc' = [tpc EXCEPT ![t] = pc]

(* The call ends, with or without a message; what was read is gone.        *)
Leaves(t) ==
  /\ Goes(t, "idle")
  /\ got' = [got EXCEPT ![t] = <<>>]
  /\ UNCHANGED <<wire, todo, unsent, sent>>

(* An exception about what was read.                                       *)
Fails(t) == Leaves(t) /\ UNCHANGED <<delivered, disturbed>>

Accepts(t, f) ==
  /\ Leaves(t)
  /\ delivered' = [delivered EXCEPT ![End[t]] =
       Append(@, [msg |-> f.msg, payload |-> SubSeq(got[t], HeadWords + 2, Len(got[t]))])]
  /\ UNCHANGED disturbed

(* waitForIncomingData says that something has arrived.                    *)
waitForMessage(t) ==
  /\ t \in Readers
  /\ tpc[t] = "idle"
  /\ wire[End[t]] # <<>>
  /\ Goes(t, "head")
  /\ UNCHANGED <<wire, got, todo, supports, unsent, sent, delivered, disturbed>>

(* A mistake: the size of the payload includes that of its compression.    *)
WantedPacked(t) ==
  CASE tpc[t] = "head" -> HeadWords
    [] tpc[t] = "more" -> HeadWords + 1
    [] tpc[t] = "body" -> HeadWords + 1 + Size[got[t][1].frame.msg]

(* The words readLoop is asked for, with those of the earlier calls.       *)
Wanted(t) ==
  CASE tpc[t] = "head" -> HeadWords
    [] tpc[t] = "more" -> HeadWords + 1
    [] tpc[t] = "body" -> HeadWords + 1 + BodySize(got[t][1].frame)

readLoop(t) ==
  /\ tpc[t] \in Reading
  /\ Len(got[t]) < Wanted(t)
  /\ wire[End[t]] # <<>>
  /\ got' = [got EXCEPT ![t] = Append(@, Head(wire[End[t]]))]
  /\ wire' = [wire EXCEPT ![End[t]] = Tail(@)]
  /\ UNCHANGED <<tpc, todo, supports, unsent, sent, delivered, disturbed>>

Complete(t) == Len(got[t]) = Wanted(t)

(* "V" and the version.  What is not the first word of a header may look   *)
(* like one, of this version or of version 1, which then fails.            *)
ReadVersion(t) ==
  /\ tpc[t] = "head" /\ Complete(t)
  /\ \/ /\ Goes(t, "more")
        /\ UNCHANGED <<wire, got, todo, unsent, sent, delivered, disturbed>>
     \/ got[t][1] # Header(got[t][1].frame)[1] /\ Fails(t)
  /\ UNCHANGED supports

(* The checksum of the header; then what the sender supports is taken      *)
(* over.                                                                   *)
readFromPacketHeader(t) ==
  LET f == got[t][1].frame IN
  /\ tpc[t] = "more" /\ Complete(t)
  /\ IF got[t] = Header(f)
     THEN /\ supports' = [supports EXCEPT ![t] = f.announces]
          /\ IF BodySize(f) = 0
             THEN Accepts(t, f)
             ELSE /\ Goes(t, "body")
                  /\ UNCHANGED <<wire, got, todo, unsent, sent, delivered, disturbed>>
     ELSE Fails(t) /\ UNCHANGED supports

(* A mistake: the checksum of the payload is not compared.                 *)
ReadPayloadUnchecked(t) ==
  /\ tpc[t] = "body" /\ Complete(t)
  /\ Accepts(t, got[t][1].frame)
  /\ UNCHANGED supports

(* The checksum of the payload; a compressed one is unpacked.              *)
ReadPayload(t) ==
  LET f == got[t][1].frame IN
  /\ tpc[t] = "body" /\ Complete(t)
  /\ IF got[t] = Header(f) \o Body(f) THEN Accepts(t, f) ELSE Fails(t)
  /\ UNCHANGED supports

(* readLoop throws because the time is over or watch_thread should stop:   *)
(* also when the last word has arrived, after which it looks at the clock. *)
(* A stop before the first word is as if nobody had waited.                *)
Abort(t) ==
  /\ tpc[t] \in Reading
  /\ got[t] # <<>>
  /\ Leaves(t)
  /\ disturbed' = [disturbed EXCEPT ![End[t]] = TRUE]
  /\ UNCHANGED <<supports, delivered>>

Receive(t) ==
  \/ waitForMessage(t) \/ readLoop(t)
  \/ ReadVersion(t) \/ readFromPacketHeader(t) \/ ReadPayload(t)

Next == \E t \in Threads : StartWrite(t) \/ Send(t) \/ Receive(t) \/ Abort(t)

(* What was sent arrives; a thread in write() goes on, and the readers     *)
(* call waitForMessage again and again.                                    *)
Fairness == \A t \in Threads : WF_vars(Send(t)) /\ WF_vars(Receive(t))

Spec == Init /\ [][Next]_vars
FairSpec == Spec /\ Fairness

-----------------------------------------------------------------------------
Word == [what : {"head", "body"}, frame : Frames, part : Nat]

(* The values of the variables; a thread holds words to send only in       *)
(* write(), and words of a frame only inside waitForMessage.               *)
TypeOK ==
  /\ wire \in [Ends -> Seq(Word)]
  /\ tpc \in [Threads -> Reading \cup {"idle", "write"}]
  /\ todo \in [Threads -> Seq(Word)]
  /\ \A t \in Threads : todo[t] # <<>> <=> tpc[t] = "write"
  /\ got \in [Threads -> Seq(Word)]
  /\ \A t \in Threads : got[t] # <<>> => tpc[t] \in Reading
  /\ supports \in [Threads -> BOOLEAN]
  /\ unsent \in [Threads -> SUBSET Messages]
  /\ sent \in [Ends -> Seq(Messages)]
  /\ delivered \in [Ends -> Seq([msg : Messages, payload : Seq(Word)])]
  /\ disturbed \in [Ends -> BOOLEAN]

Position(e, m) == CHOOSE i \in DOMAIN sent[e] : sent[e][i] = m

(* Whatever was cut off or mixed before, a message that is returned is one *)
(* that was sent, with its own payload; none is returned twice, and their  *)
(* order is that of the sender.                                            *)
DeliveredAsSent ==
  \A e \in Ends :
    /\ \A i \in DOMAIN delivered[e] :
         /\ \E k \in DOMAIN sent[e] : sent[e][k] = delivered[e][i].msg
         /\ \E f \in Frames : f.msg = delivered[e][i].msg /\ delivered[e][i].payload = Body(f)
    /\ \A i, j \in DOMAIN delivered[e] :
         i < j => Position(e, delivered[e][i].msg) < Position(e, delivered[e][j].msg)

(* A compressed payload goes only to an end that has sent an announcement  *)
(* that it can unpack it.                                                  *)
PackedOnlyIfAnnounced ==
  \A e \in Ends : \A i \in DOMAIN wire[e] :
    wire[e][i].frame.packed =>
      \E t \in Announces : End[t] = e /\ \E o \in Ends \ {e} :
        \E k \in DOMAIN sent[o] : sent[o][k] \in Outbox[t]

(* As long as nothing is cut off or mixed, the two ends are in step: no    *)
(* frame is refused.                                                       *)
InStep ==
  [][\A t \in Readers :
       tpc[t] \in Reading /\ tpc'[t] = "idle" /\ ~disturbed'[End[t]]
         => delivered'[End[t]] # delivered[End[t]]]_vars

(* As long as nothing is cut off or mixed, every message arrives.          *)
AllArrive ==
  \A e \in Ends : \A m \in Messages :
    (\E i \in DOMAIN sent[e] : sent[e][i] = m)
      ~> \/ disturbed[e]
         \/ \E i \in DOMAIN delivered[e] : delivered[e][i].msg = m

=============================================================================
