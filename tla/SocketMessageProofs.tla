------------------------ MODULE SocketMessageProofs ------------------------
(***************************************************************************)
(* Proofs about SocketMessage.  MessageInv is inductive and implies that   *)
(* messages are delivered as they were sent, whatever is cut off or mixed. *)
(* StepInv says what holds as long as nothing is, and implies that then no *)
(* frame is refused.                                                       *)
(***************************************************************************)
EXTENDS SocketMessage, SequenceTheorems, TLAPS

(* The first word of a frame.                                              *)
First(w) == w.what = "head" /\ w.part = 1

HasBegun(e, m) == \E k \in DOMAIN sent[e] : sent[e][k] = m

(* e has sent an announcement.                                             *)
Announced(e) ==
  \E t \in Announces : End[t] = e /\ \E o \in Ends \ {e} :
    \E k \in DOMAIN sent[o] : sent[o][k] \in Outbox[t]

(* Readers read, and past the version something has been read.             *)
ReaderInv ==
  \A t \in Threads :
    /\ tpc[t] \in Reading => t \in Readers
    /\ tpc[t] \in {"more", "body"} => got[t] # << >>

(* A message is sent once; one that a thread has still to send, or is      *)
(* about to begin, has not begun.                                          *)
SentInv ==
  /\ \A t \in Threads : unsent[t] \subseteq Outbox[t]
  /\ \A e \in Ends : \A i, j \in DOMAIN sent[e] : sent[e][i] = sent[e][j] => i = j
  /\ \A t \in Threads, e \in Ends : \A m \in unsent[t] : ~HasBegun(e, m)

(* What a thread holds to send is one frame of a message of its own, of    *)
(* which the first word can only come first.                               *)
OwnFrame(t, f) ==
  /\ f.msg \in Outbox[t] \ unsent[t]
  /\ f.announces => t \in Announces
  /\ f.packed => Announced(Peer(t))
  /\ IF Begins(t) THEN \A e \in Ends : ~HasBegun(e, f.msg)
                  ELSE HasBegun(Peer(t), f.msg)

RestOfOne(t) ==
  todo[t] # << >> =>
    /\ OwnFrame(t, todo[t][1].frame)
    /\ \A i \in DOMAIN todo[t] :
         /\ todo[t][i].frame = todo[t][1].frame
         /\ First(todo[t][i]) => i = 1

TodoInv == \A t \in Threads : RestOfOne(t)

(* A word that has arrived at e, or is on its way there.                   *)
FromOther(e, w) ==
  /\ HasBegun(e, w.frame.msg)
  /\ w.frame.announces =>
       \E t \in Announces : Peer(t) = e /\ w.frame.msg \in Outbox[t]

WireInv ==
  /\ \A e \in Ends : \A i \in DOMAIN wire[e] :
       /\ FromOther(e, wire[e][i])
       /\ wire[e][i].frame.packed => Announced(e)
  /\ \A t \in Threads : \A i \in DOMAIN got[t] : FromOther(End[t], got[t][i])
  /\ \A t \in Threads : supports[t] => Announced(Peer(t))

(* Before: m began before m2 did.                                          *)
Before(e, m, m2) ==
  \A i, j \in DOMAIN sent[e] : sent[e][i] = m /\ sent[e][j] = m2 => i < j

(* The frames that have not been returned yet began after those that have, *)
(* and they come in the order in which they began.                         *)
OrderInv ==
  \A e \in Ends :
    /\ \A i, j \in DOMAIN wire[e] :
         i < j /\ First(wire[e][i]) /\ First(wire[e][j])
           => Before(e, wire[e][i].frame.msg, wire[e][j].frame.msg)
    /\ \A i \in DOMAIN delivered[e], j \in DOMAIN wire[e] :
         First(wire[e][j]) => Before(e, delivered[e][i].msg, wire[e][j].frame.msg)
    /\ \A t \in Readers : End[t] = e /\ got[t] # <<>> /\ First(got[t][1]) =>
         /\ \A i \in DOMAIN delivered[e] :
              Before(e, delivered[e][i].msg, got[t][1].frame.msg)
         /\ \A j \in DOMAIN wire[e] :
              First(wire[e][j]) => Before(e, got[t][1].frame.msg, wire[e][j].frame.msg)

(* What has been returned.                                                 *)
DeliveredInv ==
  \A e \in Ends :
    /\ \A i \in DOMAIN delivered[e] :
         /\ HasBegun(e, delivered[e][i].msg)
         /\ \E f \in Frames : f.msg = delivered[e][i].msg /\ delivered[e][i].payload = Body(f)
    /\ \A i, j \in DOMAIN delivered[e] :
         i < j => Before(e, delivered[e][i].msg, delivered[e][j].msg)

MessageInv ==
  /\ TypeOK /\ ReaderInv /\ SentInv /\ TodoInv /\ WireInv /\ OrderInv
  /\ DeliveredInv

-----------------------------------------------------------------------------
(* The other end is the only other end.                                    *)
LEMMA PeerIsOther ==
  ASSUME NEW t \in Threads
  PROVE  /\ End[t] \in Ends /\ Peer(t) \in Ends /\ Peer(t) # End[t]
         /\ \A e \in Ends : e # End[t] => e = Peer(t)
<1>1. PICK a, b \in Ends : a # b /\ Ends = {a, b}
  BY MessageAssumption
<1>2. \E e \in Ends : e # End[t]
  BY <1>1
<1>3. Peer(t) \in Ends /\ Peer(t) # End[t]
  BY <1>2 DEF Peer
<1>4. QED
  BY <1>1, <1>3, MessageAssumption

LEMMA WordMsg ==
  ASSUME TypeOK
  PROVE  /\ \A w \in Word : w.frame \in Frames /\ w.frame.msg \in Messages
         /\ \A e \in Ends : \A i \in DOMAIN wire[e] :
              wire[e][i] \in Word /\ wire[e][i].frame.msg \in Messages
         /\ \A t \in Threads : \A i \in DOMAIN got[t] :
              got[t][i] \in Word /\ got[t][i].frame.msg \in Messages
         /\ \A e \in Ends : \A i \in DOMAIN delivered[e] : delivered[e][i].msg \in Messages
<1>1. \A w \in Word : w.frame \in Frames /\ w.frame.msg \in Messages
  BY DEF Word, Frames
<1>2. \A e \in Ends : \A i \in DOMAIN wire[e] : wire[e][i] \in Word
  BY DEF TypeOK
<1>3. \A t \in Threads : \A i \in DOMAIN got[t] : got[t][i] \in Word
  BY DEF TypeOK
<1>4. ASSUME NEW e \in Ends, NEW i \in DOMAIN delivered[e]
      PROVE  delivered[e][i].msg \in Messages
  <2>1. delivered[e] \in Seq([msg : Messages, payload : Seq(Word)])
    BY DEF TypeOK
  <2>2. \A S, q : q \in Seq(S) => \A k \in DOMAIN q : q[k] \in S
    OBVIOUS
  <2>3. delivered[e][i] \in [msg : Messages, payload : Seq(Word)]
    BY <2>1, <2>2, Zenon
  <2>4. QED
    BY <2>3
<1>5. QED
  BY <1>1, <1>2, <1>3, <1>4

(* The words of a frame.                                                   *)
LEMMA FrameWords ==
  ASSUME NEW f \in Frames
  PROVE  /\ Header(f) \in Seq(Word) /\ Len(Header(f)) = HeadWords + 1
         /\ \A i \in 1..HeadWords + 1 : Header(f)[i] = [what |-> "head", frame |-> f, part |-> i]
         /\ Body(f) \in Seq(Word) /\ Len(Body(f)) \in Nat
         /\ BodySize(f) \in Nat => Len(Body(f)) = BodySize(f)
         /\ \A i \in DOMAIN Body(f) : Body(f)[i] = [what |-> "body", frame |-> f, part |-> i]
<1> USE MessageAssumption DEF Words
<1>1. f.msg \in Messages /\ f.packed \in BOOLEAN
  BY DEF Frames
<1>2. BodySize(f) \in Int
  BY <1>1 DEF BodySize
<1>3. /\ Header(f) \in Seq(Word) /\ Len(Header(f)) = HeadWords + 1
      /\ \A i \in 1..HeadWords + 1 : Header(f)[i] = [what |-> "head", frame |-> f, part |-> i]
  BY DEF Header, Word
<1>4. CASE BodySize(f) \in Nat
  <2> DEFINE n == BodySize(f)
  <2>1. n \in Nat /\ Body(f) = [k \in 1..n |-> [what |-> "body", frame |-> f, part |-> k]]
    BY <1>4 DEF Body
  <2> HIDE DEF n
  <2>2. Body(f) \in Seq(Word) /\ Len(Body(f)) = n /\ DOMAIN Body(f) = 1..n
    BY <2>1 DEF Word
  <2>3. \A i \in DOMAIN Body(f) : Body(f)[i] = [what |-> "body", frame |-> f, part |-> i]
    BY <2>1
  <2>4. QED
    BY <1>3, <2>1, <2>2, <2>3 DEF n
<1>5. CASE BodySize(f) \notin Nat
  <2>1. 1..BodySize(f) = {}
    BY <1>2, <1>5
  <2>2. Body(f) = << >>
    BY <2>1 DEF Body
  <2>3. QED
    BY <1>3, <1>5, <2>2
<1>6. QED
  BY <1>4, <1>5

LEMMA WholeFrame ==
  ASSUME NEW f \in Frames
  PROVE  LET s == Header(f) \o Body(f) IN
         /\ s \in Seq(Word) /\ Len(s) \in Nat /\ s # << >>
         /\ s[1] = [what |-> "head", frame |-> f, part |-> 1]
         /\ \A i \in DOMAIN s : s[i].frame = f /\ (First(s[i]) => i = 1)
<1> DEFINE s == Header(f) \o Body(f)
<1>1. s \in Seq(Word) /\ Len(s) = Len(Header(f)) + Len(Body(f))
  BY FrameWords, ConcatProperties
<1>2. \A i \in 1..Len(s) : s[i] = IF i <= HeadWords + 1 THEN Header(f)[i] ELSE Body(f)[i - (HeadWords + 1)]
  BY FrameWords, ConcatProperties
<1>3. \A i \in 1..Len(s) : i > HeadWords + 1 => i - (HeadWords + 1) \in DOMAIN Body(f)
  BY <1>1, FrameWords, MessageAssumption
<1>4. \A i \in 1..Len(s) : s[i].frame = f /\ (First(s[i]) => i = 1)
  <2> SUFFICES ASSUME NEW i \in 1..Len(s)
               PROVE  s[i].frame = f /\ (First(s[i]) => i = 1)
    OBVIOUS
  <2>1. CASE i <= HeadWords + 1
    <3>1. s[i] = Header(f)[i] /\ i \in 1..HeadWords + 1
      BY <1>2, <2>1, MessageAssumption
    <3>2. s[i] = [what |-> "head", frame |-> f, part |-> i]
      BY <3>1, FrameWords
    <3>3. QED
      BY <3>2 DEF First
  <2>2. CASE i > HeadWords + 1
    <3>1. s[i] = Body(f)[i - (HeadWords + 1)]
      BY <1>2, <2>2, MessageAssumption
    <3>2. s[i].frame = f /\ s[i].what = "body"
      BY <1>3, <2>2, <3>1, FrameWords
    <3>3. QED
      BY <3>2 DEF First
  <2>3. QED
    BY <2>1, <2>2, MessageAssumption
<1>5. Len(s) \in Nat /\ 1 \in 1..Len(s) /\ DOMAIN s = 1..Len(s)
  BY <1>1, FrameWords, MessageAssumption
<1>6. s[1] = [what |-> "head", frame |-> f, part |-> 1]
  <2>1. s[1] = Header(f)[1] /\ 1 \in 1..HeadWords + 1
    BY <1>2, <1>5, MessageAssumption
  <2>2. QED
    BY <2>1, FrameWords
<1>7. QED
  BY <1>1, <1>4, <1>5, <1>6

(* send() takes the first n words of what is left.                         *)
LEMMA Cut ==
  ASSUME NEW S, NEW s \in Seq(S), NEW n \in 1..Len(s)
  PROVE  /\ SubSeq(s, 1, n) \in Seq(S) /\ Len(SubSeq(s, 1, n)) = n
         /\ \A i \in 1..n : SubSeq(s, 1, n)[i] = s[i]
         /\ SubSeq(s, n + 1, Len(s)) \in Seq(S)
         /\ Len(SubSeq(s, n + 1, Len(s))) = Len(s) - n
         /\ \A i \in 1..Len(s) - n : SubSeq(s, n + 1, Len(s))[i] = s[i + n]
<1>1. Len(s) \in Nat /\ \A i \in 1..Len(s) : s[i] \in S
  OBVIOUS
<1>2. QED
  BY <1>1, SubSeqProperties

-----------------------------------------------------------------------------
LEMMA InitMessageInv == Init => MessageInv
<1> SUFFICES ASSUME Init
             PROVE  MessageInv
  OBVIOUS
<1> USE MessageAssumption DEF Init
<1>1. TypeOK
  BY DEF TypeOK, Reading
<1>2. ReaderInv
  BY DEF ReaderInv, Reading
<1>3. SentInv
  BY DEF SentInv, HasBegun
<1>4. TodoInv /\ WireInv /\ OrderInv /\ DeliveredInv
  BY DEF TodoInv, RestOfOne, WireInv, OrderInv, DeliveredInv
<1>5. QED
  BY <1>1, <1>2, <1>3, <1>4 DEF MessageInv

LEMMA StartWriteKeepsInv ==
  ASSUME MessageInv, NEW t \in Threads, StartWrite(t)
  PROVE  MessageInv'
<1> USE DEF MessageInv
<1>0. PICK m \in unsent[t] :
        \E packed \in {FALSE, MayPack(t, m)} :
          LET f == [msg |-> m, packed |-> packed, announces |-> t \in Announces] IN
          /\ todo' = [todo EXCEPT ![t] = Header(f) \o Body(f)]
          /\ unsent' = [unsent EXCEPT ![t] = @ \ {m}]
  BY DEF StartWrite
<1>1. PICK packed \in {FALSE, MayPack(t, m)} :
        LET f == [msg |-> m, packed |-> packed, announces |-> t \in Announces] IN
        /\ todo' = [todo EXCEPT ![t] = Header(f) \o Body(f)]
        /\ unsent' = [unsent EXCEPT ![t] = @ \ {m}]
  BY <1>0
<1> DEFINE f == [msg |-> m, packed |-> packed, announces |-> t \in Announces]
           s == Header(f) \o Body(f)
<1>2. m \in Messages /\ m \in Outbox[t]
  BY DEF SentInv, TypeOK
<1>3. f \in Frames
  <2>1. packed \in BOOLEAN
    BY <1>1 DEF MayPack
  <2>2. (t \in Announces) \in BOOLEAN
    OBVIOUS
  <2>3. QED
    BY <1>2, <2>1, <2>2 DEF Frames
<1>4. /\ s \in Seq(Word) /\ s # << >> /\ 1 \in DOMAIN s
      /\ s[1] = [what |-> "head", frame |-> f, part |-> 1]
      /\ \A i \in DOMAIN s : s[i].frame = f /\ (First(s[i]) => i = 1)
  BY <1>3, WholeFrame
<1>5. /\ todo' = [todo EXCEPT ![t] = s]
      /\ unsent' = [unsent EXCEPT ![t] = @ \ {m}]
      /\ tpc' = [tpc EXCEPT ![t] = "write"]
      /\ UNCHANGED <<wire, got, supports, sent, delivered, disturbed>>
  BY <1>1 DEF StartWrite
<1> HIDE DEF s
<1>6. TypeOK'
  BY <1>4, <1>5 DEF TypeOK, Reading, StartWrite
<1>7. ReaderInv'
  BY <1>5 DEF ReaderInv, Reading, TypeOK
<1>8. SentInv'
  BY <1>5 DEF SentInv, HasBegun, TypeOK
<1>9. TodoInv'
  <2>1. \A u \in Threads : u # t => todo'[u] = todo[u] /\ unsent'[u] = unsent[u]
    BY <1>5 DEF TypeOK
  <2>2. todo'[t] = s /\ unsent'[t] = unsent[t] \ {m}
    BY <1>5 DEF TypeOK
  <2>3. /\ f.msg = m /\ (f.announces => t \in Announces)
        /\ f.packed => Announced(Peer(t))
    BY <1>1 DEF MayPack, WireInv
  <2>4. \A e \in Ends : ~HasBegun(e, m)
    BY DEF SentInv
  <2>5. Begins(t)'
    BY <1>4, <2>2 DEF Begins
  <2> HIDE DEF f
  <2>6. RestOfOne(t)'
    <3>1. OwnFrame(t, f)'
      BY <1>2, <2>2, <2>3, <2>4, <2>5, <1>5 DEF OwnFrame, HasBegun, Announced
    <3>2. todo'[t][1].frame = f
      BY <1>4, <2>2
    <3>3. QED
      BY <1>4, <2>2, <3>1, <3>2 DEF RestOfOne, First
  <2>7. ASSUME NEW u \in Threads, u # t
        PROVE  RestOfOne(u)'
    <3>1. RestOfOne(u)
      BY DEF TodoInv
    <3>2. QED
      BY <2>7, <2>1, <1>5, <3>1
      DEF RestOfOne, OwnFrame, HasBegun, Announced, Begins, First
  <2>8. QED
    BY <2>6, <2>7 DEF TodoInv
<1>10. WireInv' /\ OrderInv' /\ DeliveredInv'
  BY <1>5 DEF WireInv, OrderInv, DeliveredInv, FromOther, HasBegun, Announced, Before
<1>11. QED
  BY <1>6, <1>7, <1>8, <1>9, <1>10

(* The first word of a frame enters its message in sent.                   *)
LEMMA BeginEffect ==
  ASSUME TypeOK, SentInv, NEW t \in Threads, NEW p \in Ends, NEW m \in Messages,
         sent' = IF Begins(t) THEN [sent EXCEPT ![p] = Append(@, m)] ELSE sent,
         Begins(t) => ~HasBegun(p, m)
  PROVE  /\ sent' \in [Ends -> Seq(Messages)]
         /\ \A e \in Ends : \A i, j \in DOMAIN sent'[e] : sent'[e][i] = sent'[e][j] => i = j
         /\ \A e \in Ends, x \in Messages : HasBegun(e, x) => HasBegun(e, x)'
         /\ \A e \in Ends, x \in Messages :
              HasBegun(e, x)' => HasBegun(e, x) \/ (Begins(t) /\ e = p /\ x = m)
         /\ Begins(t) => HasBegun(p, m)'
         /\ \A e \in Ends : Announced(e) => Announced(e)'
         /\ \A e \in Ends, x, y \in Messages :
              HasBegun(e, x) /\ HasBegun(e, y) /\ Before(e, x, y) => Before(e, x, y)'
         /\ Begins(t) => \A x \in Messages : HasBegun(p, x) => Before(p, x, m)'
<1>1. CASE ~Begins(t)
  BY <1>1 DEF TypeOK, SentInv, HasBegun, Announced, Before
<1>2. CASE Begins(t)
  <2>1. /\ sent' = [sent EXCEPT ![p] = Append(sent[p], m)]
        /\ \A e \in Ends : e # p => sent'[e] = sent[e]
        /\ sent'[p] = Append(sent[p], m)
        /\ sent[p] \in Seq(Messages)
    BY <1>2 DEF TypeOK
  <2>2. /\ sent'[p] \in Seq(Messages) /\ Len(sent'[p]) = Len(sent[p]) + 1
        /\ Len(sent[p]) \in Nat
        /\ \A i \in 1..Len(sent[p]) : sent'[p][i] = sent[p][i]
        /\ sent'[p][Len(sent[p]) + 1] = m
    BY <2>1, AppendProperties
  <2>3. /\ DOMAIN sent[p] = 1..Len(sent[p])
        /\ DOMAIN sent'[p] = 1..Len(sent[p]) + 1
    BY <2>1, <2>2
  <2>4. \A i \in 1..Len(sent[p]) : sent[p][i] # m
    BY <1>2, <2>3 DEF HasBegun
  <2>5. sent' \in [Ends -> Seq(Messages)]
    BY <2>1, <2>2 DEF TypeOK
  <2>6. \A e \in Ends : \A i, j \in DOMAIN sent'[e] : sent'[e][i] = sent'[e][j] => i = j
    BY <2>1, <2>2, <2>3, <2>4 DEF SentInv
  <2>7. \A e \in Ends, x \in Messages : HasBegun(e, x) => HasBegun(e, x)'
    BY <2>1, <2>2, <2>3 DEF HasBegun
  <2>8. \A e \in Ends, x \in Messages :
          HasBegun(e, x)' => HasBegun(e, x) \/ (Begins(t) /\ e = p /\ x = m)
    BY <1>2, <2>1, <2>2, <2>3 DEF HasBegun
  <2>9. HasBegun(p, m)'
    BY <2>2, <2>3 DEF HasBegun
  <2>10. \A e \in Ends : Announced(e) => Announced(e)'
    BY <2>1, <2>2, <2>3 DEF Announced
  <2>11. \A e \in Ends, x, y \in Messages :
           HasBegun(e, x) /\ HasBegun(e, y) /\ Before(e, x, y) => Before(e, x, y)'
    <3> SUFFICES ASSUME NEW e \in Ends, NEW x \in Messages, NEW y \in Messages,
                        HasBegun(e, x), HasBegun(e, y), Before(e, x, y)
                 PROVE  Before(e, x, y)'
      OBVIOUS
    <3>1. CASE e # p
      BY <3>1, <2>1 DEF Before
    <3>2. CASE e = p
      <4>1. x # m /\ y # m
        BY <3>2, <1>2
      <4>2. QED
        BY <3>2, <4>1, <2>2, <2>3 DEF Before
    <3>3. QED
      BY <3>1, <3>2
  <2>12. \A x \in Messages : HasBegun(p, x) => Before(p, x, m)'
    BY <1>2, <2>2, <2>3, <2>4 DEF Before
  <2>13. QED
    BY <1>2, <2>5, <2>6, <2>7, <2>8, <2>9, <2>10, <2>11, <2>12
<1>3. QED
  BY <1>1, <1>2

LEMMA SendKeepsInv ==
  ASSUME MessageInv, NEW t \in Threads, Send(t)
  PROVE  MessageInv'
<1> USE DEF MessageInv
<1> DEFINE p == Peer(t)
<1>0. PICK f : f = todo[t][1].frame
  OBVIOUS
<1>1. PICK n \in 1..Len(todo[t]) :
        /\ wire' = [wire EXCEPT ![p] = @ \o SubSeq(todo[t], 1, n)]
        /\ todo' = [todo EXCEPT ![t] = SubSeq(@, n + 1, Len(@))]
        /\ tpc' = [tpc EXCEPT ![t] = IF n = Len(todo[t]) THEN "idle" ELSE "write"]
  BY DEF Send
<1>2. /\ p \in Ends
      /\ todo[t] \in Seq(Word) /\ todo[t] # << >> /\ Len(todo[t]) \in Nat
      /\ DOMAIN todo[t] = 1..Len(todo[t]) /\ 1 \in DOMAIN todo[t]
      /\ f.msg \in Messages
  <2>1. todo[t] \in Seq(Word) /\ todo[t] # << >>
    BY DEF Send, TypeOK
  <2>2. 1 \in DOMAIN todo[t] /\ todo[t][1] \in Word
    BY <2>1
  <2>3. f.msg \in Messages
    BY <1>0, <2>2 DEF Word, Frames
  <2>4. QED
    BY <2>1, <2>2, <2>3, PeerIsOther
<1>3. /\ RestOfOne(t) /\ OwnFrame(t, f)
      /\ \A i \in 1..Len(todo[t]) : todo[t][i].frame = f /\ (First(todo[t][i]) => i = 1)
      /\ First(todo[t][1]) <=> Begins(t)
  <2>1. RestOfOne(t)
    BY DEF TodoInv
  <2>2. First(todo[t][1]) <=> Begins(t)
    BY DEF First, Begins
  <2>3. OwnFrame(t, f)
    BY <2>1, <1>0, <1>2 DEF RestOfOne
  <2>4. \A i \in DOMAIN todo[t] : todo[t][i].frame = f /\ (First(todo[t][i]) => i = 1)
    BY <2>1, <1>0, <1>2 DEF RestOfOne, First
  <2>5. QED
    BY <2>1, <2>2, <2>3, <2>4, <1>2
<1>4. /\ sent' = IF Begins(t) THEN [sent EXCEPT ![p] = Append(@, f.msg)] ELSE sent
      /\ UNCHANGED <<got, supports, unsent, delivered>>
      /\ disturbed' = [disturbed EXCEPT ![p] = @ \/ Mixes(t)]
      /\ tpc[t] = "write"
  BY <1>0 DEF Send
<1>5. Begins(t) => \A e \in Ends : ~HasBegun(e, f.msg)
  BY <1>3 DEF OwnFrame
(* The two parts of what was left.                                         *)
<1> DEFINE a == SubSeq(todo[t], 1, n)
           b == SubSeq(todo[t], n + 1, Len(todo[t]))
<1>6. /\ a \in Seq(Word) /\ Len(a) = n /\ \A k \in 1..n : a[k] = todo[t][k]
      /\ b \in Seq(Word) /\ Len(b) = Len(todo[t]) - n
      /\ \A k \in 1..Len(todo[t]) - n : b[k] = todo[t][k + n]
  BY <1>2, Cut
<1>7. /\ wire' = [wire EXCEPT ![p] = wire[p] \o a]
      /\ todo' = [todo EXCEPT ![t] = b]
  BY <1>1
<1> HIDE DEF a, b
<1>8. /\ wire[p] \o a \in Seq(Word) /\ Len(wire[p] \o a) = Len(wire[p]) + n
      /\ Len(wire[p]) \in Nat
      /\ \A i \in 1..Len(wire[p]) : (wire[p] \o a)[i] = wire[p][i]
      /\ \A k \in 1..n : (wire[p] \o a)[Len(wire[p]) + k] = todo[t][k]
  <2>1. wire[p] \in Seq(Word)
    BY <1>2 DEF TypeOK
  <2>2. /\ wire[p] \o a \in Seq(Word) /\ Len(wire[p] \o a) = Len(wire[p]) + n
        /\ \A i \in 1..Len(wire[p]) + n :
             (wire[p] \o a)[i] = IF i <= Len(wire[p]) THEN wire[p][i] ELSE a[i - Len(wire[p])]
    BY <2>1, <1>6, ConcatProperties
  <2>3. Len(wire[p]) \in Nat /\ n \in Nat
    BY <2>1, <1>2
  <2>4. ASSUME NEW k \in 1..n
        PROVE  (wire[p] \o a)[Len(wire[p]) + k] = todo[t][k]
    <3>1. /\ Len(wire[p]) + k \in 1..Len(wire[p]) + n
          /\ ~(Len(wire[p]) + k <= Len(wire[p]))
          /\ Len(wire[p]) + k - Len(wire[p]) = k
      BY <2>3
    <3>2. QED
      BY <2>2, <3>1, <1>6
  <2>5. \A i \in 1..Len(wire[p]) : (wire[p] \o a)[i] = wire[p][i]
    BY <2>2, <2>3
  <2>6. QED
    BY <2>2, <2>3, <2>4, <2>5
<1>9. /\ \A e \in Ends : e # p => wire'[e] = wire[e]
      /\ wire'[p] = wire[p] \o a
      /\ \A u \in Threads : u # t => todo'[u] = todo[u] /\ tpc'[u] = tpc[u]
      /\ todo'[t] = b
  BY <1>1, <1>2, <1>7 DEF TypeOK
<1>10. ASSUME NEW i \in DOMAIN wire'[p]
       PROVE  \/ i \in DOMAIN wire[p] /\ wire'[p][i] = wire[p][i]
              \/ \E k \in 1..n : i = Len(wire[p]) + k /\ wire'[p][i] = todo[t][k]
  <2>1. i \in 1..Len(wire[p]) + n /\ DOMAIN wire[p] = 1..Len(wire[p])
    BY <1>8, <1>9, <1>2 DEF TypeOK
  <2>2. CASE i <= Len(wire[p])
    BY <2>1, <2>2, <1>8, <1>9
  <2>3. CASE i > Len(wire[p])
    <3>1. PICK k \in 1..n : i = Len(wire[p]) + k
      <4>1. i - Len(wire[p]) \in 1..n /\ i = Len(wire[p]) + (i - Len(wire[p]))
        BY <2>1, <2>3, <1>8
      <4>2. QED
        BY <4>1
    <3>2. QED
      BY <3>1, <1>8, <1>9
  <2>4. QED
    BY <2>1, <2>2, <2>3, <1>8
<1>11. /\ sent' \in [Ends -> Seq(Messages)]
       /\ \A e \in Ends : \A i, j \in DOMAIN sent'[e] : sent'[e][i] = sent'[e][j] => i = j
       /\ \A e \in Ends, x \in Messages : HasBegun(e, x) => HasBegun(e, x)'
       /\ \A e \in Ends, x \in Messages :
            HasBegun(e, x)' => HasBegun(e, x) \/ (Begins(t) /\ e = p /\ x = f.msg)
       /\ Begins(t) => HasBegun(p, f.msg)'
       /\ \A e \in Ends : Announced(e) => Announced(e)'
       /\ \A e \in Ends, x, y \in Messages :
            HasBegun(e, x) /\ HasBegun(e, y) /\ Before(e, x, y) => Before(e, x, y)'
       /\ Begins(t) => \A x \in Messages : HasBegun(p, x) => Before(p, x, f.msg)'
  <2>1. Begins(t) => ~HasBegun(p, f.msg)
    BY <1>2, <1>5
  <2>2. QED
    BY <1>2, <1>4, <2>1, BeginEffect
<1>12. TypeOK'
  <2>1. wire' \in [Ends -> Seq(Word)] /\ todo' \in [Threads -> Seq(Word)]
    BY <1>6, <1>7, <1>8, <1>2 DEF TypeOK
  <2>2. tpc' \in [Threads -> Reading \cup {"idle", "write"}]
    BY <1>1 DEF TypeOK
  <2>3. \A u \in Threads : todo'[u] # << >> <=> tpc'[u] = "write"
    <3>1. b # << >> <=> n # Len(todo[t])
      BY <1>2, <1>6
    <3>2. QED
      BY <3>1, <1>1, <1>9 DEF TypeOK
  <2>4. \A u \in Threads : got'[u] # << >> => tpc'[u] \in Reading
    BY <1>4, <1>9 DEF TypeOK, Reading
  <2>5. disturbed' \in [Ends -> BOOLEAN]
    BY <1>4, <1>2 DEF TypeOK, Mixes
  <2>6. QED
    BY <1>4, <1>11, <2>1, <2>2, <2>3, <2>4, <2>5 DEF TypeOK
<1>13. ReaderInv'
  BY <1>1, <1>4, <1>9 DEF ReaderInv, Reading, TypeOK
<1>14. SentInv'
  <2>1. ASSUME NEW u \in Threads, NEW e \in Ends, NEW m \in unsent[u]
        PROVE  ~HasBegun(e, m)'
    <3>1. m \in Messages /\ m \in Outbox[u] /\ ~HasBegun(e, m)
      BY DEF SentInv, TypeOK
    <3>2. f.msg \in Outbox[t] \ unsent[t]
      BY <1>3 DEF OwnFrame
    <3>3. m # f.msg
      BY <3>1, <3>2, MessageAssumption
    <3>4. QED
      BY <3>1, <3>3, <1>11
  <2>2. QED
    BY <2>1, <1>4, <1>11 DEF SentInv
<1>15. HasBegun(p, f.msg)'
  BY <1>2, <1>3, <1>11 DEF OwnFrame
<1>16. TodoInv'
  <2>1. RestOfOne(t)'
    <3>1. ASSUME b # << >>
          PROVE  /\ 1 \in DOMAIN b
                 /\ \A k \in DOMAIN b : b[k].frame = f /\ ~First(b[k])
      <4>1. DOMAIN b = 1..Len(todo[t]) - n /\ Len(b) \in Nat \ {0}
        BY <3>1, <1>6
      <4>2. ASSUME NEW k \in DOMAIN b
            PROVE  b[k].frame = f /\ ~First(b[k])
        <5>1. k + n \in 1..Len(todo[t]) /\ k + n # 1 /\ b[k] = todo[t][k + n]
          BY <4>1, <1>2, <1>6
        <5>2. QED
          BY <5>1, <1>3
      <4>3. QED
        BY <4>1, <4>2, <1>6
    <3>2. ASSUME b # << >>
          PROVE  ~Begins(t)'
      BY <3>1, <3>2, <1>9 DEF Begins, First
    <3>3. ASSUME b # << >>
          PROVE  OwnFrame(t, f)'
      BY <3>2, <3>3, <1>2, <1>3, <1>4, <1>11, <1>15 DEF OwnFrame
    <3>4. QED
      BY <3>1, <3>3, <1>9 DEF RestOfOne, First
  <2>2. ASSUME NEW u \in Threads, u # t
        PROVE  RestOfOne(u)'
    <3>1. RestOfOne(u) /\ todo'[u] = todo[u]
      BY <2>2, <1>9 DEF TodoInv
    <3>2. CASE todo[u] = << >>
      BY <3>1, <3>2 DEF RestOfOne
    <3>3. CASE todo[u] # << >>
      <4>1. PICK g : g = todo[u][1].frame
        OBVIOUS
      <4>2. OwnFrame(u, g) /\ (Begins(u) <=> Begins(u)')
        BY <3>1, <3>3, <4>1 DEF RestOfOne, Begins
      <4>3. g.msg \in Messages /\ g.msg # f.msg
        BY <4>2, <1>3, <2>2, MessageAssumption DEF OwnFrame
      <4>4. OwnFrame(u, g)'
        BY <4>2, <4>3, <1>4, <1>11, PeerIsOther DEF OwnFrame
      <4>5. QED
        BY <3>1, <4>1, <4>4 DEF RestOfOne, First
    <3>4. QED
      BY <3>2, <3>3
  <2>3. QED
    BY <2>1, <2>2 DEF TodoInv
<1>17. ASSUME NEW e \in Ends, NEW w \in Word, FromOther(e, w)
       PROVE  FromOther(e, w)'
  BY <1>17, <1>11 DEF FromOther, Word, Frames
<1>18. WireInv'
  <2>1. ASSUME NEW e \in Ends, NEW i \in DOMAIN wire'[e]
        PROVE  FromOther(e, wire[e][i])' /\ (wire[e][i].frame.packed => Announced(e))'
    <3>1. CASE i \in DOMAIN wire[e] /\ wire'[e][i] = wire[e][i]
      <4>1. PICK w \in Word : w = wire[e][i]
        BY <3>1 DEF TypeOK
      <4>2. FromOther(e, w) /\ (w.frame.packed => Announced(e))
        BY <3>1, <4>1 DEF WireInv
      <4>3. FromOther(e, w)' /\ (w.frame.packed => Announced(e)')
        BY <4>2, <1>11, <1>17
      <4>4. QED
        BY <3>1, <4>1, <4>3 DEF FromOther
    <3>2. CASE e = p /\ wire'[p][i].frame = f
      <4>1. f.announces => t \in Announces /\ Peer(t) = p /\ f.msg \in Outbox[t]
        BY <1>3 DEF OwnFrame
      <4>2. f.packed => Announced(p)'
        BY <1>2, <1>3, <1>11 DEF OwnFrame
      <4>3. QED
        BY <3>2, <4>1, <4>2, <1>15 DEF FromOther
    <3>3. QED
      <4>1. CASE e = p
        BY <4>1, <3>1, <3>2, <1>2, <1>3, <1>10
      <4>2. CASE e # p
        BY <4>2, <3>1, <1>9
      <4>3. QED
        BY <4>1, <4>2
  <2>2. ASSUME NEW u \in Threads, NEW i \in DOMAIN got'[u]
        PROVE  FromOther(End[u], got[u][i])'
    <3>1. PICK w \in Word : w = got[u][i]
      BY <2>2, <1>4 DEF TypeOK
    <3>2. FromOther(End[u], w)'
      BY <2>2, <3>1, <1>4, <1>17, PeerIsOther DEF WireInv
    <3>3. QED
      BY <3>1, <3>2, <1>4 DEF FromOther
  <2>3. ASSUME NEW u \in Threads, supports'[u]
        PROVE  Announced(Peer(u))'
    BY <2>3, <1>4, <1>11, PeerIsOther DEF WireInv
  <2>4. QED
    BY <2>1, <2>2, <2>3 DEF WireInv
(* Only the first word sent can be the first of a frame, and no message    *)
(* that has begun is the one that begins now.                              *)
<1>19. ASSUME NEW e \in Ends, NEW j \in DOMAIN wire'[e], First(wire'[e][j])
       PROVE  \/ j \in DOMAIN wire[e] /\ wire'[e][j] = wire[e][j]
              \/ /\ e = p /\ Begins(t) /\ j = Len(wire[p]) + 1
                 /\ wire'[e][j].frame = f
  <2>1. CASE e # p
    BY <2>1, <1>9
  <2>2. CASE e = p
    BY <2>2, <1>2, <1>3, <1>10, <1>19
  <2>3. QED
    BY <2>1, <2>2
<1>a. ASSUME NEW e \in Ends, NEW j \in DOMAIN wire[e]
      PROVE  wire'[e][j] = wire[e][j]
  <2>1. CASE e = p
    <3>1. DOMAIN wire[p] = 1..Len(wire[p])
      BY <1>2 DEF TypeOK
    <3>2. QED
      BY <1>a, <2>1, <3>1, <1>8, <1>9
  <2>2. CASE e # p
    BY <2>2, <1>9
  <2>3. QED
    BY <2>1, <2>2
<1>20. OrderInv'
  <2>1. ASSUME NEW e \in Ends, NEW x \in Messages, HasBegun(e, x),
               NEW j \in DOMAIN wire'[e], First(wire'[e][j]),
               j \in DOMAIN wire[e] => Before(e, x, wire[e][j].frame.msg)
        PROVE  Before(e, x, wire[e][j].frame.msg)'
    <3>1. CASE j \in DOMAIN wire[e] /\ wire'[e][j] = wire[e][j]
      <4>1. PICK y \in Messages : y = wire[e][j].frame.msg
        BY <3>1, WordMsg
      <4>2. HasBegun(e, y)
        BY <3>1, <4>1 DEF WireInv, FromOther
      <4>3. Before(e, x, y)'
        BY <2>1, <3>1, <4>1, <4>2, <1>11
      <4>4. QED
        BY <3>1, <4>1, <4>3 DEF Before
    <3>2. CASE e = p /\ Begins(t) /\ wire'[e][j].frame = f
      BY <2>1, <3>2, <1>11 DEF Before
    <3>3. QED
      BY <2>1, <3>1, <3>2, <1>19
  <2>2. ASSUME NEW e \in Ends, NEW i \in DOMAIN wire'[e], NEW j \in DOMAIN wire'[e],
               i < j, First(wire'[e][i]), First(wire'[e][j])
        PROVE  Before(e, wire[e][i].frame.msg, wire[e][j].frame.msg)'
    <3>1. i \in DOMAIN wire[e] /\ wire'[e][i] = wire[e][i]
      <4>1. i \in 1..Len(wire'[e]) /\ j \in 1..Len(wire'[e])
        BY <1>12 DEF TypeOK
      <4>2. Len(wire'[p]) = Len(wire[p]) + n /\ DOMAIN wire[p] = 1..Len(wire[p])
        BY <1>2, <1>8, <1>9 DEF TypeOK
      <4>3. CASE i \in DOMAIN wire[e]
        BY <4>3, <1>a
      <4>4. CASE e = p /\ i = Len(wire[p]) + 1
        <5>1. j \in 1..Len(wire[p]) \/ j = Len(wire[p]) + 1
          BY <2>2, <4>2, <4>4, <1>19
        <5>2. QED
          BY <2>2, <4>4, <5>1, <1>8
      <4>5. QED
        BY <2>2, <4>3, <4>4, <1>19
    <3>2. PICK x \in Messages : x = wire[e][i].frame.msg
      BY <3>1, WordMsg
    <3>3. HasBegun(e, x) /\ First(wire[e][i])
      BY <2>2, <3>1, <3>2 DEF WireInv, FromOther
    <3>4. j \in DOMAIN wire[e] => Before(e, x, wire[e][j].frame.msg)
      <4>1. ASSUME j \in DOMAIN wire[e]
            PROVE  wire'[e][j] = wire[e][j]
        BY <4>1, <1>a
      <4>2. QED
        BY <4>1, <2>2, <3>1, <3>2, <3>3 DEF OrderInv
    <3>5. Before(e, x, wire[e][j].frame.msg)'
      BY <2>1, <2>2, <3>3, <3>4
    <3>6. QED
      BY <3>1, <3>2, <3>5 DEF Before
  <2>3. ASSUME NEW e \in Ends, NEW i \in DOMAIN delivered'[e], NEW j \in DOMAIN wire'[e],
               First(wire'[e][j])
        PROVE  Before(e, delivered[e][i].msg, wire[e][j].frame.msg)'
    <3>1. PICK x \in Messages : x = delivered[e][i].msg
      BY <1>4, WordMsg
    <3>2. HasBegun(e, x)
      BY <1>4, <3>1 DEF DeliveredInv
    <3>3. j \in DOMAIN wire[e] => Before(e, x, wire[e][j].frame.msg)
      <4>1. ASSUME j \in DOMAIN wire[e]
            PROVE  wire'[e][j] = wire[e][j]
        BY <4>1, <1>a
      <4>2. QED
        BY <4>1, <2>3, <3>1, <1>4 DEF OrderInv
    <3>4. Before(e, x, wire[e][j].frame.msg)'
      BY <2>1, <2>3, <3>2, <3>3
    <3>5. QED
      BY <3>1, <3>4, <1>4 DEF Before
  <2>4. ASSUME NEW u \in Readers, got'[u] # << >>, First(got'[u][1])
        PROVE  /\ \A i \in DOMAIN delivered'[End[u]] :
                    Before(End[u], delivered[End[u]][i].msg, got[u][1].frame.msg)'
               /\ \A j \in DOMAIN wire'[End[u]] : First(wire'[End[u]][j]) =>
                    Before(End[u], got[u][1].frame.msg, wire[End[u]][j].frame.msg)'
    <3>1. PICK e \in Ends : e = End[u]
      BY MessageAssumption
    <3>2. 1 \in DOMAIN got[u]
      BY <2>4, <1>4, MessageAssumption DEF TypeOK
    <3>3. PICK y \in Messages : y = got[u][1].frame.msg
      BY <3>2, WordMsg, MessageAssumption
    <3>4. HasBegun(e, y)
      BY <3>1, <3>2, <3>3, MessageAssumption DEF WireInv, FromOther
    <3>5. ASSUME NEW i \in DOMAIN delivered'[e]
          PROVE  Before(e, delivered[e][i].msg, y)'
      <4>1. PICK x \in Messages : x = delivered[e][i].msg
        BY <3>5, <1>4, WordMsg
      <4>2. HasBegun(e, x) /\ Before(e, x, y)
        BY <2>4, <3>1, <3>3, <3>5, <4>1, <1>4 DEF DeliveredInv, OrderInv
      <4>3. QED
        BY <4>1, <4>2, <3>4, <1>4, <1>11 DEF Before
    <3>6. ASSUME NEW j \in DOMAIN wire'[e], First(wire'[e][j])
          PROVE  Before(e, y, wire[e][j].frame.msg)'
      <4>1. ASSUME j \in DOMAIN wire[e]
            PROVE  wire'[e][j] = wire[e][j]
        BY <4>1, <1>a
      <4>2. j \in DOMAIN wire[e] => Before(e, y, wire[e][j].frame.msg)
        BY <4>1, <2>4, <3>1, <3>3, <3>6, <1>4 DEF OrderInv
      <4>3. QED
        BY <2>1, <3>4, <3>6, <4>2
    <3>7. \A i \in DOMAIN delivered'[e] : Before(e, delivered[e][i].msg, got[u][1].frame.msg)'
      BY <3>3, <3>5, <1>4 DEF Before
    <3>8. \A j \in DOMAIN wire'[e] : First(wire'[e][j]) =>
            Before(e, got[u][1].frame.msg, wire[e][j].frame.msg)'
      BY <3>3, <3>6, <1>4 DEF Before
    <3>9. QED
      BY <3>1, <3>7, <3>8
  <2>5. QED
    BY <2>2, <2>3, <2>4, SMTT(30) DEF OrderInv, First
<1>21. DeliveredInv'
  <2>1. ASSUME NEW e \in Ends, NEW i \in DOMAIN delivered[e]
        PROVE  delivered[e][i].msg \in Messages /\ HasBegun(e, delivered[e][i].msg)
    BY WordMsg DEF DeliveredInv
  <2>2. ASSUME NEW e \in Ends, NEW i \in DOMAIN delivered[e]
        PROVE  HasBegun(e, delivered[e][i].msg)'
    <3>1. PICK x \in Messages : x = delivered[e][i].msg
      BY <2>1
    <3>2. HasBegun(e, x)'
      BY <2>1, <3>1, <1>11
    <3>3. QED
      BY <3>1, <3>2, <1>4 DEF HasBegun
  <2>3. ASSUME NEW e \in Ends, NEW i \in DOMAIN delivered[e], NEW j \in DOMAIN delivered[e],
               i < j
        PROVE  Before(e, delivered[e][i].msg, delivered[e][j].msg)'
    <3>1. PICK x, y \in Messages : x = delivered[e][i].msg /\ y = delivered[e][j].msg
      BY <2>1
    <3>2. HasBegun(e, x) /\ HasBegun(e, y) /\ Before(e, x, y)
      BY <2>1, <2>3, <3>1 DEF DeliveredInv
    <3>3. Before(e, x, y)'
      BY <3>2, <1>11
    <3>4. QED
      BY <3>1, <3>3, <1>4 DEF Before
  <2>4. \A e \in Ends : \A i \in DOMAIN delivered[e] :
          \E g \in Frames : g.msg = delivered[e][i].msg /\ delivered[e][i].payload = Body(g)
    BY DEF DeliveredInv
  <2>5. QED
    BY <2>2, <2>3, <2>4, <1>4 DEF DeliveredInv
<1>22. QED
  BY <1>12, <1>13, <1>14, <1>16, <1>18, <1>20, <1>21

-----------------------------------------------------------------------------
(* Where nothing is read, returned or sent, only what the thread is doing  *)
(* and what it knows of the other side can change.                         *)
LEMMA GoesOnKeepsInv ==
  ASSUME MessageInv, NEW t \in Threads, NEW pc \in Reading,
         t \in Readers, tpc[t] # "write", Goes(t, pc), pc # "head" => got[t] # << >>,
         UNCHANGED <<wire, got, todo, unsent, sent, delivered, disturbed>>,
         supports' \in [Threads -> BOOLEAN],
         \A u \in Threads : supports'[u] => Announced(Peer(u))
  PROVE  MessageInv'
<1> USE DEF MessageInv
<1>1. TypeOK'
  BY DEF TypeOK, Goes, Reading
<1>2. ReaderInv'
  BY DEF ReaderInv, TypeOK, Goes
<1>3. SentInv' /\ TodoInv' /\ OrderInv' /\ DeliveredInv'
  BY DEF SentInv, TodoInv, RestOfOne, OwnFrame, Begins, First, OrderInv, DeliveredInv,
         HasBegun, Announced, Before
<1>4. WireInv'
  <2>1. \A e \in Ends : Announced(e)' <=> Announced(e)
    BY DEF Announced
  <2>2. \A u \in Threads : supports'[u] => Announced(Peer(u))'
    BY <2>1, PeerIsOther
  <2>3. QED
    BY <2>1, <2>2 DEF WireInv, FromOther, HasBegun
<1>5. QED
  BY <1>1, <1>2, <1>3, <1>4

(* The call ends without a message.                                        *)
LEMMA DropKeepsInv ==
  ASSUME MessageInv, NEW t \in Threads, tpc[t] \in Reading, Leaves(t),
         UNCHANGED <<supports, delivered>>, disturbed' \in [Ends -> BOOLEAN]
  PROVE  MessageInv'
<1> USE DEF MessageInv
<1>1. /\ tpc' = [tpc EXCEPT ![t] = "idle"] /\ got' = [got EXCEPT ![t] = << >>]
      /\ UNCHANGED <<wire, todo, unsent, sent>>
  BY DEF Leaves, Goes
<1>2. \A u \in Threads : got'[u] = got[u] \/ got'[u] = << >>
  BY <1>1 DEF TypeOK
<1>3. TypeOK'
  <2>1. got' \in [Threads -> Seq(Word)]
    BY <1>1 DEF TypeOK
  <2>2. \A u \in Threads : todo'[u] # << >> <=> tpc'[u] = "write"
    BY <1>1 DEF TypeOK, Reading
  <2>3. \A u \in Threads : got'[u] # << >> => tpc'[u] \in Reading
    BY <1>1 DEF TypeOK
  <2>4. QED
    BY <1>1, <2>1, <2>2, <2>3 DEF TypeOK
<1>4. ReaderInv'
  BY <1>1 DEF ReaderInv, TypeOK, Reading
<1>5. SentInv' /\ TodoInv' /\ DeliveredInv'
  BY <1>1 DEF SentInv, TodoInv, RestOfOne, OwnFrame, Begins, First, DeliveredInv,
              HasBegun, Announced, Before
<1>6. WireInv'
  <2>1. \A u \in Threads : \A i \in DOMAIN got'[u] : FromOther(End[u], got'[u][i])
    BY <1>2 DEF WireInv
  <2>2. QED
    BY <1>1, <2>1 DEF WireInv, FromOther, HasBegun, Announced
<1>7. OrderInv'
  BY <1>1, <1>2 DEF OrderInv, Before, First
<1>8. QED
  BY <1>3, <1>4, <1>5, <1>6, <1>7

(* The call ends with a message, one whose frame has been read.            *)
LEMMA AcceptKeepsInv ==
  ASSUME MessageInv, NEW t \in Threads, NEW f \in Frames, tpc[t] \in Reading, Accepts(t, f),
         got[t] # << >>, First(got[t][1]), got[t][1].frame = f,
         SubSeq(got[t], HeadWords + 2, Len(got[t])) = Body(f),
         supports' \in [Threads -> BOOLEAN],
         \A u \in Threads : supports'[u] => Announced(Peer(u))
  PROVE  MessageInv'
<1> USE DEF MessageInv
<1> DEFINE r == [msg |-> f.msg, payload |-> Body(f)]
           p == End[t]
<1>1. /\ tpc' = [tpc EXCEPT ![t] = "idle"] /\ got' = [got EXCEPT ![t] = << >>]
      /\ UNCHANGED <<wire, todo, unsent, sent, disturbed>>
      /\ delivered' = [delivered EXCEPT ![p] = Append(@, r)]
  BY DEF Accepts, Leaves, Goes
<1>2. p \in Ends /\ t \in Readers /\ 1 \in DOMAIN got[t]
  BY PeerIsOther DEF ReaderInv, TypeOK
<1>3. r \in [msg : Messages, payload : Seq(Word)] /\ r.msg = f.msg /\ r.payload = Body(f)
  BY FrameWords DEF Frames
<1> HIDE DEF r
<1>4. /\ Len(delivered[p]) \in Nat /\ DOMAIN delivered[p] = 1..Len(delivered[p])
      /\ delivered[p] \in Seq([msg : Messages, payload : Seq(Word)])
      /\ Append(delivered[p], r) \in Seq([msg : Messages, payload : Seq(Word)])
      /\ DOMAIN Append(delivered[p], r) = 1..Len(delivered[p]) + 1
      /\ \A i \in 1..Len(delivered[p]) : Append(delivered[p], r)[i] = delivered[p][i]
      /\ Append(delivered[p], r)[Len(delivered[p]) + 1] = r
  <2>1. delivered[p] \in Seq([msg : Messages, payload : Seq(Word)])
    BY <1>2 DEF TypeOK
  <2>2. QED
    BY <1>3, <2>1, AppendProperties
<1>5. /\ delivered'[p] = Append(delivered[p], r)
      /\ \A e \in Ends : e # p => delivered'[e] = delivered[e]
      /\ got'[t] = << >> /\ \A u \in Threads : u # t => got'[u] = got[u] /\ tpc'[u] = tpc[u]
  BY <1>1, <1>2 DEF TypeOK
<1>6. ASSUME NEW e \in Ends, NEW i \in DOMAIN delivered'[e]
      PROVE  \/ i \in DOMAIN delivered[e] /\ delivered'[e][i] = delivered[e][i]
             \/ e = p /\ i = Len(delivered[p]) + 1 /\ delivered'[e][i] = r
  <2>1. CASE e # p
    BY <2>1, <1>5
  <2>2. CASE e = p
    <3>1. i \in 1..Len(delivered[p]) + 1
      BY <2>2, <1>4, <1>5
    <3>2. i \in 1..Len(delivered[p]) \/ i = Len(delivered[p]) + 1
      BY <3>1, <1>4
    <3>3. QED
      BY <2>2, <3>2, <1>4, <1>5
  <2>3. QED
    BY <2>1, <2>2
<1>7. TypeOK'
  <2>1. got' \in [Threads -> Seq(Word)] /\ tpc' \in [Threads -> Reading \cup {"idle", "write"}]
    BY <1>1 DEF TypeOK
  <2>2. \A u \in Threads : todo'[u] # << >> <=> tpc'[u] = "write"
    BY <1>1 DEF TypeOK, Reading
  <2>3. \A u \in Threads : got'[u] # << >> => tpc'[u] \in Reading
    BY <1>5 DEF TypeOK
  <2>4. delivered' \in [Ends -> Seq([msg : Messages, payload : Seq(Word)])]
    BY <1>1, <1>4 DEF TypeOK
  <2>5. QED
    BY <1>1, <2>1, <2>2, <2>3, <2>4 DEF TypeOK
<1>8. ReaderInv'
  BY <1>1 DEF ReaderInv, TypeOK, Reading
<1>9. SentInv' /\ TodoInv'
  BY <1>1 DEF SentInv, TodoInv, RestOfOne, OwnFrame, Begins, First, HasBegun, Announced
<1>10. WireInv'
  <2>1. \A e \in Ends : Announced(e)' <=> Announced(e)
    BY <1>1 DEF Announced
  <2>2. \A u \in Threads : supports'[u] => Announced(Peer(u))'
    BY <2>1, PeerIsOther
  <2>3. \A u \in Threads : \A i \in DOMAIN got'[u] : FromOther(End[u], got'[u][i])
    BY <1>5 DEF WireInv
  <2>4. QED
    BY <1>1, <2>1, <2>2, <2>3 DEF WireInv, FromOther, HasBegun
<1>11. /\ HasBegun(p, f.msg)
       /\ \A i \in DOMAIN delivered[p] : Before(p, delivered[p][i].msg, f.msg)
       /\ \A j \in DOMAIN wire[p] :
            First(wire[p][j]) => Before(p, f.msg, wire[p][j].frame.msg)
  BY <1>2 DEF WireInv, FromOther, OrderInv
<1>12. OrderInv'
  <2>1. ASSUME NEW e \in Ends, NEW i \in DOMAIN delivered'[e], NEW j \in DOMAIN wire[e],
               First(wire[e][j])
        PROVE  Before(e, delivered'[e][i].msg, wire[e][j].frame.msg)
    BY <2>1, <1>3, <1>6, <1>11 DEF OrderInv
  <2>2. ASSUME NEW u \in Readers, got'[u] # << >>, First(got'[u][1])
        PROVE  /\ \A i \in DOMAIN delivered'[End[u]] :
                    Before(End[u], delivered'[End[u]][i].msg, got'[u][1].frame.msg)
               /\ \A j \in DOMAIN wire[End[u]] : First(wire[End[u]][j]) =>
                    Before(End[u], got'[u][1].frame.msg, wire[End[u]][j].frame.msg)
    <3>1. u \in Threads /\ u # t /\ got'[u] = got[u]
      BY <2>2, <1>5, MessageAssumption
    <3>2. End[u] # p /\ End[u] \in Ends
      BY <3>1, <1>2, MessageAssumption
    <3>3. QED
      BY <2>2, <3>1, <3>2, <1>5 DEF OrderInv
  <2>3. ASSUME NEW e \in Ends, NEW i \in DOMAIN delivered'[e], NEW j \in DOMAIN wire'[e],
               First(wire'[e][j])
        PROVE  Before(e, delivered[e][i].msg, wire[e][j].frame.msg)'
    BY <2>1, <2>3, <1>1 DEF Before
  <2>4. ASSUME NEW u \in Readers, got'[u] # << >>, First(got'[u][1])
        PROVE  /\ \A i \in DOMAIN delivered'[End[u]] :
                    Before(End[u], delivered[End[u]][i].msg, got[u][1].frame.msg)'
               /\ \A j \in DOMAIN wire'[End[u]] : First(wire'[End[u]][j]) =>
                    Before(End[u], got[u][1].frame.msg, wire[End[u]][j].frame.msg)'
    BY <2>2, <2>4, <1>1, ZenonT(60) DEF Before
  <2>5. \A e \in Ends : \A i, j \in DOMAIN wire'[e] :
          i < j /\ First(wire'[e][i]) /\ First(wire'[e][j])
            => Before(e, wire[e][i].frame.msg, wire[e][j].frame.msg)'
    BY <1>1 DEF OrderInv, Before
  <2>6. QED
    BY <2>3, <2>4, <2>5, ZenonT(60) DEF OrderInv, First
<1>13. DeliveredInv'
  <2>1. ASSUME NEW e \in Ends, NEW i \in DOMAIN delivered'[e]
        PROVE  /\ HasBegun(e, delivered'[e][i].msg)
               /\ \E g \in Frames : g.msg = delivered'[e][i].msg
                                 /\ delivered'[e][i].payload = Body(g)
    BY <2>1, <1>3, <1>6, <1>11 DEF DeliveredInv
  <2>2. ASSUME NEW e \in Ends, NEW i \in DOMAIN delivered'[e], NEW j \in DOMAIN delivered'[e],
               i < j
        PROVE  Before(e, delivered'[e][i].msg, delivered'[e][j].msg)
    <3>1. CASE e # p
      BY <2>2, <3>1, <1>5 DEF DeliveredInv
    <3>2. CASE e = p
      <4>1. i \in DOMAIN delivered[p] /\ delivered'[p][i] = delivered[p][i]
        BY <2>2, <3>2, <1>4, <1>5
      <4>2. CASE j \in DOMAIN delivered[p] /\ delivered'[p][j] = delivered[p][j]
        BY <2>2, <3>2, <4>1, <4>2 DEF DeliveredInv
      <4>3. CASE delivered'[p][j] = r
        BY <3>2, <4>1, <4>3, <1>3, <1>11
      <4>4. QED
        BY <3>2, <4>2, <4>3, <1>6
    <3>3. QED
      BY <3>1, <3>2
  <2>3. QED
    BY <2>1, <2>2, <1>1 DEF DeliveredInv, HasBegun, Before
<1>14. QED
  BY <1>7, <1>8, <1>9, <1>10, <1>12, <1>13

(* readLoop moves a word.                                                  *)
LEMMA ReadKeepsInv ==
  ASSUME MessageInv, NEW t \in Threads, readLoop(t)
  PROVE  MessageInv'
<1> USE DEF MessageInv
<1> DEFINE p == End[t]
<1>0. PICK w : w = Head(wire[p])
  OBVIOUS
<1>1. /\ got' = [got EXCEPT ![t] = Append(@, w)]
      /\ wire' = [wire EXCEPT ![p] = Tail(@)]
      /\ UNCHANGED <<tpc, todo, supports, unsent, sent, delivered, disturbed>>
      /\ tpc[t] \in Reading /\ wire[p] # << >>
  BY <1>0 DEF readLoop
<1>2. p \in Ends /\ t \in Readers
  BY <1>1, PeerIsOther DEF ReaderInv
<1>3. /\ 1 \in DOMAIN wire[p] /\ w = wire[p][1] /\ w \in Word
      /\ Tail(wire[p]) \in Seq(Word)
      /\ \A i \in DOMAIN Tail(wire[p]) :
           i \in Nat /\ i + 1 \in DOMAIN wire[p] /\ Tail(wire[p])[i] = wire[p][i + 1]
  <2>1. wire[p] \in Seq(Word) /\ wire[p] # << >>
    BY <1>1, <1>2 DEF TypeOK
  <2>2. w = wire[p][1] /\ 1 \in DOMAIN wire[p] /\ w \in Word
    BY <1>0, <2>1
  <2>3. Tail(wire[p]) \in Seq(Word) /\ Len(Tail(wire[p])) = Len(wire[p]) - 1
    BY <2>1
  <2>4. QED
    BY <2>1, <2>2, <2>3
<1>4. /\ Append(got[t], w) \in Seq(Word)
      /\ \A i \in DOMAIN Append(got[t], w) :
           \/ i \in DOMAIN got[t] /\ Append(got[t], w)[i] = got[t][i]
           \/ i = Len(got[t]) + 1 /\ Append(got[t], w)[i] = w
      /\ Append(got[t], w) # << >>
      /\ got[t] = << >> => Append(got[t], w)[1] = w
      /\ got[t] # << >> => Append(got[t], w)[1] = got[t][1]
  <2>1. got[t] \in Seq(Word) /\ Len(got[t]) \in Nat
    BY DEF TypeOK
  <2>2. /\ Len(Append(got[t], w)) = Len(got[t]) + 1 /\ Append(got[t], w) \in Seq(Word)
        /\ \A i \in 1..Len(got[t]) : Append(got[t], w)[i] = got[t][i]
        /\ Append(got[t], w)[Len(got[t]) + 1] = w
    BY <2>1, <1>3, AppendProperties
  <2>3. QED
    BY <2>1, <2>2
<1>5. /\ wire'[p] = Tail(wire[p]) /\ \A e \in Ends : e # p => wire'[e] = wire[e]
      /\ got'[t] = Append(got[t], w) /\ \A u \in Threads : u # t => got'[u] = got[u]
  BY <1>1, <1>2 DEF TypeOK
<1>6. ASSUME NEW e \in Ends, NEW i \in DOMAIN wire'[e]
      PROVE  \/ i \in DOMAIN wire[e] /\ wire'[e][i] = wire[e][i] /\ e # p
             \/ i \in Nat /\ i + 1 \in DOMAIN wire[e] /\ wire'[e][i] = wire[e][i + 1] /\ e = p
  BY <1>6, <1>3, <1>5
<1>7. TypeOK'
  BY <1>1, <1>2, <1>3, <1>4, <1>5 DEF TypeOK
<1>12. ReaderInv'
  <2>1. got'[t] # << >>
    BY <1>4, <1>5
  <2>2. QED
    BY <1>1, <1>5, <2>1 DEF ReaderInv
<1>8. SentInv' /\ TodoInv' /\ DeliveredInv'
  BY <1>1 DEF SentInv, TodoInv, RestOfOne, OwnFrame, Begins, First, DeliveredInv,
              HasBegun, Announced, Before
<1>9. WireInv'
  <2>1. ASSUME NEW e \in Ends, NEW i \in DOMAIN wire'[e]
        PROVE  FromOther(e, wire'[e][i]) /\ (wire'[e][i].frame.packed => Announced(e))
    BY <2>1, <1>6 DEF WireInv
  <2>2. ASSUME NEW u \in Threads, NEW i \in DOMAIN got'[u]
        PROVE  FromOther(End[u], got'[u][i])
    <3>1. FromOther(p, w)
      BY <1>2, <1>3 DEF WireInv
    <3>2. QED
      BY <2>2, <3>1, <1>4, <1>5 DEF WireInv
  <2>3. QED
    BY <2>1, <2>2, <1>1 DEF WireInv, FromOther, HasBegun, Announced
<1>10. OrderInv'
  <2>1. ASSUME NEW e \in Ends, NEW i \in DOMAIN wire'[e], NEW j \in DOMAIN wire'[e],
               i < j, First(wire'[e][i]), First(wire'[e][j])
        PROVE  Before(e, wire'[e][i].frame.msg, wire'[e][j].frame.msg)
    <3>1. CASE e # p
      BY <2>1, <3>1, <1>6 DEF OrderInv
    <3>2. CASE e = p
      <4>1. /\ i \in Nat /\ i + 1 \in DOMAIN wire[p] /\ wire'[p][i] = wire[p][i + 1]
            /\ j \in Nat /\ j + 1 \in DOMAIN wire[p] /\ wire'[p][j] = wire[p][j + 1]
        BY <3>2, <1>6
      <4>2. i + 1 < j + 1
        BY <2>1, <4>1
      <4>3. QED
        BY <2>1, <3>2, <4>1, <4>2, <1>2 DEF OrderInv
    <3>3. QED
      BY <3>1, <3>2
  <2>2. ASSUME NEW e \in Ends, NEW i \in DOMAIN delivered[e], NEW j \in DOMAIN wire'[e],
               First(wire'[e][j])
        PROVE  Before(e, delivered[e][i].msg, wire'[e][j].frame.msg)
    BY <2>2, <1>6 DEF OrderInv
  <2>3. ASSUME NEW u \in Readers, got'[u] # << >>, First(got'[u][1])
        PROVE  /\ \A i \in DOMAIN delivered[End[u]] :
                    Before(End[u], delivered[End[u]][i].msg, got'[u][1].frame.msg)
               /\ \A j \in DOMAIN wire'[End[u]] : First(wire'[End[u]][j]) =>
                    Before(End[u], got'[u][1].frame.msg, wire'[End[u]][j].frame.msg)
    <3>0. u \in Threads /\ End[u] \in Ends
      BY MessageAssumption
    <3>1. CASE u # t
      <4>1. got'[u] = got[u] /\ End[u] # p
        BY <3>0, <3>1, <1>2, <1>5, MessageAssumption
      <4>2. wire'[End[u]] = wire[End[u]]
        BY <3>0, <4>1, <1>5
      <4>3. QED
        BY <2>3, <3>0, <4>1, <4>2 DEF OrderInv
    <3>2. CASE u = t /\ got[t] # << >>
      <4>1. got'[t][1] = got[t][1]
        BY <3>2, <1>4, <1>5
      <4>2. \A j \in DOMAIN wire'[p] : First(wire'[p][j]) =>
              Before(p, got[t][1].frame.msg, wire'[p][j].frame.msg)
        BY <2>3, <3>2, <4>1, <1>2, <1>6 DEF OrderInv
      <4>3. QED
        BY <2>3, <3>2, <4>1, <4>2, <1>2 DEF OrderInv
    <3>3. CASE u = t /\ got[t] = << >>
      <4>1. got'[t][1] = wire[p][1] /\ First(wire[p][1])
        BY <2>3, <3>3, <1>3, <1>4, <1>5
      <4>2. \A i \in DOMAIN delivered[p] : Before(p, delivered[p][i].msg, wire[p][1].frame.msg)
        BY <4>1, <1>2, <1>3 DEF OrderInv
      <4>3. ASSUME NEW j \in DOMAIN wire'[p], First(wire'[p][j])
            PROVE  Before(p, wire[p][1].frame.msg, wire'[p][j].frame.msg)
        <5>1. j \in Nat /\ j + 1 \in DOMAIN wire[p] /\ wire'[p][j] = wire[p][j + 1]
          BY <1>2, <1>6
        <5>2. j \in Nat \ {0}
          BY <1>2, <1>7 DEF TypeOK
        <5>3. 1 < j + 1
          BY <5>2
        <5>4. QED
          BY <4>1, <4>3, <5>1, <5>3, <1>2, <1>3 DEF OrderInv
      <4>4. QED
        BY <3>3, <4>1, <4>2, <4>3
    <3>4. QED
      BY <3>1, <3>2, <3>3
  <2>4. ASSUME NEW u \in Readers, got'[u] # << >>, First(got'[u][1])
        PROVE  /\ \A i \in DOMAIN delivered'[End[u]] :
                    Before(End[u], delivered[End[u]][i].msg, got[u][1].frame.msg)'
               /\ \A j \in DOMAIN wire'[End[u]] : First(wire'[End[u]][j]) =>
                    Before(End[u], got[u][1].frame.msg, wire[End[u]][j].frame.msg)'
    BY <2>3, <2>4, <1>1, ZenonT(60) DEF Before
  <2>5. \A e \in Ends : \A i, j \in DOMAIN wire'[e] :
          i < j /\ First(wire'[e][i]) /\ First(wire'[e][j])
            => Before(e, wire[e][i].frame.msg, wire[e][j].frame.msg)'
    BY <2>1, <1>1 DEF Before
  <2>6. \A e \in Ends : \A i \in DOMAIN delivered'[e], j \in DOMAIN wire'[e] :
          First(wire'[e][j]) => Before(e, delivered[e][i].msg, wire[e][j].frame.msg)'
    BY <2>2, <1>1 DEF Before
  <2>7. QED
    BY <2>4, <2>5, <2>6, ZenonT(60) DEF OrderInv, First
<1>11. QED
  BY <1>7, <1>8, <1>9, <1>10, <1>12

LEMMA AbortKeepsInv ==
  ASSUME MessageInv, NEW t \in Threads, Abort(t)
  PROVE  MessageInv'
<1>1. disturbed' \in [Ends -> BOOLEAN]
  BY DEF Abort, MessageInv, TypeOK
<1>2. tpc[t] \in Reading /\ Leaves(t) /\ UNCHANGED <<supports, delivered>>
  BY DEF Abort
<1>3. QED
  BY <1>1, <1>2, DropKeepsInv

LEMMA FailsKeepsInv ==
  ASSUME MessageInv, NEW t \in Threads, tpc[t] \in Reading, Fails(t), UNCHANGED supports
  PROVE  MessageInv'
<1>1. disturbed' \in [Ends -> BOOLEAN]
  BY DEF Fails, MessageInv, TypeOK
<1>2. Leaves(t) /\ UNCHANGED <<supports, delivered>>
  BY DEF Fails
<1>3. QED
  BY <1>1, <1>2, DropKeepsInv

(* What follows a known beginning.                                         *)
LEMMA TailOfConcat ==
  ASSUME NEW S, NEW a \in Seq(S), NEW b \in Seq(S)
  PROVE  SubSeq(a \o b, Len(a) + 1, Len(a \o b)) = b
<1> DEFINE s == a \o b
           r == SubSeq(s, Len(a) + 1, Len(s))
<1>1. /\ s \in Seq(S) /\ Len(s) = Len(a) + Len(b)
      /\ \A i \in 1..Len(a) + Len(b) : s[i] = IF i <= Len(a) THEN a[i] ELSE b[i - Len(a)]
  BY ConcatProperties
<1>2. Len(a) \in Nat /\ Len(b) \in Nat
  OBVIOUS
<1> HIDE DEF s
<1>3. /\ r \in Seq(S) /\ Len(r) = Len(b)
      /\ \A i \in 1..Len(b) : r[i] = s[Len(a) + i]
  BY <1>1, <1>2, SubSeqProperties
<1>4. \A i \in 1..Len(b) : r[i] = b[i]
  BY <1>1, <1>2, <1>3, SMTT(30)
<1>5. QED
  BY <1>3, <1>4 DEF s

(* A step of waitForMessage.                                               *)
LEMMA ReceiveKeepsInv ==
  ASSUME MessageInv, NEW t \in Threads, Receive(t)
  PROVE  MessageInv'
<1>1. /\ supports \in [Threads -> BOOLEAN]
      /\ \A u \in Threads : supports[u] => Announced(Peer(u))
      /\ tpc[t] \in Reading => t \in Readers
  BY DEF MessageInv, TypeOK, WireInv, ReaderInv
<1>2. CASE waitForMessage(t)
  <2>1. "head" \in Reading
    BY DEF Reading
  <2>2. QED
    BY <1>1, <1>2, <2>1, GoesOnKeepsInv DEF waitForMessage
<1>3. CASE readLoop(t)
  BY <1>3, ReadKeepsInv
<1>4. CASE ReadVersion(t)
  <2>1. tpc[t] \in Reading /\ tpc[t] # "write" /\ "more" \in Reading /\ UNCHANGED supports
    BY <1>4 DEF ReadVersion, Reading
  <2>2. CASE Goes(t, "more") /\ UNCHANGED <<wire, got, todo, unsent, sent, delivered, disturbed>>
    <3>1. Len(got[t]) = HeadWords
      BY <1>4 DEF ReadVersion, Complete, Wanted
    <3>2. got[t] # << >>
      BY <3>1, MessageAssumption
    <3>3. QED
      BY <1>1, <2>1, <2>2, <3>2, GoesOnKeepsInv
  <2>3. CASE Fails(t)
    BY <2>1, <2>3, FailsKeepsInv
  <2>4. QED
    BY <1>4, <2>2, <2>3 DEF ReadVersion
(* What has been read begins with a header of f.                           *)
<1>5. ASSUME NEW f \in Frames, NEW s \in Seq(Word),
             got[t] = Header(f) \/ got[t] = Header(f) \o s
      PROVE  got[t] # << >> /\ got[t][1] = [what |-> "head", frame |-> f, part |-> 1]
  <2>1. /\ Header(f) \in Seq(Word) /\ Len(Header(f)) = HeadWords + 1
        /\ 1 \in 1..HeadWords + 1 /\ HeadWords + 1 \in Nat
    BY FrameWords, MessageAssumption
  <2>2. Header(f)[1] = [what |-> "head", frame |-> f, part |-> 1]
    BY <2>1, FrameWords
  <2>3. CASE got[t] = Header(f)
    BY <2>1, <2>2, <2>3
  <2>4. CASE got[t] = Header(f) \o s
    <3>1. /\ Len(got[t]) = HeadWords + 1 + Len(s) /\ Len(s) \in Nat
          /\ got[t][1] = Header(f)[1]
      BY <2>1, <2>4, ConcatProperties
    <3>2. QED
      BY <2>1, <2>2, <3>1
  <2>5. QED
    BY <1>5, <2>3, <2>4
<1>6. PICK f : f = got[t][1].frame
  OBVIOUS
<1>7. ASSUME tpc[t] \in {"more", "body"}, Complete(t)
      PROVE  f \in Frames
  <2>1. got[t] \in Seq(Word)
    BY DEF MessageInv, TypeOK
  <2>2. CASE tpc[t] = "more"
    <3>1. Len(got[t]) = HeadWords + 1
      BY <1>7, <2>2 DEF Complete, Wanted
    <3>2. got[t][1] \in Word
      BY <2>1, <3>1, MessageAssumption
    <3>3. QED
      BY <1>6, <3>2 DEF Word
  <2>3. CASE tpc[t] = "body"
    <3>1. got[t] # << >>
      BY <2>3 DEF MessageInv, ReaderInv
    <3>2. got[t][1] \in Word
      BY <2>1, <3>1
    <3>3. QED
      BY <1>6, <3>2 DEF Word
  <2>4. QED
    BY <1>7, <2>2, <2>3
<1>8. CASE readFromPacketHeader(t)
  <2>1. /\ tpc[t] \in Reading /\ tpc[t] # "write" /\ "body" \in Reading /\ "body" # "head"
        /\ f \in Frames
    BY <1>7, <1>8 DEF readFromPacketHeader, Reading
  <2>2. CASE got[t] # Header(f)
    BY <1>6, <1>8, <2>1, <2>2, FailsKeepsInv DEF readFromPacketHeader
  <2>3. CASE got[t] = Header(f)
    <3>1. got[t] # << >> /\ got[t][1] = [what |-> "head", frame |-> f, part |-> 1]
      BY <1>5, <2>1, <2>3, FrameWords
    <3>2. supports' = [supports EXCEPT ![t] = f.announces]
      BY <1>6, <1>8, <2>3 DEF readFromPacketHeader
    <3>3. f.announces \in BOOLEAN
      BY <2>1 DEF Frames
    <3>4. f.announces => Announced(Peer(t))
      <4>1. 1 \in DOMAIN got[t] /\ got[t] \in Seq(Word)
        BY <3>1 DEF MessageInv, TypeOK
      <4>2. FromOther(End[t], got[t][1])
        BY <4>1 DEF MessageInv, WireInv
      <4>3. HasBegun(End[t], f.msg)
        BY <1>6, <4>2 DEF FromOther
      <4>4. ASSUME f.announces
            PROVE  Announced(Peer(t))
        <5>1. PICK u \in Announces : Peer(u) = End[t] /\ f.msg \in Outbox[u]
          BY <1>6, <4>2, <4>4 DEF FromOther
        <5>2. End[u] = Peer(t) /\ End[t] \in Ends \ {Peer(t)}
          BY <5>1, PeerIsOther, MessageAssumption
        <5>3. QED
          BY <4>3, <5>1, <5>2 DEF Announced, HasBegun
      <4>5. QED
        BY <4>4
    <3>5. supports' \in [Threads -> BOOLEAN]
      BY <1>1, <3>2, <3>3
    <3>6. \A u \in Threads : supports'[u] => Announced(Peer(u))
      BY <1>1, <3>2, <3>4
    <3>7. CASE BodySize(f) = 0
      <4>1. Accepts(t, f)
        BY <1>6, <1>8, <2>3, <3>7 DEF readFromPacketHeader
      <4>2. Body(f) = << >>
        BY <3>7 DEF Body, Words
      <4>3. Header(f) \in Seq(Word) /\ Len(got[t]) = HeadWords + 1
        BY <2>1, <2>3, FrameWords
      <4>4. SubSeq(got[t], HeadWords + 2, Len(got[t])) = << >>
        BY <2>3, <4>3, MessageAssumption, SubSeqProperties
      <4>5. First(got[t][1]) /\ got[t][1].frame = f
        BY <3>1 DEF First
      <4>6. SubSeq(got[t], HeadWords + 2, Len(got[t])) = Body(f)
        BY <4>2, <4>4
      <4>7. QED
        BY <2>1, <3>1, <3>5, <3>6, <4>1, <4>5, <4>6, AcceptKeepsInv
    <3>8. CASE BodySize(f) # 0
      <4>1. Goes(t, "body") /\ UNCHANGED <<wire, got, todo, unsent, sent, delivered, disturbed>>
        BY <1>6, <1>8, <2>3, <3>8 DEF readFromPacketHeader
      <4>2. QED
        BY <1>1, <2>1, <3>1, <3>5, <3>6, <4>1, GoesOnKeepsInv
    <3>9. QED
      BY <3>7, <3>8
  <2>4. QED
    BY <2>2, <2>3
<1>9. CASE ReadPayload(t)
  <2>1. tpc[t] \in Reading /\ f \in Frames /\ UNCHANGED supports
    BY <1>7, <1>9 DEF ReadPayload, Reading
  <2>2. CASE got[t] # Header(f) \o Body(f)
    BY <1>6, <1>9, <2>1, <2>2, FailsKeepsInv DEF ReadPayload
  <2>3. CASE got[t] = Header(f) \o Body(f)
    <3>1. Accepts(t, f)
      BY <1>6, <1>9, <2>3 DEF ReadPayload
    <3>2. got[t] # << >> /\ got[t][1] = [what |-> "head", frame |-> f, part |-> 1]
      BY <1>5, <2>1, <2>3, FrameWords
    <3>3. SubSeq(got[t], HeadWords + 2, Len(got[t])) = Body(f)
      <4>1. /\ Header(f) \in Seq(Word) /\ Len(Header(f)) = HeadWords + 1
            /\ Body(f) \in Seq(Word) /\ HeadWords + 1 \in Nat
        BY <2>1, FrameWords, MessageAssumption
      <4>2. QED
        BY <2>3, <4>1, TailOfConcat, MessageAssumption
    <3>4. First(got[t][1]) /\ got[t][1].frame = f
      BY <3>2 DEF First
    <3>5. supports' \in [Threads -> BOOLEAN] /\ \A u \in Threads : supports'[u] => Announced(Peer(u))
      BY <1>1, <2>1
    <3>6. QED
      BY <2>1, <3>1, <3>2, <3>3, <3>4, <3>5, AcceptKeepsInv
  <2>4. QED
    BY <2>2, <2>3
<1>10. QED
  BY <1>2, <1>3, <1>4, <1>8, <1>9 DEF Receive

-----------------------------------------------------------------------------
LEMMA NextKeepsInv == MessageInv /\ [Next]_vars => MessageInv'
<1> SUFFICES ASSUME MessageInv, [Next]_vars
             PROVE  MessageInv'
  OBVIOUS
<1>1. CASE UNCHANGED vars
  <2> USE <1>1 DEF vars, reading, MessageInv
  <2>1. TypeOK'
    BY DEF TypeOK
  <2>6. ReaderInv' /\ SentInv'
    BY DEF ReaderInv, SentInv, HasBegun
  <2>2. TodoInv'
    BY DEF TodoInv, RestOfOne, OwnFrame, Begins, First, Announced, HasBegun
  <2>3. WireInv'
    BY DEF WireInv, FromOther, Announced, HasBegun
  <2>4. OrderInv' /\ DeliveredInv'
    BY DEF OrderInv, DeliveredInv, First, HasBegun, Before
  <2>5. QED
    BY <2>1, <2>2, <2>3, <2>4, <2>6
<1>2. ASSUME NEW t \in Threads, StartWrite(t)
      PROVE  MessageInv'
  BY <1>2, StartWriteKeepsInv
<1>3. ASSUME NEW t \in Threads, Send(t)
      PROVE  MessageInv'
  BY <1>3, SendKeepsInv
<1>4. ASSUME NEW t \in Threads, Receive(t)
      PROVE  MessageInv'
  BY <1>4, ReceiveKeepsInv
<1>5. ASSUME NEW t \in Threads, Abort(t)
      PROVE  MessageInv'
  BY <1>5, AbortKeepsInv
<1>6. QED
  BY <1>1, <1>2, <1>3, <1>4, <1>5 DEF Next

(* The invariant of the connection: what is under way at either end and on *)
(* the wire, however the threads' calls of send() and recv() interleave.   *)
THEOREM MessageInvariant == Spec => []MessageInv
<1>1. QED
  BY InitMessageInv, NextKeepsInv, PTL DEF Spec

(* A thread holds words to send only in write(), and words of a frame only *)
(* inside waitForMessage.                                                  *)
THEOREM MessageTypeCorrect == Spec => []TypeOK
<1>1. MessageInv => TypeOK
  BY DEF MessageInv
<1>2. QED
  BY <1>1, MessageInvariant, PTL

(* write(SocketMessage) compresses a payload only for an end that has sent *)
(* an announcement that it can unpack it.                                  *)
THEOREM PackedOnlyIfAnnouncedHolds == Spec => []PackedOnlyIfAnnounced
<1>1. MessageInv => PackedOnlyIfAnnounced
  BY DEF MessageInv, WireInv, Announced, PackedOnlyIfAnnounced
<1>2. QED
  BY <1>1, MessageInvariant, PTL

(* What waitForMessage returns was sent, with its own payload, once, and   *)
(* in the order of the sender, whatever was cut off or mixed before.       *)
THEOREM DeliveredAsSentHolds == Spec => []DeliveredAsSent
<1>1. MessageInv => DeliveredAsSent
  <2> SUFFICES ASSUME MessageInv
               PROVE  DeliveredAsSent
    OBVIOUS
  <2> USE DEF MessageInv
  <2>1. ASSUME NEW e \in Ends, NEW m, HasBegun(e, m)
        PROVE  Position(e, m) \in DOMAIN sent[e] /\ sent[e][Position(e, m)] = m
    BY <2>1 DEF Position, HasBegun
  <2>2. ASSUME NEW e \in Ends, NEW i \in DOMAIN delivered[e], NEW j \in DOMAIN delivered[e],
               i < j
        PROVE  Position(e, delivered[e][i].msg) < Position(e, delivered[e][j].msg)
    <3>1. HasBegun(e, delivered[e][i].msg) /\ HasBegun(e, delivered[e][j].msg)
      BY DEF DeliveredInv
    <3>2. Before(e, delivered[e][i].msg, delivered[e][j].msg)
      BY <2>2 DEF DeliveredInv
    <3>3. QED
      BY <2>1, <3>1, <3>2 DEF Before
  <2>3. QED
    BY <2>2 DEF DeliveredAsSent, DeliveredInv, HasBegun
<1>2. QED
  BY <1>1, MessageInvariant, PTL

-----------------------------------------------------------------------------
(* An end to which nothing was cut off or mixed.  What its reader has of a *)
(* frame, the words on the wire and the frame somebody is in the middle of *)
(* follow each other as their writers sent them; which word follows which  *)
(* is said of neighbours, so that each call of send() and recv() disturbs  *)
(* one place only.                                                         *)

(* The words of a frame, in order; a payload that is compressed is not     *)
(* empty.                                                                  *)
Sound == {f \in Frames : f.packed => f.msg \in Large}
Length(f) == HeadWords + 1 + BodySize(f)
WordAt(f, k) ==
  IF k <= HeadWords + 1 THEN [what |-> "head", frame |-> f, part |-> k]
  ELSE [what |-> "body", frame |-> f, part |-> k - (HeadWords + 1)]

Starts(w) == \E f \in Sound : w = WordAt(f, 1)
Final(w) == \E f \in Sound : w = WordAt(f, Length(f))
Joins(v, w) ==
  \/ Final(v) /\ Starts(w)
  \/ \E f \in Sound : \E k \in 1..Length(f) - 1 : v = WordAt(f, k) /\ w = WordAt(f, k + 1)

RestOfFrame(s) ==
  \E f \in Sound : \E k \in 0..Length(f) - 1 :
    /\ Len(s) = Length(f) - k
    /\ \A i \in 1..Len(s) : s[i] = WordAt(f, k + i)
PartOfFrame(g) ==
  \E f \in Sound : Len(g) <= Length(f) /\ \A i \in 1..Len(g) : g[i] = WordAt(f, i)

(* What was read, g, and what is on the wire, w, are frames one after the  *)
(* other.                                                                  *)
Chained(g, w) ==
  /\ \A i \in 1..Len(w) - 1 : Joins(w[i], w[i + 1])
  /\ w # <<>> => IF g = <<>> THEN Starts(w[1]) ELSE Joins(g[Len(g)], w[1])

(* The last word that was sent; the word that comes next; no frame is      *)
(* incomplete.                                                             *)
Newest(g, w) == IF w # <<>> THEN w[Len(w)] ELSE g[Len(g)]
Continues(g, w, x) == IF g = <<>> /\ w = <<>> THEN Starts(x) ELSE Joins(Newest(g, w), x)
Whole(g, w) == (g = <<>> /\ w = <<>>) \/ Final(Newest(g, w))

AtPlace(pc, g) ==
  (pc = "head" => Len(g) <= HeadWords) /\ (pc = "more" => Len(g) <= HeadWords + 1)

(* Who has sent a part of a frame to e.                                    *)
Midway(e) == {u \in Threads : Peer(u) = e /\ tpc[u] = "write" /\ ~Begins(u)}

InOrder(r) ==
  /\ got[r] # <<>> => PartOfFrame(got[r])
  /\ AtPlace(tpc[r], got[r])
  /\ Chained(got[r], wire[End[r]])
  /\ \/ Midway(End[r]) = {} /\ Whole(got[r], wire[End[r]])
     \/ \E u \in Threads : Midway(End[r]) = {u} /\ Continues(got[r], wire[End[r]], todo[u][1])

StepInv ==
  /\ \A t \in Threads : todo[t] # <<>> => RestOfFrame(todo[t])
  /\ \A r \in Readers : ~disturbed[End[r]] => InOrder(r)

-----------------------------------------------------------------------------
(* The length of a frame.                                                  *)
LEMMA SoundLength ==
  ASSUME NEW f \in Sound
  PROVE  /\ f \in Frames /\ BodySize(f) \in Nat
         /\ Length(f) \in Nat /\ Length(f) >= HeadWords + 1
         /\ HeadWords \in Nat /\ HeadWords >= 1
<1>1. f \in Frames /\ f.msg \in Messages /\ (f.packed => f.msg \in Large)
  BY DEF Sound, Frames
<1>2. Size[f.msg] \in Nat /\ (f.msg \in Large => Size[f.msg] > 1)
  BY <1>1, MessageAssumption
<1>3. BodySize(f) \in Nat
  BY <1>1, <1>2 DEF BodySize
<1>4. QED
  BY <1>1, <1>3, MessageAssumption DEF Length

(* A word tells its frame and its place.                                   *)
LEMMA WordFields ==
  ASSUME NEW f, NEW k \in Nat
  PROVE  /\ WordAt(f, k).frame = f
         /\ WordAt(f, k).what = IF k <= HeadWords + 1 THEN "head" ELSE "body"
         /\ WordAt(f, k).part = IF k <= HeadWords + 1 THEN k ELSE k - (HeadWords + 1)
BY DEF WordAt

(* No word is at two places.                                               *)
LEMMA PlaceIsUnique ==
  ASSUME NEW f, NEW h, NEW k \in Nat, NEW j \in Nat, WordAt(f, k) = WordAt(h, j)
  PROVE  f = h /\ k = j
<1>1. f = h
  BY WordFields
<1>2. HeadWords \in Nat
  BY MessageAssumption
<1>3. k <= HeadWords + 1 <=> j <= HeadWords + 1
  BY <1>2, WordFields
<1>4. QED
  BY <1>1, <1>2, <1>3, WordFields

(* The first word of a frame, and no other, starts it.                     *)
LEMMA StartsFirst ==
  ASSUME NEW f \in Sound, NEW k \in 1..Length(f)
  PROVE  /\ WordAt(f, k).what = "head" /\ WordAt(f, k).part = 1 <=> k = 1
         /\ Starts(WordAt(f, k)) <=> k = 1
<1>1. Length(f) \in Nat /\ HeadWords \in Nat /\ HeadWords >= 1 /\ k \in Nat
  BY SoundLength
<1>2. WordAt(f, k).what = "head" /\ WordAt(f, k).part = 1 <=> k = 1
  BY <1>1, WordFields
<1>3. Starts(WordAt(f, k)) <=> k = 1
  BY <1>1, PlaceIsUnique DEF Starts
<1>4. QED
  BY <1>2, <1>3

(* The word after the one at k.                                            *)
LEMMA JoinsNext ==
  ASSUME NEW f \in Sound, NEW k \in 1..Length(f), NEW w, Joins(WordAt(f, k), w)
  PROVE  IF k = Length(f) THEN Starts(w) ELSE w = WordAt(f, k + 1)
<1>1. Length(f) \in Nat /\ k \in Nat
  BY SoundLength
<1>2. CASE Final(WordAt(f, k)) /\ Starts(w)
  <2>1. PICK h \in Sound : WordAt(f, k) = WordAt(h, Length(h))
    BY <1>2 DEF Final
  <2>2. Length(h) \in Nat
    BY SoundLength
  <2>3. k = Length(f)
    BY <1>1, <2>1, <2>2, PlaceIsUnique
  <2>4. QED
    BY <1>2, <2>3
<1>3. CASE \E h \in Sound : \E j \in 1..Length(h) - 1 :
             WordAt(f, k) = WordAt(h, j) /\ w = WordAt(h, j + 1)
  <2>0. PICK h \in Sound :
          \E j \in 1..Length(h) - 1 : WordAt(f, k) = WordAt(h, j) /\ w = WordAt(h, j + 1)
    BY <1>3
  <2>1. PICK j \in 1..Length(h) - 1 : WordAt(f, k) = WordAt(h, j) /\ w = WordAt(h, j + 1)
    BY <2>0
  <2>2. Length(h) \in Nat /\ j \in Nat
    BY SoundLength
  <2>3. f = h /\ k = j
    BY <1>1, <2>1, <2>2, PlaceIsUnique
  <2>4. QED
    BY <2>1, <2>2, <2>3
<1>4. QED
  BY <1>2, <1>3 DEF Joins

(* Words of a frame follow each other.                                     *)
LEMMA JoinsInFrame ==
  ASSUME NEW f \in Sound, NEW k \in 1..Length(f) - 1
  PROVE  Joins(WordAt(f, k), WordAt(f, k + 1))
BY DEF Joins

(* A frame as a sequence.                                                  *)
LEMMA FrameIsWords ==
  ASSUME NEW f \in Sound
  PROVE  /\ \A i \in 1..HeadWords + 1 : Header(f)[i] = WordAt(f, i)
         /\ Len(Header(f) \o Body(f)) = Length(f)
         /\ \A i \in 1..Length(f) : (Header(f) \o Body(f))[i] = WordAt(f, i)
<1>1. f \in Frames /\ BodySize(f) \in Nat /\ HeadWords \in Nat
      /\ Length(f) = HeadWords + 1 + BodySize(f)
  BY SoundLength DEF Length
<1>2. /\ Header(f) \in Seq(Word) /\ Len(Header(f)) = HeadWords + 1
      /\ Body(f) \in Seq(Word) /\ Len(Body(f)) = BodySize(f)
      /\ DOMAIN Body(f) = 1..BodySize(f)
  BY <1>1, FrameWords
<1>3. \A i \in 1..HeadWords + 1 : Header(f)[i] = WordAt(f, i)
  BY <1>1, FrameWords DEF WordAt
<1>4. \A i \in 1..BodySize(f) : Body(f)[i] = WordAt(f, HeadWords + 1 + i)
  <2> SUFFICES ASSUME NEW i \in 1..BodySize(f)
               PROVE  Body(f)[i] = WordAt(f, HeadWords + 1 + i)
    OBVIOUS
  <2>1. Body(f)[i] = [what |-> "body", frame |-> f, part |-> i]
    BY <1>1, <1>2, FrameWords
  <2>2. PICK k : k = HeadWords + 1 + i
    OBVIOUS
  <2>3. ~(k <= HeadWords + 1) /\ k - (HeadWords + 1) = i
    BY <1>1, <2>2
  <2>4. Body(f)[i] = WordAt(f, k)
    BY <2>1, <2>3 DEF WordAt
  <2>5. QED
    BY <2>2, <2>4
<1>5. Len(Header(f) \o Body(f)) = Length(f)
  <2>1. Len(Header(f) \o Body(f)) = Len(Header(f)) + Len(Body(f))
    BY <1>2, ConcatProperties
  <2>2. QED
    BY <1>1, <1>2, <2>1
<1>6. ASSUME NEW i \in 1..Length(f)
      PROVE  (Header(f) \o Body(f))[i] = WordAt(f, i)
  <2>1. CASE i <= HeadWords + 1
    BY <1>1, <1>2, <1>3, <2>1, ConcatProperties
  <2>2. CASE i > HeadWords + 1
    <3>1. i - (HeadWords + 1) \in 1..BodySize(f) /\ HeadWords + 1 + (i - (HeadWords + 1)) = i
      BY <1>1, <2>2
    <3>2. (Header(f) \o Body(f))[i] = Body(f)[i - (HeadWords + 1)]
      BY <1>1, <1>2, <2>2, ConcatProperties
    <3>3. QED
      BY <1>4, <3>1, <3>2
  <2>3. i <= HeadWords + 1 \/ i > HeadWords + 1
    BY <1>1
  <2>4. QED
    BY <2>1, <2>2, <2>3
<1>7. QED
  BY <1>3, <1>5, <1>6

-----------------------------------------------------------------------------
(* readLoop takes the next word from the wire.                             *)
LEMMA TakesWord ==
  ASSUME NEW g \in Seq(Word), NEW w \in Seq(Word), w # << >>, Chained(g, w),
         g # << >> => PartOfFrame(g) /\ Len(g) < Length(g[1].frame),
         NEW g2, g2 = Append(g, w[1]), NEW w2, w2 = Tail(w)
  PROVE  /\ PartOfFrame(g2)
         /\ Chained(g2, w2)
         /\ Whole(g, w) => Whole(g2, w2)
         /\ \A x : Continues(g, w, x) => Continues(g2, w2, x)
<1>1. /\ Len(g) \in Nat /\ Len(w) \in Nat /\ Len(w) >= 1
      /\ g2 \in Seq(Word) /\ Len(g2) = Len(g) + 1 /\ g2 # << >>
      /\ \A i \in 1..Len(g) : g2[i] = g[i]
      /\ g2[Len(g2)] = w[1]
  OBVIOUS
<1>2. /\ w2 \in Seq(Word) /\ Len(w2) = Len(w) - 1
      /\ \A i \in 1..Len(w) - 1 : w2[i] = w[i + 1]
  OBVIOUS
<1>3. PartOfFrame(g2)
  <2>1. CASE g = << >>
    <3>1. PICK f \in Sound : w[1] = WordAt(f, 1)
      BY <2>1 DEF Chained, Starts
    <3>2. Len(g2) = 1 /\ g2[1] = WordAt(f, 1) /\ 1 <= Length(f)
      BY <1>1, <2>1, <3>1, SoundLength
    <3>3. \A i \in 1..Len(g2) : i = 1
      BY <3>2
    <3>4. QED
      BY <3>2, <3>3 DEF PartOfFrame
  <2>2. CASE g # << >>
    <3>1. PICK f \in Sound : Len(g) <= Length(f) /\ \A i \in 1..Len(g) : g[i] = WordAt(f, i)
      BY <2>2 DEF PartOfFrame
    <3>2. Len(g) >= 1 /\ g[1] = WordAt(f, 1) /\ g[Len(g)] = WordAt(f, Len(g))
      BY <1>1, <2>2, <3>1
    <3>3. g[1].frame = f
      BY <3>2, WordFields
    <3>4. Length(f) \in Nat /\ Len(g) < Length(f)
      BY <2>2, <3>3, SoundLength
    <3>5. Len(g) \in 1..Length(f) /\ Len(g) # Length(f)
      BY <1>1, <3>2, <3>4
    <3>6. Joins(WordAt(f, Len(g)), w[1])
      BY <2>2, <3>2 DEF Chained
    <3>7. w[1] = WordAt(f, Len(g) + 1)
      BY <3>5, <3>6, JoinsNext
    <3>8. \A i \in 1..Len(g2) : g2[i] = WordAt(f, i)
      BY <1>1, <3>1, <3>7
    <3>9. Len(g2) <= Length(f)
      BY <1>1, <3>4
    <3>10. QED
      BY <3>8, <3>9 DEF PartOfFrame
  <2>3. QED
    BY <2>1, <2>2
<1>4. Chained(g2, w2)
  <2>1. ASSUME NEW i \in 1..Len(w2) - 1
        PROVE  Joins(w2[i], w2[i + 1])
    <3>1. i + 1 \in 1..Len(w) - 1 /\ i \in 1..Len(w) - 1
      BY <1>1, <1>2
    <3>2. w2[i] = w[i + 1] /\ w2[i + 1] = w[i + 1 + 1]
      BY <1>2, <3>1
    <3>3. QED
      BY <3>1, <3>2 DEF Chained
  <2>2. ASSUME w2 # << >>
        PROVE  Joins(g2[Len(g2)], w2[1])
    <3>1. Len(w2) >= 1
      BY <1>2, <2>2
    <3>2. 1 \in 1..Len(w) - 1 /\ w2[1] = w[1 + 1]
      BY <1>1, <1>2, <3>1
    <3>3. QED
      BY <1>1, <3>2 DEF Chained
  <2>3. QED
    BY <1>1, <2>1, <2>2 DEF Chained
<1>5. Newest(g2, w2) = Newest(g, w)
  <2>1. CASE w2 = << >>
    <3>1. Len(w) = 1
      BY <1>1, <1>2, <2>1
    <3>2. QED
      BY <1>1, <2>1, <3>1 DEF Newest
  <2>2. CASE w2 # << >>
    <3>1. Len(w2) \in 1..Len(w) - 1 /\ Len(w2) + 1 = Len(w)
      BY <1>1, <1>2, <2>2
    <3>2. w2[Len(w2)] = w[Len(w)]
      BY <1>2, <3>1
    <3>3. QED
      BY <2>2, <3>2 DEF Newest
  <2>3. QED
    BY <2>1, <2>2
<1>6. QED
  BY <1>1, <1>3, <1>4, <1>5 DEF Whole, Continues

(* What is left after some words of a rest were sent.                      *)
LEMMA RestOfRest ==
  ASSUME NEW s \in Seq(Word), RestOfFrame(s), NEW n \in 1..Len(s), n # Len(s)
  PROVE  RestOfFrame(SubSeq(s, n + 1, Len(s)))
<1>1. PICK f \in Sound : \E k \in 0..Length(f) - 1 :
        Len(s) = Length(f) - k /\ \A i \in 1..Len(s) : s[i] = WordAt(f, k + i)
  BY DEF RestOfFrame
<1>2. PICK k \in 0..Length(f) - 1 :
        Len(s) = Length(f) - k /\ \A i \in 1..Len(s) : s[i] = WordAt(f, k + i)
  BY <1>1
<1>3. PICK s2 : s2 = SubSeq(s, n + 1, Len(s))
  OBVIOUS
<1>4. /\ Len(s2) = Len(s) - n
      /\ \A i \in 1..Len(s) - n : s2[i] = s[i + n]
  BY <1>3, Cut
<1>5. Len(s) \in Nat /\ Length(f) \in Nat
  BY SoundLength
<1>6. Len(s) = Length(f) - k
  BY <1>2
<1>7. PICK j : j = k + n
  OBVIOUS
<1>8. j \in 0..Length(f) - 1 /\ Len(s2) = Length(f) - j
  BY <1>4, <1>5, <1>6, <1>7
<1>9. ASSUME NEW i \in 1..Len(s2)
      PROVE  s2[i] = WordAt(f, j + i)
  <2>1. i + n \in 1..Len(s) /\ i \in 1..Len(s) - n /\ k + (i + n) = j + i
    BY <1>4, <1>5, <1>7
  <2>2. QED
    BY <1>2, <1>4, <2>1
<1>10. QED
  BY <1>3, <1>8, <1>9 DEF RestOfFrame

(* send() puts the first n words of what is left of a frame, s, on the     *)
(* wire, which is w2 then, and s2 is left.                                 *)
Sends(g, w, w2, s2) ==
  /\ Chained(g, w2)
  /\ s2 = << >> => Whole(g, w2)
  /\ s2 # << >> => Continues(g, w2, s2[1]) /\ ~(s2[1].what = "head" /\ s2[1].part = 1)

(* Words of a frame, put behind those before them, leave everything in order.*)
LEMMA SendsWords ==
  \A g, w, s \in Seq(Word) : \A n \in 1..Len(s) :
    s # << >> /\ RestOfFrame(s) /\ Chained(g, w) /\ Continues(g, w, s[1])
      => Sends(g, w, w \o SubSeq(s, 1, n), SubSeq(s, n + 1, Len(s)))
<1> SUFFICES ASSUME NEW g \in Seq(Word), NEW w \in Seq(Word), NEW s \in Seq(Word),
                    NEW n \in 1..Len(s), s # << >>, RestOfFrame(s), Chained(g, w),
                    Continues(g, w, s[1])
             PROVE  Sends(g, w, w \o SubSeq(s, 1, n), SubSeq(s, n + 1, Len(s)))
  OBVIOUS
<1>a. PICK w2 : w2 = w \o SubSeq(s, 1, n)
  OBVIOUS
<1>b. PICK s2 : s2 = SubSeq(s, n + 1, Len(s))
  OBVIOUS
<1> DEFINE c == SubSeq(s, 1, n)
<1>1. PICK f \in Sound : \E k \in 0..Length(f) - 1 :
        Len(s) = Length(f) - k /\ \A i \in 1..Len(s) : s[i] = WordAt(f, k + i)
  BY DEF RestOfFrame
<1>2. PICK k \in 0..Length(f) - 1 :
        Len(s) = Length(f) - k /\ \A i \in 1..Len(s) : s[i] = WordAt(f, k + i)
  BY <1>1
<1>3. /\ Length(f) \in Nat /\ k \in Nat /\ n \in Nat /\ n >= 1 /\ n <= Len(s)
      /\ Len(w) \in Nat /\ Len(s) \in Nat
  BY SoundLength
<1>4. /\ c \in Seq(Word) /\ Len(c) = n /\ \A i \in 1..n : c[i] = s[i]
      /\ s2 \in Seq(Word) /\ Len(s2) = Len(s) - n /\ \A i \in 1..Len(s) - n : s2[i] = s[i + n]
  BY <1>b, Cut
<1> HIDE DEF c
<1>5. w2 \in Seq(Word) /\ Len(w2) = Len(w) + n /\ w2 # << >>
  <2>1. w2 = w \o c /\ c \in Seq(Word) /\ Len(c) = n
    BY <1>4, <1>a DEF c
  <2>2. w2 \in Seq(Word) /\ Len(w2) = Len(w) + n
    BY <2>1, ConcatProperties
  <2>3. \A q : Len(q) >= 1 => q # << >>
    OBVIOUS
  <2>4. Len(w2) >= 1
    BY <1>3, <2>2
  <2>5. QED
    BY <2>2, <2>3, <2>4
<1>6. /\ \A i \in 1..Len(w) : w2[i] = w[i]
      /\ \A i \in 1..n : w2[Len(w) + i] = WordAt(f, k + i)
  <2>1. \A i \in 1..Len(w) + n : w2[i] = IF i <= Len(w) THEN w[i] ELSE c[i - Len(w)]
    BY <1>4, <1>a, ConcatProperties DEF c
  <2>2. \A i \in 1..Len(w) : w2[i] = w[i]
    BY <1>3, <2>1
  <2>3. ASSUME NEW i \in 1..n
        PROVE  w2[Len(w) + i] = WordAt(f, k + i)
    <3>1. PICK j : j = Len(w) + i
      OBVIOUS
    <3>5. j \in 1..Len(w) + n /\ ~(j <= Len(w)) /\ j - Len(w) = i
      BY <1>3, <3>1
    <3>6. w2[j] = c[i]
      BY <2>1, <3>5
    <3>2. w2[Len(w) + i] = c[i]
      BY <3>1, <3>6
    <3>3. i \in 1..Len(s)
      BY <1>3
    <3>4. QED
      BY <1>2, <1>4, <3>2, <3>3
  <2>4. QED
    BY <2>2, <2>3
<1>7. w2[Len(w2)] = WordAt(f, k + n) /\ w2[Len(w) + 1] = s[1]
  <2>1. n \in 1..n /\ 1 \in 1..n /\ 1 \in 1..Len(s)
    BY <1>3
  <2>2. QED
    BY <1>2, <1>5, <1>6, <2>1
<1>8. Chained(g, w2)
  <2>1. ASSUME NEW i \in 1..Len(w2) - 1
        PROVE  Joins(w2[i], w2[i + 1])
    <3>1. CASE i < Len(w)
      <4>1. i \in 1..Len(w) /\ i + 1 \in 1..Len(w) /\ i \in 1..Len(w) - 1
        BY <1>3, <3>1
      <4>2. QED
        BY <1>6, <4>1 DEF Chained
    <3>2. CASE i = Len(w)
      <4>1. w # << >> /\ i \in 1..Len(w)
        BY <3>2
      <4>2. Joins(w[Len(w)], s[1])
        BY <4>1 DEF Continues, Newest
      <4>3. QED
        BY <1>6, <1>7, <3>2, <4>1, <4>2
    <3>3. CASE i > Len(w)
      <4>1. PICK j : j = i - Len(w)
        OBVIOUS
      <4>2. j \in 1..n /\ j + 1 \in 1..n /\ i = Len(w) + j /\ i + 1 = Len(w) + (j + 1)
        BY <1>3, <1>5, <3>3, <4>1
      <4>3. w2[i] = WordAt(f, k + j) /\ w2[i + 1] = WordAt(f, k + (j + 1))
        BY <1>6, <4>2
      <4>4. k + j \in 1..Length(f) - 1 /\ k + (j + 1) = k + j + 1
        BY <1>2, <1>3, <4>2
      <4>5. QED
        BY <4>3, <4>4, JoinsInFrame
    <3>4. i < Len(w) \/ i = Len(w) \/ i > Len(w)
      BY <1>3
    <3>5. QED
      BY <3>1, <3>2, <3>3, <3>4
  <2>2. CASE w = << >>
    <3>1. w2[1] = s[1]
      BY <1>7, <2>2
    <3>2. IF g = << >> THEN Starts(w2[1]) ELSE Joins(g[Len(g)], w2[1])
      BY <2>2, <3>1 DEF Continues, Newest
    <3>3. QED
      BY <2>1, <3>2 DEF Chained
  <2>3. CASE w # << >>
    <3>1. 1 \in 1..Len(w)
      BY <1>3, <2>3
    <3>2. w2[1] = w[1]
      BY <1>6, <3>1
    <3>3. QED
      BY <2>1, <2>3, <3>2 DEF Chained
  <2>4. QED
    BY <2>2, <2>3
<1>9. Newest(g, w2) = WordAt(f, k + n)
  BY <1>5, <1>7 DEF Newest
<1>10. ASSUME n = Len(s)
       PROVE  Whole(g, w2)
  <2>1. k + n = Length(f)
    BY <1>2, <1>3, <1>10
  <2>2. QED
    BY <1>9, <2>1 DEF Whole, Final
<1>11. ASSUME n # Len(s)
       PROVE  /\ Continues(g, w2, s2[1])
              /\ ~(s2[1].what = "head" /\ s2[1].part = 1)
  <2>1. PICK k2 : k2 = k + n
    OBVIOUS
  <2>9. Len(s) = Length(f) - k /\ Len(s2) = Len(s) - n /\ k \in 0..Length(f) - 1
    BY <1>2, <1>4
  <2>2. k2 \in 0..Length(f) - 1 /\ Len(s2) = Length(f) - k2 /\ k2 >= 1
    BY <1>3, <1>11, <2>1, <2>9
  <2>3. ASSUME NEW i \in 1..Len(s2)
        PROVE  s2[i] = WordAt(f, k2 + i)
    <3>1. i \in 1..Len(s) - n /\ i + n \in 1..Len(s) /\ k + (i + n) = k2 + i
      BY <1>3, <1>4, <2>1
    <3>2. QED
      BY <1>2, <1>4, <3>1
  <2>5. 1 \in 1..Len(s2) /\ k2 + 1 \in 1..Length(f) /\ k2 \in 1..Length(f) - 1 /\ k2 + 1 # 1
    BY <1>3, <2>2
  <2>6. s2[1] = WordAt(f, k2 + 1)
    BY <2>3, <2>5
  <2>7. Joins(Newest(g, w2), s2[1])
    BY <1>9, <2>1, <2>5, <2>6, JoinsInFrame
  <2>8. QED
    BY <1>5, <2>5, <2>6, <2>7, StartsFirst DEF Continues
<1>12. s2 = << >> <=> n = Len(s)
  BY <1>3, <1>4
<1>13. Sends(g, w, w2, s2)
  BY <1>8, <1>10, <1>11, <1>12 DEF Sends
<1>14. QED
  BY <1>13, <1>a, <1>b

(* waitForMessage leaves after a whole frame.                              *)
LEMMA TakesFrame ==
  ASSUME NEW g \in Seq(Word), NEW w \in Seq(Word), NEW f \in Sound,
         g # << >>, Len(g) = Length(f), g[Len(g)] = WordAt(f, Length(f)), Chained(g, w)
  PROVE  /\ Chained(<< >>, w)
         /\ Whole(g, w) => Whole(<< >>, w)
         /\ \A x : Continues(g, w, x) => Continues(<< >>, w, x)
<1>1. Length(f) \in 1..Length(f)
  BY SoundLength
<1>2. \A x : Joins(g[Len(g)], x) => Starts(x)
  BY <1>1, JoinsNext
<1>3. Chained(<< >>, w)
  BY <1>2 DEF Chained
<1>4. QED
  BY <1>2, <1>3 DEF Whole, Continues, Newest

-----------------------------------------------------------------------------
(* A step that does not concern what r reads.                              *)
LEMMA NotConcerned ==
  ASSUME NEW r \in Readers, InOrder(r), got'[r] = got[r], wire'[End[r]] = wire[End[r]],
         AtPlace(tpc'[r], got[r]), Midway(End[r])' = Midway(End[r]),
         \A u \in Midway(End[r]) : todo'[u] = todo[u]
  PROVE  InOrder(r)'
<1>1. CASE Midway(End[r]) = {} /\ Whole(got[r], wire[End[r]])
  BY <1>1 DEF InOrder
<1>2. CASE \E u \in Threads :
             Midway(End[r]) = {u} /\ Continues(got[r], wire[End[r]], todo[u][1])
  <2>1. PICK u \in Threads :
          Midway(End[r]) = {u} /\ Continues(got[r], wire[End[r]], todo[u][1])
    BY <1>2
  <2>2. todo'[u] = todo[u]
    BY <2>1
  <2>3. QED
    BY <2>1, <2>2 DEF InOrder
<1>3. QED
  BY <1>1, <1>2 DEF InOrder

(* Nothing has been sent.                                                  *)
LEMMA InitStepInv ==
  ASSUME Init
  PROVE  StepInv
<1> USE MessageAssumption DEF Init
<1>1. \A e \in Ends : Midway(e) = {}
  BY DEF Midway
<1>2. \A r \in Readers : got[r] = << >> /\ wire[End[r]] = << >> /\ tpc[r] = "idle"
  OBVIOUS
<1>3. \A r \in Readers : InOrder(r)
  BY <1>1, <1>2 DEF InOrder, AtPlace, Chained, Whole
<1>4. QED
  BY <1>3 DEF StepInv

(* write(SocketMessage) before its first send().                           *)
LEMMA StartWriteKeepsStep ==
  ASSUME MessageInv, StepInv, NEW t \in Threads, StartWrite(t)
  PROVE  StepInv'
<1> USE MessageAssumption DEF MessageInv, TypeOK
<1>0. PICK m \in unsent[t] : \E p \in {FALSE, MayPack(t, m)} :
        LET h == [msg |-> m, packed |-> p, announces |-> t \in Announces] IN
        todo' = [todo EXCEPT ![t] = Header(h) \o Body(h)]
  BY DEF StartWrite
<1>1. PICK packed \in {FALSE, MayPack(t, m)} :
        LET h == [msg |-> m, packed |-> packed, announces |-> t \in Announces] IN
        todo' = [todo EXCEPT ![t] = Header(h) \o Body(h)]
  BY <1>0
<1>2. /\ tpc[t] = "idle" /\ tpc' = [tpc EXCEPT ![t] = "write"]
      /\ UNCHANGED <<wire, got, disturbed>>
  BY DEF StartWrite
<1> DEFINE f == [msg |-> m, packed |-> packed, announces |-> t \in Announces]
           q == Header(f) \o Body(f)
<1>3. f \in Sound
  <2>1. m \in Messages
    BY <1>1
  <2>2. packed \in BOOLEAN /\ (packed => m \in Large)
    BY <1>1 DEF MayPack
  <2>3. QED
    BY <2>1, <2>2 DEF Sound, Frames
<1>4. todo' = [todo EXCEPT ![t] = q]
  BY <1>1
<1> HIDE DEF f
<1>5. Length(f) \in Nat /\ Length(f) >= 1 /\ Len(q) = Length(f)
      /\ \A i \in 1..Length(f) : q[i] = WordAt(f, i)
  BY <1>3, SoundLength, FrameIsWords
<1> HIDE DEF q
<1>6. RestOfFrame(q)
  <2>1. 0 \in 0..Length(f) - 1 /\ Len(q) = Length(f) - 0
    BY <1>5
  <2>2. \A i \in 1..Len(q) : q[i] = WordAt(f, 0 + i)
    BY <1>5
  <2>3. QED
    BY <1>3, <2>1, <2>2 DEF RestOfFrame
<1>7. q[1].what = "head" /\ q[1].part = 1
  <2>1. 1 \in 1..Length(f) /\ q[1] = WordAt(f, 1)
    BY <1>5
  <2>2. QED
    BY <1>3, <2>1, StartsFirst
<1>8. \A u \in Threads : todo'[u] = IF u = t THEN q ELSE todo[u]
  BY <1>4
<1>9. \A u \in Threads : tpc'[u] = IF u = t THEN "write" ELSE tpc[u]
  BY <1>2
<1>10. \A e : Midway(e)' = Midway(e)
  <2>1. Begins(t)' /\ \A u \in Threads \ {t} : Begins(u)' = Begins(u)
    BY <1>7, <1>8 DEF Begins
  <2>2. \A u \in Threads : tpc'[u] = "write" /\ ~Begins(u)' <=> tpc[u] = "write" /\ ~Begins(u)
    BY <1>2, <1>9, <2>1
  <2>3. QED
    BY <2>2 DEF Midway
<1>11. \A u \in Threads : todo'[u] # << >> => RestOfFrame(todo'[u])
  BY <1>6, <1>8 DEF StepInv
<1>12. ASSUME NEW r \in Readers, ~disturbed'[End[r]]
       PROVE  InOrder(r)'
  <2>1. InOrder(r) /\ r \in Threads
    BY <1>2, <1>12 DEF StepInv
  <2>2. AtPlace(tpc'[r], got[r])
    BY <1>9, <2>1 DEF InOrder, AtPlace
  <2>3. \A u \in Midway(End[r]) : todo'[u] = todo[u]
    BY <1>2, <1>8 DEF Midway
  <2>4. QED
    BY <1>2, <1>10, <2>1, <2>2, <2>3, NotConcerned
<1>13. QED
  BY <1>11, <1>12 DEF StepInv

(* send(), at the end it sends to and at the other.                        *)
LEMMA SendKeepsStep ==
  ASSUME MessageInv, StepInv, NEW t \in Threads, Send(t)
  PROVE  StepInv'
<1> USE MessageAssumption DEF MessageInv, TypeOK
<1> DEFINE e == Peer(t)
           q == todo[t]
<1>1. PICK n \in 1..Len(q) :
        /\ wire' = [wire EXCEPT ![e] = @ \o SubSeq(q, 1, n)]
        /\ todo' = [todo EXCEPT ![t] = SubSeq(@, n + 1, Len(@))]
        /\ tpc' = [tpc EXCEPT ![t] = IF n = Len(q) THEN "idle" ELSE "write"]
  BY DEF Send
<1>2. /\ tpc[t] = "write" /\ got' = got
      /\ disturbed' = [disturbed EXCEPT ![e] = @ \/ Mixes(t)]
  BY DEF Send
<1>3. e \in Ends /\ e # End[t] /\ q \in Seq(Word) /\ q # << >>
      /\ \A x \in Ends : x # End[t] => x = e
  BY <1>2, PeerIsOther
<1> DEFINE q2 == SubSeq(q, n + 1, Len(q))
<1>4. q2 \in Seq(Word) /\ Len(q2) = Len(q) - n /\ Len(q) \in Nat
  BY <1>3, Cut
<1>5. /\ \A x \in Ends : wire'[x] = IF x = e THEN wire[e] \o SubSeq(q, 1, n) ELSE wire[x]
      /\ \A u \in Threads : todo'[u] = IF u = t THEN q2 ELSE todo[u]
      /\ \A u \in Threads : tpc'[u] = IF u = t THEN IF n = Len(q) THEN "idle" ELSE "write"
                                       ELSE tpc[u]
  BY <1>1, <1>3
<1>6. RestOfFrame(q)
  BY <1>3 DEF StepInv
<1> HIDE DEF q2, q
<1>7. n # Len(q) => RestOfFrame(q2)
  BY <1>3, <1>6, RestOfRest DEF q2
<1>8. \A u \in Threads : todo'[u] # << >> => RestOfFrame(todo'[u])
  <2>1. n = Len(q) => q2 = << >>
    BY <1>4
  <2>2. QED
    BY <1>5, <1>7, <2>1 DEF StepInv
<1>9. ASSUME NEW r \in Readers, ~disturbed'[End[r]], End[r] # e
      PROVE  InOrder(r)'
  <2>1. End[r] \in Ends /\ ~disturbed[End[r]] /\ InOrder(r) /\ r \in Threads
    BY <1>2, <1>9 DEF StepInv
  <2>2. AtPlace(tpc'[r], got[r])
    BY <1>5, <2>1 DEF InOrder, AtPlace
  <2>3. Midway(End[r])' = Midway(End[r])
    BY <1>5, <1>9 DEF Midway, Begins
  <2>4. \A u \in Midway(End[r]) : todo'[u] = todo[u]
    BY <1>5, <1>9 DEF Midway
  <2>5. got'[r] = got[r] /\ wire'[End[r]] = wire[End[r]]
    BY <1>2, <1>5, <1>9, <2>1
  <2>6. QED
    BY <2>1, <2>2, <2>3, <2>4, <2>5, NotConcerned
<1>10. ASSUME NEW r \in Readers, ~disturbed'[End[r]], End[r] = e
       PROVE  InOrder(r)'
  <2>1. ~disturbed[e] /\ ~Mixes(t) /\ InOrder(r) /\ r \in Threads /\ r # t
    BY <1>2, <1>3, <1>10 DEF StepInv
  <2> DEFINE g == got[r]
             w == wire[e]
             w2 == w \o SubSeq(q, 1, n)
  <2>2. g \in Seq(Word) /\ w \in Seq(Word) /\ Chained(g, w)
    BY <1>3, <1>10, <2>1 DEF InOrder
  <2>3. \A u \in Threads : Peer(u) = e => End[u] = End[t]
    BY <1>3, PeerIsOther
  <2>4. \A u \in Threads : u # t /\ Peer(u) = e /\ tpc[u] = "write" => Begins(u)
    BY <2>1, <2>3 DEF Mixes
  <2>5. Midway(e) = IF Begins(t) THEN {} ELSE {t}
    BY <1>2, <2>4 DEF Midway
  <2>6. Continues(g, w, q[1])
    <3>1. CASE Begins(t)
      <4>1. Whole(g, w)
        BY <1>10, <2>1, <2>5, <3>1 DEF InOrder
      <4>2. q[1].what = "head" /\ q[1].part = 1
        BY <3>1 DEF Begins, q
      <4>3. Starts(q[1])
        <5>1. PICK f \in Sound : \E k \in 0..Length(f) - 1 :
                Len(q) = Length(f) - k /\ \A i \in 1..Len(q) : q[i] = WordAt(f, k + i)
          BY <1>6 DEF RestOfFrame
        <5>2. PICK k \in 0..Length(f) - 1 : q[1] = WordAt(f, k + 1)
          <6>1. 1 \in 1..Len(q)
            BY <1>4
          <6>2. QED
            BY <5>1, <6>1
        <5>3. k + 1 \in 1..Length(f)
          BY SoundLength
        <5>4. QED
          BY <4>2, <5>2, <5>3, StartsFirst
      <4>4. QED
        BY <4>1, <4>3 DEF Whole, Continues, Joins
    <3>2. CASE ~Begins(t)
      <4>1. Midway(e) = {t}
        BY <2>5, <3>2
      <4>2. PICK u \in Threads : Midway(e) = {u} /\ Continues(g, w, todo[u][1])
        BY <1>10, <2>1, <4>1 DEF InOrder
      <4>3. u = t
        BY <4>1, <4>2
      <4>4. QED
        BY <4>2, <4>3 DEF q
    <3>3. QED
      BY <3>1, <3>2
  <2>7. Sends(g, w, w2, q2)
    BY <1>3, <1>6, <2>2, <2>6, SendsWords DEF q2
  <2>13. q2 = << >> <=> n = Len(q)
    BY <1>4
  <2> HIDE DEF w2
  <2>8. got'[r] = g /\ wire'[End[r]] = w2 /\ tpc'[r] = tpc[r] /\ todo'[t] = q2
    BY <1>2, <1>3, <1>5, <1>10, <2>1 DEF w2
  <2>9. Midway(e)' = IF n = Len(q) THEN {} ELSE {t}
    <3>1. n # Len(q) => ~Begins(t)'
      BY <2>7, <2>8, <2>13 DEF Begins, Sends
    <3>2. \A u \in Threads \ {t} : Peer(u) = e /\ tpc'[u] = "write" => Begins(u)'
      BY <1>5, <2>4 DEF Begins
    <3>3. tpc'[t] = IF n = Len(q) THEN "idle" ELSE "write"
      BY <1>5
    <3>4. QED
      BY <3>1, <3>2, <3>3 DEF Midway
  <2>10. got[r] # << >> => PartOfFrame(got[r])
    BY <2>1 DEF InOrder
  <2>11. AtPlace(tpc[r], got[r])
    BY <2>1 DEF InOrder
  <2>12. QED
    BY <1>10, <2>7, <2>8, <2>9, <2>10, <2>11, <2>13 DEF InOrder, Sends
<1>11. QED
  BY <1>8, <1>9, <1>10 DEF StepInv

-----------------------------------------------------------------------------
(* What a reader that is in step has read, if it is all of what it wants.  *)
LEMMA ReadsFrame ==
  ASSUME MessageInv, NEW t \in Readers, InOrder(t), got[t] # << >>
  PROVE  /\ got[t][1].frame \in Sound
         /\ Len(got[t]) <= Length(got[t][1].frame)
         /\ \A i \in 1..Len(got[t]) : got[t][i] = WordAt(got[t][1].frame, i)
<1>1. PICK f \in Sound :
        Len(got[t]) <= Length(f) /\ \A i \in 1..Len(got[t]) : got[t][i] = WordAt(f, i)
  BY DEF InOrder, PartOfFrame
<1>2. got[t] \in Seq(Word)
  BY MessageAssumption DEF MessageInv, TypeOK
<1>3. 1 \in 1..Len(got[t])
  BY <1>2
<1>4. got[t][1].frame = f
  BY <1>1, <1>3, WordFields
<1>5. QED
  BY <1>1, <1>4

(* Sequences with the same elements.                                       *)
LEMMA SameWords ==
  ASSUME NEW p \in Seq(Word), NEW q \in Seq(Word), Len(p) = Len(q),
         \A i \in 1..Len(p) : p[i] = q[i]
  PROVE  p = q
OBVIOUS

(* A whole frame has been read, and the call returns it.                   *)
LEMMA AcceptKeepsStep ==
  ASSUME MessageInv, NEW t \in Readers, InOrder(t), tpc[t] \in Reading, got[t] # << >>,
         Len(got[t]) = Length(got[t][1].frame), Accepts(t, got[t][1].frame)
  PROVE  InOrder(t)' /\ delivered'[End[t]] # delivered[End[t]]
<1> DEFINE f == got[t][1].frame
           g == got[t]
           w == wire[End[t]]
<1>1. t \in Threads /\ End[t] \in Ends
  BY MessageAssumption
<1>2. g \in Seq(Word) /\ w \in Seq(Word)
  BY <1>1 DEF MessageInv, TypeOK
<1>3. /\ got' = [got EXCEPT ![t] = << >>] /\ tpc' = [tpc EXCEPT ![t] = "idle"]
      /\ UNCHANGED <<wire, todo>>
      /\ \E x : delivered' = [delivered EXCEPT ![End[t]] = Append(@, x)]
  BY DEF Accepts, Leaves, Goes
<1>4. got'[t] = << >> /\ tpc'[t] = "idle" /\ \A u \in Threads \ {t} : tpc'[u] = tpc[u]
  BY <1>1, <1>3 DEF MessageInv, TypeOK
<1>5. f \in Sound /\ \A i \in 1..Len(g) : g[i] = WordAt(f, i)
  BY ReadsFrame
<1>6. g[Len(g)] = WordAt(f, Length(f))
  <2>1. Len(g) \in 1..Len(g)
    BY <1>2
  <2>2. QED
    BY <1>5, <2>1
<1>7. /\ Chained(<< >>, w)
      /\ Whole(g, w) => Whole(<< >>, w)
      /\ \A x : Continues(g, w, x) => Continues(<< >>, w, x)
  <2>1. Chained(g, w)
    BY DEF InOrder
  <2> HIDE DEF f, g, w
  <2>2. g # << >> /\ Len(g) = Length(f)
    BY DEF f, g
  <2>3. QED
    BY <1>2, <1>5, <1>6, <2>1, <2>2, TakesFrame
<1>8. Midway(End[t])' = Midway(End[t])
  <2>1. \A u \in Threads : tpc'[u] = "write" <=> tpc[u] = "write"
    BY <1>4 DEF Reading
  <2>2. \A u \in Threads : Begins(u)' = Begins(u)
    BY <1>3 DEF Begins
  <2>3. QED
    BY <2>1, <2>2 DEF Midway
<1>9. InOrder(t)'
  <2>1. wire'[End[t]] = w
    BY <1>3
  <2>2. AtPlace(tpc'[t], << >>)
    BY <1>4 DEF AtPlace
  <2>3. CASE Midway(End[t]) = {} /\ Whole(g, w)
    BY <1>4, <1>7, <1>8, <2>1, <2>2, <2>3 DEF InOrder
  <2>4. CASE \E u \in Threads : Midway(End[t]) = {u} /\ Continues(g, w, todo[u][1])
    <3>1. PICK u \in Threads : Midway(End[t]) = {u} /\ Continues(g, w, todo[u][1])
      BY <2>4
    <3>2. todo' = todo /\ Continues(<< >>, w, todo[u][1])
      BY <1>3, <1>7, <3>1
    <3>3. QED
      BY <1>4, <1>7, <1>8, <2>1, <2>2, <3>1, <3>2 DEF InOrder
  <2>5. QED
    BY <2>3, <2>4 DEF InOrder
<1>10. delivered'[End[t]] # delivered[End[t]]
  <2>1. PICK x : delivered' = [delivered EXCEPT ![End[t]] = Append(@, x)]
    BY <1>3
  <2>2. delivered'[End[t]] = Append(delivered[End[t]], x)
    BY <1>1, <2>1 DEF MessageInv, TypeOK
  <2>3. \A S : \A q \in Seq(S) : Len(Append(q, x)) = Len(q) + 1 /\ Len(q) \in Nat
    OBVIOUS
  <2>4. delivered[End[t]] \in Seq([msg : Messages, payload : Seq(Word)])
    BY <1>1 DEF MessageInv, TypeOK
  <2>5. Len(delivered'[End[t]]) = Len(delivered[End[t]]) + 1 /\ Len(delivered[End[t]]) \in Nat
    BY <2>2, <2>3, <2>4
  <2>6. QED
    BY <2>5
<1>11. QED
  BY <1>9, <1>10

(* A step of t that changes nothing but what t itself is about to do.      *)
LEMMA GoesOnKeepsStep ==
  ASSUME MessageInv, NEW t \in Readers, InOrder(t), tpc[t] \in Reading \cup {"idle"},
         NEW pc \in Reading, Goes(t, pc), AtPlace(pc, got[t]), UNCHANGED <<wire, got, todo>>
  PROVE  InOrder(t)' /\ tpc'[t] # "idle"
<1>1. t \in Threads
  BY MessageAssumption
<1>2. tpc'[t] = pc /\ \A u \in Threads \ {t} : tpc'[u] = tpc[u]
  BY <1>1 DEF Goes, MessageInv, TypeOK
<1>3. \A u \in Threads : tpc'[u] = "write" <=> tpc[u] = "write"
  BY <1>2 DEF Reading
<1>4. \A u \in Threads : Begins(u)' = Begins(u)
  BY DEF Begins
<1>5. Midway(End[t])' = Midway(End[t])
  BY <1>3, <1>4 DEF Midway
<1>6. InOrder(t)'
  BY <1>2, <1>5, NotConcerned
<1>7. QED
  BY <1>2, <1>6 DEF Reading

(* readLoop.                                                               *)
LEMMA ReadKeepsStep ==
  ASSUME MessageInv, NEW t \in Readers, InOrder(t), readLoop(t)
  PROVE  InOrder(t)' /\ tpc'[t] # "idle"
<1> DEFINE g == got[t]
           w == wire[End[t]]
<1>1. t \in Threads /\ End[t] \in Ends
  BY MessageAssumption
<1>2. g \in Seq(Word) /\ w \in Seq(Word) /\ w # << >> /\ Len(g) \in Nat
  BY <1>1 DEF MessageInv, TypeOK, readLoop
<1>3. tpc[t] \in Reading /\ Len(g) < Wanted(t) /\ UNCHANGED <<tpc, todo>>
  BY DEF readLoop
<1>4. got'[t] = Append(g, w[1]) /\ wire'[End[t]] = Tail(w)
  <2>1. /\ got' = [got EXCEPT ![t] = Append(@, Head(wire[End[t]]))]
        /\ wire' = [wire EXCEPT ![End[t]] = Tail(@)]
    BY DEF readLoop
  <2>2. Head(w) = w[1]
    BY <1>2
  <2>3. QED
    BY <1>1, <2>1, <2>2 DEF MessageInv, TypeOK
<1>5. ASSUME g # << >>
      PROVE  Len(g) < Length(g[1].frame)
  <2>1. g[1].frame \in Sound
    BY <1>5, ReadsFrame
  <2>2. Length(g[1].frame) \in Nat /\ Length(g[1].frame) >= HeadWords + 1 /\ HeadWords \in Nat
    BY <2>1, SoundLength
  <2>3. Wanted(t) <= Length(g[1].frame)
    BY <1>3, <2>2 DEF Wanted, Length, Reading
  <2>4. Wanted(t) \in Int
    BY <1>3, <2>2 DEF Wanted, Length, Reading
  <2>5. QED
    BY <1>2, <1>3, <2>2, <2>3, <2>4
<1>6. g # << >> => PartOfFrame(g)
  BY DEF InOrder
<1>7. Chained(g, w)
  BY DEF InOrder
<1>8. AtPlace(tpc[t], Append(g, w[1]))
  <2>1. Len(Append(g, w[1])) = Len(g) + 1 /\ HeadWords \in Nat
    BY <1>2, MessageAssumption
  <2>2. QED
    BY <1>2, <1>3, <2>1 DEF AtPlace, Wanted
<1> DEFINE g2 == Append(g, w[1])
           w2 == Tail(w)
<1>9. /\ PartOfFrame(g2)
      /\ Chained(g2, w2)
      /\ Whole(g, w) => Whole(g2, w2)
      /\ \A x : Continues(g, w, x) => Continues(g2, w2, x)
  <2> HIDE DEF g, w
  <2>1. QED
    BY <1>2, <1>5, <1>6, <1>7, TakesWord
<1>10. Midway(End[t])' = Midway(End[t])
  BY <1>3 DEF Midway, Begins
<1>11. InOrder(t)'
  <2>1. AtPlace(tpc'[t], g2)
    BY <1>3, <1>8
  <2>2. CASE Midway(End[t]) = {} /\ Whole(g, w)
    BY <1>4, <1>9, <1>10, <2>1, <2>2 DEF InOrder
  <2>3. CASE \E u \in Threads : Midway(End[t]) = {u} /\ Continues(g, w, todo[u][1])
    <3>1. PICK u \in Threads : Midway(End[t]) = {u} /\ Continues(g, w, todo[u][1])
      BY <2>3
    <3>2. todo' = todo /\ Continues(g2, w2, todo[u][1])
      BY <1>3, <1>9, <3>1
    <3>3. QED
      BY <1>4, <1>9, <1>10, <2>1, <3>1, <3>2 DEF InOrder
  <2>4. QED
    BY <2>2, <2>3 DEF InOrder
<1>12. QED
  BY <1>3, <1>11 DEF Reading

(* waitForMessage of a reader that is in step goes on, or returns a frame. *)
LEMMA ReceiveInStep ==
  ASSUME MessageInv, NEW t \in Readers, InOrder(t), Receive(t)
  PROVE  InOrder(t)' /\ (tpc[t] \in Reading /\ tpc'[t] = "idle" =>
                           delivered'[End[t]] # delivered[End[t]])
<1> DEFINE f == got[t][1].frame
<1>1. t \in Threads /\ got[t] \in Seq(Word) /\ HeadWords \in Nat /\ HeadWords >= 1
  BY MessageAssumption DEF MessageInv, TypeOK
<1>2. tpc[t] \in {"more", "body"} => got[t] # << >>
  BY <1>1 DEF MessageInv, ReaderInv
<1>3. ASSUME got[t] # << >>
      PROVE  /\ f \in Sound /\ Len(got[t]) <= Length(f)
             /\ \A i \in 1..Len(got[t]) : got[t][i] = WordAt(f, i)
             /\ 1 \in 1..Len(got[t])
             /\ f \in Frames /\ BodySize(f) \in Nat
             /\ Length(f) = HeadWords + 1 + BodySize(f)
  BY <1>1, <1>3, ReadsFrame, SoundLength DEF Length
<1> HIDE DEF f
<1>4. CASE waitForMessage(t)
  <2>1. got[t] = << >> /\ tpc[t] = "idle"
    BY <1>1, <1>4 DEF waitForMessage, MessageInv, TypeOK, Reading
  <2>2. AtPlace("head", got[t])
    BY <1>1, <2>1 DEF AtPlace
  <2>3. Goes(t, "head") /\ UNCHANGED <<wire, got, todo>>
    BY <1>4 DEF waitForMessage
  <2>4. InOrder(t)' /\ tpc'[t] # "idle"
    BY <2>1, <2>2, <2>3, GoesOnKeepsStep DEF Reading
  <2>5. QED
    BY <2>4
<1>5. CASE readLoop(t)
  BY <1>5, ReadKeepsStep
<1>6. CASE ReadVersion(t)
  <2>1. tpc[t] = "head" /\ Len(got[t]) = HeadWords
    BY <1>6 DEF ReadVersion, Complete, Wanted
  <2>2. got[t] # << >>
    BY <1>1, <2>1
  <2>3. got[t][1] = Header(f)[1]
    <3>1. got[t][1] = WordAt(f, 1) /\ 1 \in 1..HeadWords + 1
      BY <1>1, <1>3, <2>2
    <3>2. QED
      BY <1>3, <2>2, <3>1, FrameIsWords
  <2>4. Goes(t, "more") /\ UNCHANGED <<wire, got, todo>>
    BY <1>6, <2>3 DEF ReadVersion, f
  <2>5. AtPlace("more", got[t])
    BY <1>1, <2>1 DEF AtPlace
  <2>6. InOrder(t)' /\ tpc'[t] # "idle"
    BY <2>1, <2>4, <2>5, GoesOnKeepsStep DEF Reading
  <2>7. QED
    BY <2>6
<1>7. CASE readFromPacketHeader(t)
  <2>1. tpc[t] = "more" /\ Len(got[t]) = HeadWords + 1
    BY <1>7 DEF readFromPacketHeader, Complete, Wanted
  <2>2. got[t] # << >>
    BY <1>2, <2>1
  <2>3. got[t] = Header(f)
    <3>1. Header(f) \in Seq(Word) /\ Len(Header(f)) = HeadWords + 1
      BY <1>3, <2>2, FrameWords
    <3>2. \A i \in 1..Len(got[t]) : got[t][i] = Header(f)[i]
      BY <1>3, <2>1, <2>2, FrameIsWords
    <3>3. QED
      BY <1>1, <2>1, <3>1, <3>2, SameWords
  <2>4. CASE BodySize(f) = 0
    <3>1. Accepts(t, f)
      BY <1>7, <2>3, <2>4 DEF readFromPacketHeader, f
    <3>2. Len(got[t]) = Length(f)
      BY <1>1, <1>3, <2>1, <2>2, <2>4
    <3>3. QED
      BY <2>1, <2>2, <3>1, <3>2, AcceptKeepsStep DEF f, Reading
  <2>5. CASE BodySize(f) # 0
    <3>1. Goes(t, "body") /\ UNCHANGED <<wire, got, todo>>
      BY <1>7, <2>3, <2>5 DEF readFromPacketHeader, f
    <3>2. AtPlace("body", got[t])
      BY DEF AtPlace
    <3>3. InOrder(t)' /\ tpc'[t] # "idle"
      BY <2>1, <3>1, <3>2, GoesOnKeepsStep DEF Reading
    <3>4. QED
      BY <3>3
  <2>6. QED
    BY <2>4, <2>5
<1>8. CASE ReadPayload(t)
  <2>1. tpc[t] = "body" /\ Len(got[t]) = HeadWords + 1 + BodySize(f)
    BY <1>8 DEF ReadPayload, Complete, Wanted, f
  <2>2. got[t] # << >>
    BY <1>2, <2>1
  <2>3. Len(got[t]) = Length(f)
    BY <1>3, <2>1, <2>2
  <2>4. got[t] = Header(f) \o Body(f)
    <3>1. PICK s : s = Header(f) \o Body(f)
      OBVIOUS
    <3>2. s \in Seq(Word) /\ Len(s) = Length(f) /\ \A i \in 1..Length(f) : s[i] = WordAt(f, i)
      BY <1>3, <2>2, <3>1, WholeFrame, FrameIsWords
    <3>3. \A i \in 1..Len(got[t]) : got[t][i] = s[i]
      BY <1>3, <2>2, <2>3, <3>2
    <3>4. got[t] = s
      BY <1>1, <2>3, <3>2, <3>3, SameWords
    <3>5. QED
      BY <3>1, <3>4
  <2>5. Accepts(t, f)
    BY <1>8, <2>4 DEF ReadPayload, f
  <2>6. QED
    BY <2>1, <2>2, <2>3, <2>5, AcceptKeepsStep DEF f, Reading
<1>9. QED
  BY <1>4, <1>5, <1>6, <1>7, <1>8 DEF Receive

(* What waitForMessage leaves alone.                                       *)
LEMMA ReceiveEffect ==
  ASSUME MessageInv, NEW t \in Threads, Receive(t) \/ Abort(t)
  PROVE  /\ t \in Readers /\ todo' = todo
         /\ Receive(t) => disturbed' = disturbed
         /\ tpc[t] # "write" /\ tpc'[t] # "write"
         /\ \A u \in Threads \ {t} : tpc'[u] = tpc[u] /\ got'[u] = got[u]
         /\ \A e \in Ends \ {End[t]} : wire'[e] = wire[e]
<1> USE DEF MessageInv, TypeOK, ReaderInv, Goes, Leaves, Fails, Accepts, Reading
<1>1. CASE waitForMessage(t)
  BY <1>1 DEF waitForMessage
<1>2. CASE readLoop(t)
  BY <1>2 DEF readLoop
<1>3. CASE ReadVersion(t)
  BY <1>3 DEF ReadVersion
<1>4. CASE readFromPacketHeader(t)
  BY <1>4 DEF readFromPacketHeader
<1>5. CASE ReadPayload(t)
  BY <1>5 DEF ReadPayload
<1>6. CASE Abort(t)
  <2>1. tpc[t] \in Reading /\ todo' = todo /\ wire' = wire
    BY <1>6 DEF Abort
  <2>2. tpc' = [tpc EXCEPT ![t] = "idle"] /\ got' = [got EXCEPT ![t] = << >>]
    BY <1>6 DEF Abort
  <2>3. t \in Readers /\ tpc[t] # "write" /\ tpc'[t] # "write"
    BY <2>1, <2>2
  <2>4. \A u \in Threads \ {t} : tpc'[u] = tpc[u] /\ got'[u] = got[u]
    BY <2>2
  <2>5. Receive(t) => disturbed' = disturbed
    BY DEF Receive, waitForMessage, readLoop, ReadVersion,
       readFromPacketHeader, ReadPayload
  <2>6. QED
    BY <2>1, <2>3, <2>4, <2>5
<1>7. QED
  BY <1>1, <1>2, <1>3, <1>4, <1>5, <1>6 DEF Receive

(* waitForMessage, at the end of the caller and at the other.              *)
LEMMA ReceiveKeepsStep ==
  ASSUME MessageInv, StepInv, NEW t \in Threads, Receive(t) \/ Abort(t)
  PROVE  StepInv'
<1>1. /\ t \in Readers /\ todo' = todo
      /\ Receive(t) => disturbed' = disturbed
      /\ tpc[t] # "write" /\ tpc'[t] # "write"
      /\ \A u \in Threads \ {t} : tpc'[u] = tpc[u] /\ got'[u] = got[u]
      /\ \A e \in Ends \ {End[t]} : wire'[e] = wire[e]
  BY ReceiveEffect
<1>2. Abort(t) => disturbed' = [disturbed EXCEPT ![End[t]] = TRUE]
  BY DEF Abort
<1>3. \A e : Midway(e)' = Midway(e)
  <2>1. \A u \in Threads : tpc'[u] = "write" <=> tpc[u] = "write"
    BY <1>1
  <2>2. \A u \in Threads : Begins(u)' = Begins(u)
    BY <1>1 DEF Begins
  <2>3. QED
    BY <2>1, <2>2 DEF Midway
<1>4. ASSUME NEW r \in Readers, ~disturbed'[End[r]]
      PROVE  InOrder(r)'
  <2>1. r \in Threads /\ End[r] \in Ends
    BY MessageAssumption
  <2>2. ~disturbed[End[r]]
    BY <1>1, <1>2, <1>4, <2>1 DEF MessageInv, TypeOK
  <2>3. InOrder(r)
    BY <2>2 DEF StepInv
  <2>4. CASE r # t
    <3>1. End[r] # End[t]
      BY <1>1, <2>4, MessageAssumption
    <3>2. got'[r] = got[r] /\ wire'[End[r]] = wire[End[r]] /\ tpc'[r] = tpc[r]
      BY <1>1, <2>1, <2>4, <3>1
    <3>3. AtPlace(tpc'[r], got[r])
      BY <2>3, <3>2 DEF InOrder
    <3>4. QED
      BY <1>1, <1>3, <2>3, <3>2, <3>3, NotConcerned
  <2>5. CASE r = t
    <3>1. ~Abort(t)
      BY <1>2, <1>4, <2>1, <2>5 DEF MessageInv, TypeOK
    <3>2. QED
      BY <2>3, <2>5, <3>1, ReceiveInStep
  <2>6. QED
    BY <2>4, <2>5
<1>5. QED
  BY <1>1, <1>4 DEF StepInv

(* Every step keeps the two ends in step.                                  *)
LEMMA NextKeepsStep == MessageInv /\ StepInv /\ [Next]_vars => StepInv'
<1> SUFFICES ASSUME MessageInv, StepInv, [Next]_vars
             PROVE  StepInv'
  OBVIOUS
<1>1. CASE UNCHANGED vars
  BY <1>1 DEF vars, reading, StepInv, InOrder, Midway, Begins
<1>2. ASSUME NEW t \in Threads, StartWrite(t)
      PROVE  StepInv'
  BY <1>2, StartWriteKeepsStep
<1>3. ASSUME NEW t \in Threads, Send(t)
      PROVE  StepInv'
  BY <1>3, SendKeepsStep
<1>4. ASSUME NEW t \in Threads, Receive(t) \/ Abort(t)
      PROVE  StepInv'
  BY <1>4, ReceiveKeepsStep
<1>5. QED
  BY <1>1, <1>2, <1>3, <1>4 DEF Next

(* As long as nothing to it was cut off or mixed, what a reader has read   *)
(* and what is on its way are whole frames, one after the other, and the   *)
(* part of one that a thread is in the middle of.                          *)
THEOREM StepInvariant == Spec => []StepInv
<1>1. QED
  BY InitStepInv, NextKeepsStep, MessageInvariant, PTL DEF Spec

(* Then waitForMessage refuses nothing: it ends by returning a message.    *)
THEOREM InStepHolds == Spec => InStep
<1> DEFINE Returned ==
      \A t \in Readers :
        tpc[t] \in Reading /\ tpc'[t] = "idle" /\ ~disturbed'[End[t]]
          => delivered'[End[t]] # delivered[End[t]]
<1>1. MessageInv /\ StepInv /\ [Next]_vars => [Returned]_vars
  <2> SUFFICES ASSUME MessageInv, StepInv, Next, NEW r \in Readers,
                      tpc[r] \in Reading, tpc'[r] = "idle", ~disturbed'[End[r]]
               PROVE  delivered'[End[r]] # delivered[End[r]]
    OBVIOUS
  <2>1. r \in Threads /\ End[r] \in Ends /\ tpc[r] # "idle" /\ tpc[r] # "write"
    BY MessageAssumption DEF Reading
  <2>2. ASSUME NEW t \in Threads, StartWrite(t) \/ Send(t)
        PROVE  FALSE
    <3>1. tpc[t] \in {"idle", "write"} /\ \A u \in Threads \ {t} : tpc'[u] = tpc[u]
      BY <2>2 DEF StartWrite, Send, MessageInv, TypeOK
    <3>2. QED
      BY <2>1, <3>1
  <2>3. ASSUME NEW t \in Threads, Receive(t) \/ Abort(t)
        PROVE  delivered'[End[r]] # delivered[End[r]]
    <3>1. t = r
      BY <2>1, <2>3, ReceiveEffect
    <3>2. ~Abort(t)
      BY <2>1, <3>1 DEF Abort, MessageInv, TypeOK
    <3>3. ~disturbed[End[r]]
      BY <2>3, <3>1, <3>2, ReceiveEffect
    <3>4. InOrder(r)
      BY <3>3 DEF StepInv
    <3>5. QED
      BY <2>3, <3>1, <3>2, <3>4, ReceiveInStep
  <2>4. QED
    BY <2>2, <2>3 DEF Next
<1>2. QED
  BY <1>1, MessageInvariant, StepInvariant, PTL DEF Spec, InStep

=============================================================================
