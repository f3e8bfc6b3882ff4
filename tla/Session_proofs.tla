--------------------------- MODULE Session_proofs ---------------------------
(***************************************************************************)
(* Proofs about Session and HandlerMemory, for every set of buffers, and   *)
(* whichever operations are too large for the blocks.  The inductive       *)
(* invariant has four parts besides the properties themselves: a session   *)
(* that is not live is quiet; nothing is sent before the handshake is      *)
(* over, so the policy file has the socket for itself; the outstanding     *)
(* write is that of the front of m_datas, and a queue without one has      *)
(* failed; and what was sent is what is on the wire, then what m_datas     *)
(* still has to write, then what is posted.  The memory adds that every    *)
(* outstanding read has its memory and no other read has any.              *)
(***************************************************************************)
EXTENDS HandlerMemory, SequenceTheorems, TLAPS

Quiet ==
  life # "live" =>
    /\ rd = "none" /\ ops = {} /\ posted = <<>> /\ sending = {}
    /\ link = "none" \/ (life = "destroyed" /\ link = "out")

\* Nobody has sent yet.
Fresh == link = "none" /\ sending = {} /\ posted = <<>> /\ datas = <<>>

HandshakeInv ==
  /\ rd \in {"flow", "policy"} => Fresh /\ ops = {}
  /\ \A op \in ops : op.buf = PolicyFile => Fresh /\ rd = "none"

FrontInv == \A op \in ops : op.buf # PolicyFile => datas # <<>> /\ op.buf = Head(datas)

FailInv ==
  /\ \A op \in ops : op.result = "error" => peer = "down"
  /\ life = "live" /\ datas # <<>> /\ ops = {} => peer = "down"

\* What m_datas still has to write.
Unwritten ==
  IF \E op \in ops : op.buf # PolicyFile /\ op.result = "ok" THEN Tail(datas) ELSE datas

Order == life = "live" => sent = wire \o (Unwritten \o posted)

Control == TypeOK /\ Quiet /\ OneWrite /\ LinkedIsRead /\ HandshakeInv /\ FrontInv /\ FailInv
IInv == Control /\ Order

-----------------------------------------------------------------------------
LEMMA HeadTailSplit ==
  ASSUME NEW S, NEW p \in Seq(S), p # <<>>
  PROVE  p = <<Head(p)>> \o Tail(p)
  <1>1. Head(p) = p[1] /\ Head(p) \in S /\ Tail(p) \in Seq(S) /\ Len(p) \in Nat \ {0}
        /\ Len(Tail(p)) = Len(p) - 1 /\ \A i \in 1..Len(Tail(p)) : Tail(p)[i] = p[i + 1]
    BY HeadTailProperties, EmptySeq
  <1>2. <<Head(p)>> \in Seq(S) /\ Len(<<Head(p)>>) = 1 /\ <<Head(p)>>[1] = Head(p)
    BY <1>1
  <1>3. /\ <<Head(p)>> \o Tail(p) \in Seq(S)
        /\ Len(<<Head(p)>> \o Tail(p)) = Len(p)
        /\ \A i \in 1..Len(p) : (<<Head(p)>> \o Tail(p))[i] = p[i]
    BY <1>1, <1>2, ConcatProperties
  <1> QED
    BY <1>3, SeqEqual

LEMMA InitIInv == Init => IInv
  <1> SUFFICES ASSUME Init PROVE IInv
    OBVIOUS
  <1> USE SessionAssumption DEF Init
  <1>1. Control
    BY DEF Control, TypeOK, Quiet, OneWrite, LinkedIsRead, HandshakeInv, FrontInv, FailInv
  <1>2. Order
    BY DEF Order
  <1> QED
    BY <1>1, <1>2 DEF IInv

-----------------------------------------------------------------------------
\* Each part of the invariant, step by step.  The cases name the actions that
\* touch the part's variables.

ReadHandlers == FlowHandler \/ HeaderHandler \/ BodyHandler \/ PacketHandled \/ LoginHandled
Network == Disconnect \/ ReadOk \/ ReadFails
Sends == \E b \in Buffers \cup {InvalidBuffer} : SendLock(b) \/ SendBuffer(b)

\* The actions in the groups the proofs use.
LEMMA NextCases ==
  Next <=> \/ Start \/ AcceptFails \/ Release \/ StartAccept
           \/ Network \/ WriteCompletes
           \/ ReadHandlers \/ PolicyHandler \/ UserCloses
           \/ Sends \/ DoWrite \/ HandleWrite \/ HandleWritePolicy
  BY DEF Next, Handlers, ReadHandlers, Network, Sends

\* What the read handlers and the network leave alone.
LEMMA ReadSide ==
  ASSUME ReadHandlers \/ Network
  PROVE  UNCHANGED <<life, sending, posted, datas, ops, sent, wire>>
  BY DEF ReadHandlers, Network, FlowHandler, HeaderHandler, BodyHandler, PacketHandled,
         LoginHandled, Disconnect, ReadOk, ReadFails, writeVars

\* A queued write that completed without an error: what its handler does.
LEMMA NextWrite ==
  ASSUME TypeOK, OneWrite, FrontInv, NEW op \in ops, op.buf # PolicyFile, op.result = "ok",
         datas' = Tail(datas),
         ops' = (ops \ {op}) \cup (IF datas' = <<>> THEN {} ELSE {Write(Head(datas'))})
  PROVE  /\ datas' \in Seq(Buffers)
         /\ datas' = <<>> => ops' = {}
         /\ datas' # <<>> => ops' = {Write(Head(datas'))} /\ Head(datas') \in Buffers
  <1>1. datas \in Seq(Buffers) /\ datas # <<>>
    BY DEF TypeOK, FrontInv
  <1>2. datas' \in Seq(Buffers)
    BY <1>1, HeadTailProperties
  <1>3. datas' # <<>> => Head(datas') \in Buffers
    BY <1>2, HeadTailProperties
  <1>4. ops \ {op} = {}
    BY DEF OneWrite
  <1> QED
    BY <1>2, <1>3, <1>4

\* Writing the front moves it from the queue to the wire.
LEMMA Advance ==
  ASSUME NEW w \in Seq(Buffers), NEW d \in Seq(Buffers), NEW p \in Seq(Buffers), d # <<>>
  PROVE  w \o (d \o p) = Append(w, Head(d)) \o (Tail(d) \o p)
  <1>1. Head(d) \in Buffers /\ Tail(d) \in Seq(Buffers) /\ <<Head(d)>> \in Seq(Buffers)
    BY HeadTailProperties
  <1>2. d \o p = <<Head(d)>> \o (Tail(d) \o p)
    <2>1. d = <<Head(d)>> \o Tail(d)
      BY HeadTailSplit
    <2>2. (<<Head(d)>> \o Tail(d)) \o p = <<Head(d)>> \o (Tail(d) \o p)
      BY <1>1, ConcatAssociative
    <2> QED
      BY <2>1, <2>2
  <1>3. Tail(d) \o p \in Seq(Buffers)
    BY <1>1, ConcatProperties
  <1>4. w \o (<<Head(d)>> \o (Tail(d) \o p)) = (w \o <<Head(d)>>) \o (Tail(d) \o p)
    <2>1. \A v \in Seq(Buffers) : w \o (<<Head(d)>> \o v) = (w \o <<Head(d)>>) \o v
      BY <1>1, ConcatAssociative, SMTT(20)
    <2> QED
      BY <1>3, <2>1
  <1>5. Append(w, Head(d)) = w \o <<Head(d)>>
    BY <1>1, AppendIsConcat
  <1> QED
    BY <1>2, <1>4, <1>5

\* A buffer posted comes last.
LEMMA Extend ==
  ASSUME NEW w \in Seq(Buffers), NEW u \in Seq(Buffers), NEW p \in Seq(Buffers),
         NEW b \in Buffers
  PROVE  Append(w \o (u \o p), b) = w \o (u \o Append(p, b))
  <1>1. <<b>> \in Seq(Buffers) /\ u \o p \in Seq(Buffers) /\ w \o (u \o p) \in Seq(Buffers)
    BY ConcatProperties
  <1>2. Append(w \o (u \o p), b) = (w \o (u \o p)) \o <<b>>
    BY <1>1, AppendIsConcat
  <1>3. (w \o (u \o p)) \o <<b>> = w \o ((u \o p) \o <<b>>)
    <2>1. \A v \in Seq(Buffers) : (w \o v) \o <<b>> = w \o (v \o <<b>>)
      BY <1>1, ConcatAssociative, SMTT(20)
    <2> QED
      BY <1>1, <2>1
  <1>4. (u \o p) \o <<b>> = u \o (p \o <<b>>)
    BY <1>1, ConcatAssociative
  <1>5. p \o <<b>> = Append(p, b)
    BY AppendIsConcat
  <1> QED
    BY <1>2, <1>3, <1>4, <1>5

\* The front of the queue is the buffer that was sent after those on the wire.
LEMMA NextSent ==
  ASSUME NEW w \in Seq(Buffers), NEW d \in Seq(Buffers), NEW p \in Seq(Buffers), d # <<>>
  PROVE  /\ Len(w) < Len(w \o (d \o p))
         /\ (w \o (d \o p))[Len(w) + 1] = Head(d)
  <1>1. Len(w) \in Nat /\ Len(p) \in Nat /\ Len(d) \in Nat \ {0} /\ Head(d) = d[1]
    BY EmptySeq, LenProperties
  <1>2. /\ d \o p \in Seq(Buffers) /\ Len(d \o p) = Len(d) + Len(p)
        /\ (d \o p)[1] = d[1]
    BY <1>1, ConcatProperties
  <1> QED
    BY <1>1, <1>2, ConcatProperties

LEMMA TypeStep ==
  ASSUME Control, Next
  PROVE  TypeOK'
  <1> USE SessionAssumption DEF TypeOK
  <1>0. TypeOK
    BY DEF Control
  <1>1. CASE Start \/ AcceptFails \/ Release \/ StartAccept \/ Network \/ UserCloses
    <2>1. CASE Start
      BY <1>0, <2>1, EmptySeq DEF Start, StartRead
    <2>2. CASE AcceptFails \/ Release
      BY <1>0, <2>2 DEF AcceptFails, Release, HandlerError, readVars, writeVars
    <2>3. CASE StartAccept
      BY <1>0, <2>3, EmptySeq DEF StartAccept, readVars
    <2>4. CASE Network
      BY <1>0, <2>4 DEF Network, Disconnect, ReadOk, ReadFails, readVars, writeVars
    <2>5. CASE UserCloses
      BY <1>0, <2>5 DEF UserCloses, readVars, writeVars
    <2> QED
      BY <1>1, <2>1, <2>2, <2>3, <2>4, <2>5
  <1>2. CASE ReadHandlers
    BY <1>0, <1>2 DEF ReadHandlers, FlowHandler, HeaderHandler, BodyHandler, PacketHandled,
       LoginHandled, Received, StartRead, EndRead, HandlerError, writeVars
  <1>3. CASE PolicyHandler
    BY <1>0, <1>3 DEF PolicyHandler, EndRead, HandlerError, Write
  <1>4. CASE WriteCompletes
    <2>1. PICK op \in ops : WriteCompletes!(op)
      BY <1>4 DEF WriteCompletes
    <2>2. wire' \in Seq(Buffers)
      BY <1>0, <2>1, AppendProperties
    <2>3. ops' \subseteq [buf : Buffers \cup {PolicyFile}, result : {"waiting", "ok", "error"}]
      BY <1>0, <2>1
    <2> QED
      BY <1>0, <2>1, <2>2, <2>3 DEF readVars
  <1>5. ASSUME NEW b \in Buffers \cup {InvalidBuffer}, SendLock(b) PROVE TypeOK'
    BY <1>0, <1>5 DEF SendLock, readVars
  <1>6. ASSUME NEW b \in Buffers \cup {InvalidBuffer}, SendBuffer(b) PROVE TypeOK'
    <2>1. posted' \in Seq(Buffers) /\ sent' \in Seq(Buffers)
      <3>1. CASE b = InvalidBuffer
        BY <1>0, <1>6, <3>1 DEF SendBuffer
      <3>2. CASE b \in Buffers
        <4>1. Append(posted, b) \in Seq(Buffers) /\ Append(sent, b) \in Seq(Buffers)
          BY <1>0, <3>2, AppendProperties
        <4> QED
          BY <1>6, <3>2, <4>1 DEF SendBuffer
      <3> QED
        BY <3>1, <3>2
    <2> QED
      BY <1>0, <1>6, <2>1 DEF SendBuffer, readVars
  <1>7. CASE DoWrite
    <2>1. Head(posted) \in Buffers /\ posted' \in Seq(Buffers)
      BY <1>0, <1>7, HeadTailProperties DEF DoWrite
    <2>2. datas' \in Seq(Buffers)
      BY <1>0, <1>7, <2>1, AppendProperties DEF DoWrite
    <2> QED
      BY <1>0, <1>7, <2>1, <2>2 DEF DoWrite, readVars, Write
  <1>8. CASE HandleWrite
    <2>1. PICK op \in ops : HandleWrite!(op)
      BY <1>8 DEF HandleWrite
    <2>2. CASE op.result = "ok"
      <3>1. datas' \in Seq(Buffers)
        BY <2>1, <2>2, NextWrite DEF Control
      <3>2. ops' \subseteq [buf : Buffers \cup {PolicyFile}, result : {"waiting", "ok", "error"}]
        BY <2>1, <2>2, NextWrite DEF Control, Write
      <3> QED
        BY <1>0, <2>1, <2>2, <3>1, <3>2 DEF readVars
    <2>3. CASE op.result = "error"
      BY <1>0, <2>1, <2>3 DEF readVars, HandlerError
    <2> QED
      BY <2>1, <2>2, <2>3
  <1>9. CASE HandleWritePolicy
    BY <1>0, <1>9 DEF HandleWritePolicy, HandlerError, readVars
  <1> QED
    BY <1>1, <1>2, <1>3, <1>4, <1>5, <1>6, <1>7, <1>8, <1>9, NextCases DEF Sends

LEMMA QuietStep ==
  ASSUME Control, Next
  PROVE  Quiet'
  <1> USE DEF Quiet
  <1>0. Quiet /\ TypeOK
    BY DEF Control
  <1>1. CASE Start \/ AcceptFails \/ Release \/ StartAccept
    <2>1. CASE Start
      BY <2>1 DEF Start
    <2>2. CASE AcceptFails
      BY <1>0, <2>2 DEF AcceptFails, readVars, writeVars
    <2>3. CASE Release
      BY <1>0, <2>3 DEF Release, Referenced, HandlerError, Control, LinkedIsRead, TypeOK,
         readVars, writeVars
    <2>4. CASE StartAccept
      BY <1>0, <2>4 DEF StartAccept, readVars
    <2> QED
      BY <1>1, <2>1, <2>2, <2>3, <2>4
  <1>2. CASE Network \/ UserCloses
    BY <1>0, <1>2 DEF Network, Disconnect, ReadOk, ReadFails, UserCloses, readVars, writeVars
  <1>3. CASE ReadHandlers \/ PolicyHandler
    <2>1. rd # "none" /\ life' = life
      BY <1>3 DEF ReadHandlers, FlowHandler, HeaderHandler, BodyHandler, PacketHandled,
         LoginHandled, PolicyHandler
    <2> QED
      BY <1>0, <2>1
  <1>4. CASE WriteCompletes \/ HandleWrite \/ HandleWritePolicy
    BY <1>0, <1>4 DEF WriteCompletes, HandleWrite, HandleWritePolicy
  <1>5. CASE Sends
    BY <1>0, <1>5 DEF Sends, SendLock, SendBuffer
  <1>6. CASE DoWrite
    BY <1>0, <1>6 DEF DoWrite
  <1> QED
    BY <1>1, <1>2, <1>3, <1>4, <1>5, <1>6, NextCases

\* While a data write is outstanding the queue is not empty, and before the
\* handshake is over nothing is posted, so no write starts beside another.
LEMMA OneWriteStep ==
  ASSUME Control, Next
  PROVE  OneWrite'
  <1> USE DEF OneWrite
  <1>0. OneWrite
    BY DEF Control
  <1>1. CASE UNCHANGED ops
    BY <1>0, <1>1
  <1>2. CASE WriteCompletes \/ HandleWritePolicy
    BY <1>0, <1>2 DEF WriteCompletes, HandleWritePolicy
  <1>3. CASE PolicyHandler
    BY <1>0, <1>3 DEF PolicyHandler, Control, HandshakeInv
  <1>4. CASE DoWrite
    <2>1. datas = <<>> => ops = {}
      BY <1>4 DEF DoWrite, Control, FrontInv, HandshakeInv, Fresh
    <2> QED
      BY <1>0, <1>4, <2>1 DEF DoWrite
  <1>5. CASE HandleWrite
    BY <1>0, <1>5 DEF HandleWrite
  <1> QED
    BY <1>1, <1>2, <1>3, <1>4, <1>5, NextCases, ReadSide
       DEF Start, AcceptFails, Release, StartAccept, UserCloses, Sends, SendLock, SendBuffer,
           writeVars

LEMMA LinkedStep ==
  ASSUME Control, Next
  PROVE  LinkedIsRead'
  <1> USE DEF LinkedIsRead
  <1>0. LinkedIsRead /\ HandshakeInv
    BY DEF Control
  <1>1. CASE Start \/ AcceptFails \/ Release \/ StartAccept \/ Network \/ UserCloses
    BY <1>0, <1>1 DEF Start, AcceptFails, Release, StartAccept, Network, Disconnect, ReadOk,
       ReadFails, UserCloses, StartRead, HandlerError, readVars, Referenced
  <1>2. CASE ReadHandlers \/ PolicyHandler
    BY <1>0, <1>2 DEF ReadHandlers, FlowHandler, HeaderHandler, BodyHandler, PacketHandled,
       LoginHandled, PolicyHandler, Received, StartRead, EndRead, HandlerError, HandshakeInv, Fresh
  <1>3. CASE WriteCompletes \/ HandleWrite \/ HandleWritePolicy \/ DoWrite \/ Sends
    BY <1>0, <1>3 DEF WriteCompletes, HandleWrite, HandleWritePolicy, DoWrite, Sends, SendLock,
       SendBuffer, HandlerError, readVars
  <1> QED
    BY <1>1, <1>2, <1>3, NextCases

LEMMA HandshakeStep ==
  ASSUME Control, Next
  PROVE  HandshakeInv'
  <1> USE DEF HandshakeInv, Fresh
  <1>0. HandshakeInv /\ Quiet /\ TypeOK /\ FrontInv
    BY DEF Control
  <1>1. CASE Start
    BY <1>0, <1>1 DEF Start, Quiet, StartRead
  <1>2. CASE AcceptFails \/ Release \/ StartAccept
    BY <1>0, <1>2 DEF AcceptFails, Release, StartAccept, Quiet, Referenced, readVars, writeVars
  <1>3. CASE Network \/ UserCloses
    BY <1>0, <1>3 DEF Network, Disconnect, ReadOk, ReadFails, UserCloses, readVars, writeVars
  <1>4. CASE ReadHandlers
    BY <1>0, <1>4 DEF ReadHandlers, FlowHandler, HeaderHandler, BodyHandler, PacketHandled,
       LoginHandled, Received, StartRead, EndRead, HandlerError, writeVars
  <1>5. CASE PolicyHandler
    BY <1>0, <1>5 DEF PolicyHandler, EndRead, HandlerError
  <1>6. CASE WriteCompletes
    <2>1. \A p \in ops' : \E q \in ops : q.buf = p.buf
      BY <1>0, <1>6 DEF WriteCompletes, TypeOK
    <2>2. ops = {} => ops' = {}
      BY <1>6 DEF WriteCompletes
    <2>3. UNCHANGED <<rd, link, sending, posted, datas>>
      BY <1>6 DEF WriteCompletes, readVars
    <2> QED
      BY <1>0, <2>1, <2>2, <2>3
  <1>7. CASE HandleWritePolicy
    BY <1>0, <1>7 DEF HandleWritePolicy, HandlerError, readVars
  <1>8. CASE Sends \/ DoWrite \/ HandleWrite
    <2>1. ~Fresh
      BY <1>0, <1>8 DEF Sends, SendLock, SendBuffer, DoWrite, HandleWrite, FrontInv
    <2>2. \A op \in ops : op.buf # PolicyFile
      BY <1>0, <2>1
    <2>3. \A op \in ops' : op.buf # PolicyFile
      <3>1. CASE Sends
        BY <2>2, <3>1 DEF Sends, SendLock, SendBuffer
      <3>2. CASE DoWrite
        BY <1>0, <2>2, <3>2, HeadTailProperties, SessionAssumption DEF DoWrite, TypeOK, Write
      <3>3. CASE HandleWrite
        <4>1. PICK op \in ops : HandleWrite!(op)
          BY <3>3 DEF HandleWrite
        <4>2. CASE op.result = "ok"
          BY <2>2, <4>1, <4>2, NextWrite, SessionAssumption DEF Control, Write
        <4>3. CASE op.result = "error"
          BY <2>2, <4>1, <4>3
        <4> QED
          BY <4>1, <4>2, <4>3
      <3> QED
        BY <1>8, <3>1, <3>2, <3>3
    <2>4. rd' = rd /\ rd \notin {"flow", "policy"}
      BY <1>0, <1>8, <2>1 DEF Sends, SendLock, SendBuffer, DoWrite, HandleWrite, readVars
    <2> QED
      BY <2>3, <2>4
  <1> QED
    BY <1>1, <1>2, <1>3, <1>4, <1>5, <1>6, <1>7, <1>8, NextCases

\* The write outstanding is that of the front of m_datas; a queue without a
\* write belongs to a broken connection.
LEMMA FrontStep ==
  ASSUME Control, Next
  PROVE  FrontInv' /\ FailInv'
  <1> USE DEF FrontInv, FailInv
  <1>0. FrontInv /\ FailInv /\ Quiet /\ TypeOK /\ HandshakeInv
    BY DEF Control
  <1>1. CASE Start \/ AcceptFails \/ Release \/ StartAccept
    BY <1>0, <1>1 DEF Start, AcceptFails, Release, StartAccept, Quiet, Referenced, writeVars
  <1>2. CASE Network
    BY <1>0, <1>2, ReadSide DEF Network, Disconnect, ReadOk, ReadFails
  <1>3. CASE ReadHandlers \/ UserCloses \/ Sends
    BY <1>0, <1>3 DEF ReadHandlers, FlowHandler, HeaderHandler, BodyHandler, PacketHandled,
       LoginHandled, UserCloses, Sends, SendLock, SendBuffer, writeVars
  <1>4. CASE PolicyHandler
    BY <1>0, <1>4 DEF PolicyHandler, HandshakeInv, Fresh, Write
  <1>5. CASE WriteCompletes
    <2>1. PICK op \in ops : WriteCompletes!(op)
      BY <1>5 DEF WriteCompletes
    <2>2. op \in [buf : Buffers \cup {PolicyFile}, result : {"waiting", "ok", "error"}]
      BY <1>0 DEF TypeOK
    <2>3. ops # {} /\ ops' # {}
      BY <2>1
    <2>4. \A p \in ops' : \E q \in ops : q.buf = p.buf
      BY <2>1, <2>2
    <2>5. \A p \in ops' : p.result = "error" => peer = "down"
      BY <1>0, <2>1, <2>2
    <2>6. datas' = datas /\ peer' = peer
      BY <2>1
    <2> QED
      BY <1>0, <2>3, <2>4, <2>5, <2>6
  <1>6. CASE DoWrite
    <2>1. posted \in Seq(Buffers) /\ datas \in Seq(Buffers) /\ Head(posted) \in Buffers
      BY <1>0, <1>6, HeadTailProperties DEF DoWrite, TypeOK
    <2>2. datas' # <<>> /\ Head(datas') = IF datas = <<>> THEN Head(posted) ELSE Head(datas)
      BY <1>6, <2>1, HeadTailAppend, AppendProperties DEF DoWrite
    <2>3. CASE datas = <<>>
      <3>1. ops' = {Write(Head(posted))}
        BY <1>0, <1>6, <2>3 DEF DoWrite, HandshakeInv, Fresh
      <3>2. \A op \in ops' : op.buf = Head(posted) /\ op.result = "waiting"
        BY <3>1 DEF Write
      <3> QED
        BY <2>2, <2>3, <3>1, <3>2
    <2>4. CASE datas # <<>>
      BY <1>0, <1>6, <2>2, <2>4 DEF DoWrite
    <2> QED
      BY <2>3, <2>4
  <1>7. CASE HandleWrite
    <2>1. PICK op \in ops : HandleWrite!(op)
      BY <1>7 DEF HandleWrite
    <2>2. CASE op.result = "ok"
      <3>1. CASE datas' = <<>>
        BY <2>1, <2>2, <3>1, NextWrite DEF Control
      <3>2. CASE datas' # <<>>
        <4>1. ops' = {Write(Head(datas'))}
          BY <2>1, <2>2, <3>2, NextWrite DEF Control
        <4>2. \A p \in ops' : p.buf = Head(datas') /\ p.result = "waiting"
          BY <4>1 DEF Write
        <4> QED
          BY <3>2, <4>1, <4>2
      <3> QED
        BY <3>1, <3>2
    <2>3. CASE op.result = "error"
      BY <1>0, <2>1, <2>3
    <2> QED
      BY <2>1, <2>2, <2>3
  <1>8. CASE HandleWritePolicy
    BY <1>0, <1>8 DEF HandleWritePolicy, HandshakeInv, Fresh
  <1> QED
    BY <1>1, <1>2, <1>3, <1>4, <1>5, <1>6, <1>7, <1>8, NextCases

-----------------------------------------------------------------------------
\* The order of the buffers.  Moving the front of the posted buffers to the
\* end of the queue changes nothing in between.
LEMMA Shift ==
  ASSUME NEW w \in Seq(Buffers), NEW u \in Seq(Buffers), NEW p \in Seq(Buffers), p # <<>>
  PROVE  w \o (Append(u, Head(p)) \o Tail(p)) = w \o (u \o p)
  <1>1. Head(p) \in Buffers /\ Tail(p) \in Seq(Buffers)
    BY HeadTailProperties
  <1>2. p = <<Head(p)>> \o Tail(p)
    BY <1>1, HeadTailSplit
  <1>3. Append(u, Head(p)) \o Tail(p) = (u \o <<Head(p)>>) \o Tail(p)
    BY <1>1, AppendIsConcat
  <1>4. (u \o <<Head(p)>>) \o Tail(p) = u \o (<<Head(p)>> \o Tail(p))
    BY <1>1, ConcatAssociative, <<Head(p)>> \in Seq(Buffers)
  <1> QED
    BY <1>2, <1>3, <1>4

\* Every buffer written is the next one sent.
LEMMA OrderStep ==
  ASSUME IInv, Next
  PROVE  Order'
  <1> DEFINE Written == \E op \in ops : op.buf # PolicyFile /\ op.result = "ok"
  <1>0. Control /\ Order /\ TypeOK /\ OneWrite /\ FrontInv /\ HandshakeInv /\ Quiet
    BY DEF IInv, Control
  <1>1. /\ posted \in Seq(Buffers) /\ datas \in Seq(Buffers)
        /\ sent \in Seq(Buffers) /\ wire \in Seq(Buffers) /\ Unwritten \in Seq(Buffers)
    <2>1. Written => datas # <<>>
      BY <1>0 DEF FrontInv
    <2> QED
      BY <1>0, <2>1, HeadTailProperties DEF TypeOK, Unwritten
  <1>2. CASE Start
    <2>1. ops' = {} /\ posted' = <<>> /\ datas' = <<>> /\ sent' = <<>> /\ wire' = <<>>
      BY <1>0, <1>2 DEF Start, Quiet
    <2>2. Unwritten' = <<>>
      BY <2>1 DEF Unwritten
    <2> QED
      BY <2>1, <2>2, ConcatEmptySeq, EmptySeq DEF Order
  <1>3. CASE AcceptFails \/ Release \/ StartAccept
    BY <1>3 DEF AcceptFails, Release, StartAccept, Order
  <1>4. CASE Network \/ ReadHandlers \/ UserCloses
    <2>1. UNCHANGED <<life, posted, datas, ops, sent, wire>>
      BY <1>4, ReadSide DEF UserCloses, writeVars
    <2> QED
      BY <1>0, <2>1 DEF Order, Unwritten
  <1>5. CASE PolicyHandler
    <2>1. \A op \in ops' : op.result = "waiting" \/ op \in ops
      BY <1>5 DEF PolicyHandler, Write
    <2>2. ops = {} /\ UNCHANGED <<life, posted, datas, sent, wire>>
      BY <1>0, <1>5 DEF PolicyHandler, HandshakeInv
    <2>3. Unwritten' = Unwritten
      BY <2>1, <2>2 DEF Unwritten
    <2> QED
      BY <1>0, <2>2, <2>3 DEF Order
  <1>6. CASE HandleWritePolicy
    <2>1. ops' \subseteq ops /\ UNCHANGED <<life, posted, datas, sent, wire>>
      BY <1>6 DEF HandleWritePolicy
    <2>2. ~Written
      BY <1>0, <1>6 DEF HandleWritePolicy, OneWrite
    <2>3. Unwritten' = Unwritten
      BY <2>1, <2>2 DEF Unwritten
    <2> QED
      BY <1>0, <2>1, <2>3 DEF Order
  <1>7. CASE WriteCompletes
    <2>1. PICK op \in ops : WriteCompletes!(op)
      BY <1>7 DEF WriteCompletes
    <2>2. /\ ops = {op} /\ op.result = "waiting"
          /\ op \in [buf : Buffers \cup {PolicyFile}, result : {"waiting", "ok", "error"}]
          /\ UNCHANGED <<life, posted, datas, sent>>
      BY <1>0, <2>1 DEF OneWrite, TypeOK
    <2>3. Unwritten = datas
      BY <2>2 DEF Unwritten
    <2>4. CASE peer # "down" /\ op.buf # PolicyFile
      <3>1. op.buf = Head(datas) /\ datas # <<>>
        BY <1>0, <2>4 DEF FrontInv
      <3>2. ops' = {[op EXCEPT !.result = "ok"]} /\ wire' = Append(wire, Head(datas))
        BY <2>1, <2>2, <2>4, <3>1
      <3>3. Unwritten' = Tail(datas)
        BY <2>2, <2>4, <3>2 DEF Unwritten
      <3>4. wire \o (datas \o posted) = wire' \o (Tail(datas) \o posted)
        BY <1>1, <3>1, <3>2, Advance
      <3> QED
        BY <1>0, <2>2, <2>3, <3>3, <3>4 DEF Order
    <2>5. CASE peer = "down" \/ op.buf = PolicyFile
      <3>1. wire' = wire /\ \A p \in ops' : p.result = "error" \/ p.buf = PolicyFile
        BY <2>1, <2>2, <2>5
      <3>2. Unwritten' = datas
        BY <2>2, <3>1 DEF Unwritten
      <3> QED
        BY <1>0, <2>2, <2>3, <3>1, <3>2 DEF Order
    <2> QED
      BY <2>4, <2>5
  <1>8. ASSUME NEW b \in Buffers \cup {InvalidBuffer}, SendLock(b) PROVE Order'
    BY <1>0, <1>8 DEF SendLock, Order, Unwritten
  <1>9. ASSUME NEW b \in Buffers \cup {InvalidBuffer}, SendBuffer(b) PROVE Order'
    <2>1. UNCHANGED <<life, datas, ops, wire>>
      BY <1>9 DEF SendBuffer
    <2>2. Unwritten' = Unwritten
      BY <2>1 DEF Unwritten
    <2>3. CASE b = InvalidBuffer
      BY <1>0, <1>9, <2>1, <2>2, <2>3 DEF SendBuffer, Order
    <2>4. CASE b \in Buffers /\ b # InvalidBuffer
      <3>1. posted' = Append(posted, b) /\ sent' = Append(sent, b)
        BY <1>9, <2>4 DEF SendBuffer
      <3>2. Append(wire \o (Unwritten \o posted), b) = wire \o (Unwritten \o Append(posted, b))
        <4>1. \A w, u, p \in Seq(Buffers) : Append(w \o (u \o p), b) = w \o (u \o Append(p, b))
          BY <2>4, Extend, ZenonT(30)
        <4> QED
          BY <1>1, <4>1, ZenonT(30)
      <3> QED
        BY <1>0, <2>1, <2>2, <3>1, <3>2 DEF Order
    <2> QED
      BY <2>3, <2>4
  <1>10. CASE DoWrite
    <2>1. /\ posted # <<>> /\ Head(posted) \in Buffers /\ posted' = Tail(posted)
          /\ datas' = Append(datas, Head(posted)) /\ UNCHANGED <<life, sent, wire>>
      BY <1>1, <1>10, HeadTailProperties DEF DoWrite
    <2>2. Unwritten' = Append(Unwritten, Head(posted))
      <3>1. CASE datas = <<>>
        <4>1. ops = {} /\ ops' = {Write(Head(posted))}
          BY <1>0, <1>10, <3>1, <2>1 DEF DoWrite, FrontInv, HandshakeInv, Fresh
        <4> QED
          BY <2>1, <4>1 DEF Unwritten, Write
      <3>2. CASE datas # <<>>
        <4>1. ops' = ops /\ Tail(datas') = Append(Tail(datas), Head(posted))
          BY <1>1, <1>10, <2>1, <3>2, HeadTailAppend DEF DoWrite
        <4> QED
          BY <2>1, <4>1 DEF Unwritten
      <3> QED
        BY <3>1, <3>2
    <2>3. wire \o (Append(Unwritten, Head(posted)) \o Tail(posted)) = wire \o (Unwritten \o posted)
      BY <1>1, <2>1, Shift
    <2> QED
      BY <1>0, <2>1, <2>2, <2>3 DEF Order
  <1>11. CASE HandleWrite
    <2>1. PICK op \in ops : HandleWrite!(op)
      BY <1>11 DEF HandleWrite
    <2>2. ops = {op} /\ UNCHANGED <<life, posted, sent, wire>>
      BY <1>0, <2>1 DEF OneWrite
    <2>3. Unwritten' = Unwritten
      <3>1. CASE op.result = "ok"
        <4>1. Unwritten = Tail(datas) /\ datas' = Tail(datas)
          BY <2>1, <2>2, <3>1 DEF Unwritten
        <4>2. \A p \in ops' : p.result = "waiting"
          BY <2>1, <2>2, <3>1 DEF Write
        <4> QED
          BY <4>1, <4>2 DEF Unwritten
      <3>2. CASE op.result = "error"
        <4>1. ops' = {} /\ datas' = datas
          BY <2>1, <2>2, <3>2
        <4> QED
          BY <2>2, <3>2, <4>1 DEF Unwritten
      <3> QED
        BY <2>1, <3>1, <3>2
    <2> QED
      BY <1>0, <2>2, <2>3 DEF Order
  <1> QED
    BY <1>2, <1>3, <1>4, <1>5, <1>6, <1>7, <1>8, <1>9, <1>10, <1>11, NextCases DEF Sends

LEMMA NextIInv == IInv /\ [Next]_vars => IInv'
  <1> SUFFICES ASSUME IInv, [Next]_vars PROVE IInv'
    OBVIOUS
  <1>1. CASE Next
    <2>1. Control
      BY DEF IInv
    <2>2. Control'
      BY <1>1, <2>1, TypeStep, QuietStep, OneWriteStep, LinkedStep, HandshakeStep, FrontStep
         DEF Control
    <2> QED
      BY <1>1, <2>2, OrderStep DEF IInv
  <1>2. CASE UNCHANGED vars
    <2>1. TypeOK' /\ Quiet' /\ OneWrite'
      BY <1>2 DEF vars, readVars, writeVars, IInv, Control, TypeOK, Quiet, OneWrite
    <2>2. LinkedIsRead' /\ HandshakeInv' /\ FrontInv' /\ FailInv'
      BY <1>2 DEF vars, readVars, writeVars, IInv, Control, LinkedIsRead, HandshakeInv, Fresh,
         FrontInv, FailInv
    <2>3. Order'
      BY <1>2 DEF vars, readVars, writeVars, IInv, Order, Unwritten
    <2> QED
      BY <2>1, <2>2, <2>3 DEF IInv, Control
  <1> QED
    BY <1>1, <1>2

LEMMA Invariance == Spec => []IInv
  BY InitIInv, NextIInv, PTL DEF Spec

-----------------------------------------------------------------------------
\* Every variable of a session keeps its range: no buffer without data is ever
\* posted, queued or written.
THEOREM TypeCorrect == Spec => []TypeOK
  BY Invariance, PTL DEF IInv, Control

\* At most one composed write is outstanding on the socket, whatever is sent
\* and whenever, the policy file included.
THEOREM WritesNeverOverlap == Spec => []OneWrite
  BY Invariance, PTL DEF IInv, Control

\* A user that other threads can send to has a session that is being read.
THEOREM LinkedUsersAreRead == Spec => []LinkedIsRead
  BY Invariance, PTL DEF IInv, Control

\* While the connection is up, a queue that is not empty is being written,
\* from its front.
THEOREM QueueNeverStalls == Spec => []QueueAdvances
  <1>1. IInv => QueueAdvances
    BY DEF IInv, Control, OneWrite, FrontInv, FailInv, QueueAdvances, HandshakeInv, Fresh
  <1> QED
    BY <1>1, Invariance, PTL

\* What reaches the socket is a prefix of what was sent, in the same order:
\* the session implements the outbox.
THEOREM Refinement == Spec => OutboxSpec
  <1>1. Init => Out!Init
    BY DEF Init, Out!Init
  <1>2. IInv /\ [Next]_vars => [Out!Next]_Out!vars
    <2> SUFFICES ASSUME IInv, [Next]_vars
                 PROVE  Out!Next \/ (sent' = sent /\ wire' = wire)
      BY DEF Out!vars
    <2>1. CASE Start
      BY <2>1 DEF Start, Out!Next, Out!Connect
    <2>2. ASSUME NEW b \in Buffers \cup {InvalidBuffer}, SendBuffer(b)
          PROVE  Out!Next \/ (sent' = sent /\ wire' = wire)
      <3>1. b # InvalidBuffer => b \in Buffers
        OBVIOUS
      <3> QED
        BY <2>2, <3>1 DEF SendBuffer, Out!Next, Out!Accept
    <2>3. CASE WriteCompletes
      <3>1. PICK op \in ops : WriteCompletes!(op)
        BY <2>3 DEF WriteCompletes
      <3>2. CASE peer # "down" /\ op.buf # PolicyFile
        <4>1. /\ op.buf = Head(datas) /\ datas # <<>> /\ ops = {op} /\ life = "live"
              /\ posted \in Seq(Buffers) /\ datas \in Seq(Buffers) /\ wire \in Seq(Buffers)
          BY <3>1, <3>2 DEF IInv, Control, FrontInv, TypeOK, OneWrite, Quiet
        <4>2. Unwritten = datas
          BY <3>1, <4>1 DEF Unwritten
        <4>3. sent = wire \o (datas \o posted)
          BY <4>1, <4>2 DEF IInv, Order
        <4>4. Len(wire) < Len(sent) /\ sent[Len(wire) + 1] = Head(datas)
          BY <4>1, <4>3, NextSent
        <4>5. wire' = Append(wire, Head(datas)) /\ sent' = sent
          BY <3>1, <3>2, <4>1
        <4> QED
          BY <4>4, <4>5 DEF Out!Next, Out!Deliver
      <3>3. CASE peer = "down" \/ op.buf = PolicyFile
        BY <3>1, <3>3
      <3> QED
        BY <3>2, <3>3
    <2>4. CASE UNCHANGED <<sent, wire>>
      BY <2>4
    <2> QED
      BY <2>1, <2>2, <2>3, <2>4, NextCases, ReadSide
         DEF vars, writeVars, AcceptFails, Release, StartAccept, UserCloses, PolicyHandler,
             HandleWritePolicy, Sends, SendLock, DoWrite, HandleWrite
  <1> QED
    BY <1>1, <1>2, Invariance, PTL DEF Spec, OutboxSpec, Out!Spec
-----------------------------------------------------------------------------
\* HandlerMemory: what an allocator hands out, and takes back.

Reads == {"flow", "policy", "header", "body"}

Sound(a) ==
  /\ a.in_use <=> \E h \in a.held : h.at = "block"
  /\ \A h, k \in a.held : h.at = "block" /\ k.at = "block" => h = k
  /\ \A h \in a.held : h.at = "heap" => h.op \in Large
  /\ \A h \in a.held : h = [op |-> h.op, at |-> h.at]

LEMMA AllocateSound ==
  ASSUME NEW a, NEW op, Sound(a), a.held = {}
  PROVE  Sound(allocate(a, op)) /\ {h.op : h \in allocate(a, op).held} = {op}
  <1>1. ~a.in_use
    BY DEF Sound
  <1>2. CASE op \in Large
    <2>1. /\ allocate(a, op).held = {[op |-> op, at |-> "heap"]}
          /\ ~allocate(a, op).in_use
      BY <1>1, <1>2 DEF allocate
    <2> QED
      BY <1>2, <2>1 DEF Sound
  <1>3. CASE op \notin Large
    <2>1. /\ allocate(a, op).held = {[op |-> op, at |-> "block"]}
          /\ allocate(a, op).in_use
      BY <1>1, <1>3 DEF allocate
    <2> QED
      BY <2>1 DEF Sound
  <1> QED
    BY <1>2, <1>3

LEMMA DeallocateSound ==
  ASSUME NEW a, NEW op, Sound(a)
  PROVE  Sound(deallocate(a, op)) /\ deallocate(a, op).held = {h \in a.held : h.op # op}
  <1>1. deallocate(a, op).held = {h \in a.held : h.op # op}
    BY DEF deallocate
  <1>2. deallocate(a, op).in_use <=> a.in_use /\ [op |-> op, at |-> "block"] \notin a.held
    BY DEF deallocate
  <1>3. deallocate(a, op).in_use <=> \E h \in deallocate(a, op).held : h.at = "block"
    BY <1>1, <1>2 DEF Sound
  <1> QED
    BY <1>1, <1>3 DEF Sound

\* Every outstanding read has its memory, and what has memory for a write is
\* outstanding.
MemoryInv ==
  /\ Sound(read_allocator_) /\ Sound(write_allocator_)
  /\ {h.op : h \in read_allocator_.held} = {rd} \cap Reads
  /\ {h.op : h \in write_allocator_.held} \subseteq {op.buf : op \in ops}
  /\ rd \notin Reads => got = "waiting"

\* A read handler runs when its read is complete, and only then another is issued.
LEMMA ReadMoves ==
  ASSUME IInv, MemoryInv, [Next]_vars
  PROVE  /\ got # "waiting" /\ got' = "waiting" => rd \in Reads
         /\ ~(got # "waiting" /\ got' = "waiting") /\ rd \in Reads => rd' = rd
         /\ rd' \notin Reads => got' = "waiting"
  <1> USE DEF Reads, MemoryInv, StartRead, EndRead, readVars
  <1>1. CASE Start
    BY <1>1 DEF Start, IInv, Control, Quiet
  <1>2. CASE Network
    BY <1>2 DEF Network, Disconnect, ReadOk, ReadFails, IInv, Control, TypeOK
  <1>3. CASE ReadHandlers
    BY <1>3 DEF ReadHandlers, FlowHandler, HeaderHandler, BodyHandler, PacketHandled, LoginHandled, Received
  <1>4. CASE PolicyHandler
    BY <1>4 DEF PolicyHandler
  <1>5. CASE UNCHANGED <<rd, got>>
    BY <1>5
  <1> QED
    BY <1>1, <1>2, <1>3, <1>4, <1>5, NextCases
    DEF vars, AcceptFails, Release, StartAccept, WriteCompletes, UserCloses, Sends, SendLock, SendBuffer,
        DoWrite, HandleWrite, HandleWritePolicy

LEMMA ReadMemoryStep ==
  ASSUME IInv, MemoryInv, Next, ReadMemory
  PROVE  Sound(read_allocator_)' /\ {h.op : h \in read_allocator_'.held} = {rd'} \cap Reads
  <1> DEFINE runs == got # "waiting" /\ got' = "waiting"
             issues == (runs \/ rd' # rd) /\ rd' \in Reads
             returned == IF runs THEN deallocate(read_allocator_, rd) ELSE read_allocator_
  <1>1. read_allocator_' = IF issues THEN allocate(returned, rd') ELSE returned
    BY DEF ReadMemory, Reads
  <1>2. (runs => rd \in Reads) /\ (~runs /\ rd \in Reads => rd' = rd)
    BY ReadMoves
  <1>3. Sound(returned) /\ (runs \/ rd \notin Reads => returned.held = {})
    <2>1. CASE runs
      <3>1. \A h \in read_allocator_.held : h.op = rd
        BY <1>2, <2>1 DEF MemoryInv
      <3> QED
        BY <2>1, <3>1, DeallocateSound DEF MemoryInv
    <2>2. CASE ~runs
      BY <2>2 DEF MemoryInv
    <2> QED
      BY <2>1, <2>2
  <1> HIDE DEF returned
  <1>4. CASE issues
    <2>1. returned.held = {}
      BY <1>2, <1>3, <1>4
    <2>2. Sound(allocate(returned, rd')) /\ {h.op : h \in allocate(returned, rd').held} = {rd'}
      BY <1>3, <2>1, AllocateSound
    <2>3. read_allocator_' = allocate(returned, rd') /\ {rd'} \cap Reads = {rd'}
      BY <1>1, <1>4
    <2> QED
      BY <2>2, <2>3 DEF Sound
  <1>5. CASE ~issues
    <2>1. read_allocator_' = returned
      BY <1>1, <1>5
    <2>2. {h.op : h \in returned.held} = {rd'} \cap Reads
      <3>1. CASE runs \/ rd \notin Reads
        BY <1>2, <1>3, <1>5, <3>1
      <3>2. CASE ~runs /\ rd \in Reads
        BY <1>2, <3>2 DEF MemoryInv, returned
      <3> QED
        BY <3>1, <3>2
    <2> QED
      BY <1>3, <2>1, <2>2 DEF Sound
  <1> QED
    BY <1>4, <1>5

\* A write is issued only when no other is outstanding: its memory is the only one.
LEMMA WriteMemoryStep ==
  ASSUME MemoryInv, OneWrite', WriteMemory
  PROVE  /\ Sound(write_allocator_)'
         /\ {h.op : h \in write_allocator_'.held} \subseteq {op.buf : op \in ops'}
  <1>1. PICK before, after : before = {op.buf : op \in ops} /\ after = {op.buf : op \in ops'}
    OBVIOUS
  <1>2. /\ Sound(write_allocator_)
        /\ \A h \in write_allocator_.held : h.op \in before
        /\ \A h \in write_allocator_.held : h.op \notin before \ after
    BY <1>1 DEF MemoryInv, WriteMemory, Holds
  <1>3. CASE after \subseteq before /\ UNCHANGED write_allocator_
    BY <1>1, <1>2, <1>3 DEF Sound
  <1>4. CASE \E b \in after \ before : write_allocator_' = allocate(write_allocator_, b)
    <2>1. PICK b \in after \ before : write_allocator_' = allocate(write_allocator_, b)
      BY <1>4
    <2>2. after = {b}
      BY <1>1, <2>1 DEF OneWrite
    <2>3. write_allocator_.held = {}
      BY <1>2, <2>1, <2>2
    <2>4. PICK a : a = allocate(write_allocator_, b)
      OBVIOUS
    <2>5. Sound(a) /\ {h.op : h \in a.held} = {b}
      BY <1>2, <2>3, <2>4, AllocateSound
    <2> QED
      BY <1>1, <2>1, <2>2, <2>4, <2>5 DEF Sound
  <1> QED
    BY <1>1, <1>3, <1>4 DEF WriteMemory

LEMMA ReturnWriteStep ==
  ASSUME IInv, MemoryInv, ReturnWrite
  PROVE  IInv' /\ MemoryInv'
  <1>1. PICK op \in ops : write_allocator_' = deallocate(write_allocator_, op.buf)
    BY DEF ReturnWrite
  <1>2. UNCHANGED <<vars, read_allocator_>>
    BY DEF ReturnWrite
  <1>3. IInv'
    BY <1>2, NextIInv
  <1>4. PICK a : a = deallocate(write_allocator_, op.buf)
    OBVIOUS
  <1>5. Sound(a) /\ a.held \subseteq write_allocator_.held
    BY <1>4, DeallocateSound DEF MemoryInv
  <1>6. MemoryInv'
    BY <1>1, <1>2, <1>4, <1>5 DEF MemoryInv, Sound, vars, readVars, writeVars
  <1> QED
    BY <1>3, <1>6

LEMMA InitMemoryInv == MemoryInit => IInv /\ MemoryInv
  <1> SUFFICES ASSUME MemoryInit PROVE IInv /\ MemoryInv
    OBVIOUS
  <1>1. IInv
    BY InitIInv DEF MemoryInit
  <1>2. Sound(read_allocator_) /\ Sound(write_allocator_)
    BY DEF MemoryInit, Sound
  <1>3. rd = "none" /\ got = "waiting" /\ read_allocator_.held = {} /\ write_allocator_.held = {}
    BY DEF MemoryInit, Init
  <1> QED
    BY <1>1, <1>2, <1>3 DEF MemoryInv, Reads

LEMMA NextMemoryInv == IInv /\ MemoryInv /\ [MemoryNext]_memoryVars => IInv' /\ MemoryInv'
  <1> SUFFICES ASSUME IInv, MemoryInv, [MemoryNext]_memoryVars PROVE IInv' /\ MemoryInv'
    OBVIOUS
  <1>1. CASE Next /\ ReadMemory /\ WriteMemory
    <2>1. IInv'
      BY <1>1, NextIInv
    <2>2. OneWrite'
      BY <2>1 DEF IInv, Control
    <2>3. rd' \notin Reads => got' = "waiting"
      BY <1>1, ReadMoves
    <2> QED
      BY <1>1, <2>1, <2>2, <2>3, ReadMemoryStep, WriteMemoryStep DEF MemoryInv
  <1>2. CASE ReturnWrite
    BY <1>2, ReturnWriteStep
  <1>3. CASE UNCHANGED memoryVars
    <2>1. UNCHANGED vars /\ UNCHANGED <<read_allocator_, write_allocator_>>
      BY <1>3 DEF memoryVars, allocators
    <2>2. IInv'
      BY <2>1, NextIInv
    <2> QED
      BY <2>1, <2>2 DEF MemoryInv, Sound, vars, readVars, writeVars
  <1> QED
    BY <1>1, <1>2, <1>3 DEF MemoryNext

LEMMA MemoryInvariance == MemorySpec => [](IInv /\ MemoryInv)
  BY InitMemoryInv, NextMemoryInv, PTL DEF MemorySpec

\* The memory follows the session: what it adds changes nothing of the session,
\* so that every theorem about Spec holds of the session with its memory.
THEOREM MemoryKeepsSession == MemorySpec => Spec
  <1>1. MemoryInit => Init
    BY DEF MemoryInit
  <1>2. [MemoryNext]_memoryVars => [Next]_vars
    BY DEF MemoryNext, ReturnWrite, memoryVars
  <1> QED
    BY <1>1, <1>2, PTL DEF MemorySpec, Spec

\* The two flags without a lock are enough: a block never serves two
\* operations at once, is in use exactly while one holds it, and the heap gets
\* only what does not fit; what holds memory is outstanding.
THEOREM OneOperationPerBlock == MemorySpec => []OneBlock
  <1>1. IInv /\ MemoryInv => OneBlock
    <2> SUFFICES ASSUME IInv, MemoryInv PROVE OneBlock
      OBVIOUS
    <2>1. {rd} \cap Reads = {rd} \ {"none", "packet", "login"}
      BY DEF IInv, Control, TypeOK, Reads
    <2> QED
      BY <2>1 DEF MemoryInv, Sound, OneBlock
  <1> QED
    BY <1>1, MemoryInvariance, PTL

\* The buffer of an outstanding write is at the front of m_datas, and so is
\* kept until the handler of the write runs.
THEOREM WrittenBuffersAreHeld == MemorySpec => []WrittenIsHeld
  <1>1. IInv => WrittenIsHeld
    BY DEF IInv, Control, FrontInv, WrittenIsHeld
  <1> QED
    BY <1>1, MemoryInvariance, PTL
=============================================================================
