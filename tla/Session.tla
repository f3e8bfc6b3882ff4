------------------------------ MODULE Session -------------------------------
(***************************************************************************)
(* boost::asio::session (VNetWork/VAsyncServer.hpp): one connection, from  *)
(* the accept that gives it a socket to the release of its last reference. *)
(*                                                                         *)
(* Its handlers run on a pool of io threads.  The write path (do_write,    *)
(* handle_write) goes through a strand, so those handlers exclude one      *)
(* another; the read handlers do not, but one read is outstanding at a     *)
(* time.  Any thread may send through the user that is linked to the       *)
(* session.  An asynchronous operation completes in one step and its       *)
(* handler runs in a later one; the handlers and the sends keep the        *)
(* session alive by the references they hold.                              *)
(***************************************************************************)
EXTENDS Naturals, Sequences, FiniteSets

CONSTANTS Buffers,        \* outgoing buffers, each sent once on a connection
          InvalidBuffer,  \* a buffer without data (isValid() is false)
          PolicyFile      \* the static answer to a policy request

ASSUME SessionAssumption ==
  /\ InvalidBuffer \notin Buffers
  /\ PolicyFile \notin Buffers

VARIABLES life,     \* the session object: waiting to accept, started ("live"), not
                    \* started after an error, pooled or destroyed
          peer,     \* the connection: "up", "eof" (peer stopped sending), "down"
          rd,       \* the read handler that runs next, or the packet being handled
          got,      \* the result of the outstanding read
          link,     \* user_ and that user's m_Session: none, in (both set),
                    \* out (the user has closed its session)
          sending,  \* buffers held by threads that have locked the session
          posted,   \* do_write handlers queued on the strand
          datas,    \* m_datas
          ops,      \* outstanding async_write operations
          sent,     \* history: buffers accepted by send_buffer, in order
          wire      \* history: buffers written completely, in order

readVars == <<rd, got>>
writeVars == <<sending, posted, datas, ops, sent, wire>>
vars == <<life, peer, readVars, link, writeVars>>

Write(b) == [buf |-> b, result |-> "waiting"]

\* The references that keep the session alive: outstanding operations,
\* queued and running handlers, and threads that have locked m_Session.
Referenced == rd # "none" \/ ops # {} \/ posted # <<>> \/ sending # {}

-----------------------------------------------------------------------------
Init ==
  /\ life = "accepting" /\ peer = "down" /\ link = "none"
  /\ rd = "none" /\ got = "waiting"
  /\ sending = {} /\ posted = <<>> /\ datas = <<>> /\ ops = {}
  /\ sent = <<>> /\ wire = <<>>

StartRead(handler) == rd' = handler /\ got' = "waiting"
EndRead == rd' = "none" /\ got' = "waiting"

\* Mutant of HandlerError: the user is not told.
HandlerErrorSilent == link' = link

\* handler_error: reset() makes the user, if it is still there, close its
\* session.  The socket stays as it is.
HandlerError == link' = IF link = "in" THEN "out" ELSE link

\* Mutant of Start: a pooled session keeps its m_datas.
StartStale ==
  /\ life = "accepting"
  /\ life' = "live" /\ peer' = "up"
  /\ sent' = <<>> /\ wire' = <<>>
  /\ StartRead("flow")
  /\ UNCHANGED <<link, sending, posted, datas, ops>>

\* handle_accept without an error, and start(): clear m_datas and read the
\* first byte.
Start ==
  /\ life = "accepting"
  /\ life' = "live" /\ peer' = "up"
  /\ datas' = <<>> /\ sent' = <<>> /\ wire' = <<>>
  /\ StartRead("flow")
  /\ UNCHANGED <<link, sending, posted, ops>>

\* handle_accept with an error, or start() that fails on a socket option:
\* nothing is read, and the accept handler's reference is the last one.
AcceptFails ==
  /\ life = "accepting"
  /\ life' = "unstarted" /\ peer' = "down"
  /\ UNCHANGED <<readVars, link, writeVars>>

-----------------------------------------------------------------------------
\* The peer.

\* The peer stops sending, or the connection breaks.
Disconnect ==
  /\ life = "live" /\ peer # "down"
  /\ peer' \in IF peer = "up" THEN {"eof", "down"} ELSE {"down"}
  /\ UNCHANGED <<life, readVars, link, writeVars>>

\* The bytes the outstanding read waits for have arrived.
ReadOk ==
  /\ rd \in {"flow", "policy", "header", "body"} /\ got = "waiting"
  /\ peer = "up"
  /\ got' = "ok"
  /\ UNCHANGED <<life, peer, rd, link, writeVars>>

ReadFails ==
  /\ rd \in {"flow", "policy", "header", "body"} /\ got = "waiting"
  /\ peer # "up"
  /\ got' = "error"
  /\ UNCHANGED <<life, peer, rd, link, writeVars>>

WriteCompletes ==
  \E op \in ops :
    /\ op.result = "waiting"
    /\ LET done == IF peer = "down" THEN "error" ELSE "ok" IN
         /\ ops' = (ops \ {op}) \cup {[op EXCEPT !.result = done]}
         /\ wire' = IF done = "ok" /\ op.buf # PolicyFile THEN Append(wire, op.buf) ELSE wire
    /\ UNCHANGED <<life, peer, readVars, link, sending, posted, datas, sent>>

-----------------------------------------------------------------------------
\* The read handlers.

\* handler_read_flow: '<' asks for the policy file, 'A' starts the protocol,
\* anything else is dropped, and nothing is read from then on.
FlowHandler ==
  /\ rd = "flow" /\ got # "waiting"
  /\ \/ got = "ok" /\ UNCHANGED link
        /\ (StartRead("policy") \/ StartRead("header") \/ EndRead)
     \/ got = "error" /\ EndRead /\ HandlerError
  /\ UNCHANGED <<life, peer, writeVars>>

\* handler_read_policy: answer the one valid request.
PolicyHandler ==
  /\ rd = "policy" /\ got # "waiting"
  /\ EndRead
  /\ \/ got = "ok" /\ ops' \in {ops, ops \cup {Write(PolicyFile)}} /\ UNCHANGED link
     \/ got = "error" /\ HandlerError /\ UNCHANGED ops
  /\ UNCHANGED <<life, peer, sending, posted, datas, sent, wire>>

\* handle_read_body without an error, up to the dispatch in ReceivePacket: a
\* linked user's packet is admitted, one of a user that has closed its session
\* is refused, and without a user only a login is taken.
Received ==
  \/ link = "in" /\ StartRead("packet")
  \/ link = "none" /\ (StartRead("login") \/ StartRead("header"))
  \/ link = "out" /\ StartRead("header")

\* Mutant of HeaderHandler: read_header is issued again after an error.
HeaderHandlerRereads ==
  /\ rd = "header" /\ got # "waiting"
  /\ \/ got = "ok" /\ (StartRead("body") \/ Received) /\ UNCHANGED link
     \/ StartRead("header") /\ HandlerError
  /\ UNCHANGED <<life, peer, writeVars>>

\* handle_read_header: nLen is in range, 0 (the body handler is called at
\* once), or too large.
HeaderHandler ==
  /\ rd = "header" /\ got # "waiting"
  /\ \/ got = "ok" /\ (StartRead("body") \/ Received) /\ UNCHANGED link
     \/ EndRead /\ HandlerError
  /\ UNCHANGED <<life, peer, writeVars>>

BodyHandler ==
  /\ rd = "body" /\ got # "waiting"
  /\ \/ got = "ok" /\ Received /\ UNCHANGED link
     \/ got = "error" /\ EndRead /\ HandlerError
  /\ UNCHANGED <<life, peer, writeVars>>

\* The packet is processed, or fails CheckSecurity; read_header follows.
PacketHandled ==
  /\ rd = "packet"
  /\ StartRead("header")
  /\ UNCHANGED <<life, peer, link, writeVars>>

\* The login is accepted (SetSessionExternal links user and session) or not.
LoginHandled ==
  /\ rd = "login"
  /\ StartRead("header")
  /\ link' \in {link, "in"}
  /\ UNCHANGED <<life, peer, writeVars>>

\* A thread of the server closes the user's session, or drops the user.
UserCloses ==
  /\ \/ link = "in" /\ link' = "out"
     \/ link = "out" /\ link' = "none"
  /\ UNCHANGED <<life, peer, readVars, writeVars>>

-----------------------------------------------------------------------------
\* The write path.

\* VUser::SendBuffer and SendData: m_Session.lock() succeeds.
SendLock(b) ==
  /\ link = "in" /\ life = "live" /\ Referenced
  /\ b \notin sending /\ \A i \in 1..Len(sent) : sent[i] # b
  /\ sending' = sending \cup {b}
  /\ UNCHANGED <<life, peer, readVars, link, posted, datas, ops, sent, wire>>

\* Mutant of SendBuffer: the buffer is not tested.
SendBufferUntested(b) ==
  /\ b \in sending
  /\ sending' = sending \ {b}
  /\ posted' = Append(posted, b) /\ sent' = Append(sent, b)
  /\ UNCHANGED <<life, peer, readVars, link, datas, ops, wire>>

\* send_buffer: post do_write on the strand if the buffer is valid.
SendBuffer(b) ==
  /\ b \in sending
  /\ sending' = sending \ {b}
  /\ \/ b # InvalidBuffer /\ posted' = Append(posted, b) /\ sent' = Append(sent, b)
     \/ b = InvalidBuffer /\ UNCHANGED <<posted, sent>>
  /\ UNCHANGED <<life, peer, readVars, link, datas, ops, wire>>

\* Mutant of DoWrite: every buffer is written at once.
DoWriteAtOnce ==
  /\ posted # <<>>
  /\ posted' = Tail(posted)
  /\ datas' = Append(datas, Head(posted))
  /\ ops' = ops \cup {Write(Head(posted))}
  /\ UNCHANGED <<life, peer, readVars, link, sending, sent, wire>>

\* Mutant of DoWrite: the buffer that is written at once is not queued.
DoWriteUnqueued ==
  /\ posted # <<>>
  /\ posted' = Tail(posted)
  /\ datas' = IF datas = <<>> THEN <<>> ELSE Append(datas, Head(posted))
  /\ ops' = IF datas = <<>> THEN ops \cup {Write(Head(posted))} ELSE ops
  /\ UNCHANGED <<life, peer, readVars, link, sending, sent, wire>>

\* do_write: queue the buffer, and start writing it if the queue was empty.
DoWrite ==
  /\ posted # <<>>
  /\ posted' = Tail(posted)
  /\ datas' = Append(datas, Head(posted))
  /\ ops' = IF datas = <<>> THEN ops \cup {Write(Head(posted))} ELSE ops
  /\ UNCHANGED <<life, peer, readVars, link, sending, sent, wire>>

\* Mutants of HandleWrite: the next buffer is not written; the last one of the
\* queue is written instead of the next.
HandleWriteAfter(op, next) ==
  /\ op \in ops /\ op.buf # PolicyFile
  /\ \/ /\ op.result = "ok"
        /\ datas' = Tail(datas)
        /\ ops' = (ops \ {op}) \cup next
        /\ UNCHANGED link
     \/ /\ op.result = "error"
        /\ ops' = ops \ {op}
        /\ HandlerError
        /\ UNCHANGED datas
  /\ UNCHANGED <<life, peer, readVars, sending, posted, sent, wire>>

HandleWriteStops == \E op \in ops : HandleWriteAfter(op, {})

HandleWriteLast ==
  \E op \in ops :
    HandleWriteAfter(op, IF Len(datas) <= 1 THEN {} ELSE {Write(datas[Len(datas)])})

\* handle_write: pop the buffer written and write the next one.  After an
\* error m_datas stays as it is, so do_write only queues from then on.
HandleWrite ==
  \E op \in ops :
    /\ op.buf # PolicyFile
    /\ \/ /\ op.result = "ok"
          /\ datas' = Tail(datas)
          /\ ops' = (ops \ {op}) \cup (IF datas' = <<>> THEN {} ELSE {Write(Head(datas'))})
          /\ UNCHANGED link
       \/ /\ op.result = "error"
          /\ ops' = ops \ {op}
          /\ HandlerError
          /\ UNCHANGED datas
    /\ UNCHANGED <<life, peer, readVars, sending, posted, sent, wire>>

\* handle_write_policy: shut the connection down, both ways.
HandleWritePolicy ==
  \E op \in ops :
    /\ op.buf = PolicyFile
    /\ \/ op.result = "ok" /\ peer' = "down" /\ UNCHANGED link
       \/ op.result = "error" /\ HandlerError /\ UNCHANGED peer
    /\ ops' = ops \ {op}
    /\ UNCHANGED <<life, readVars, sending, posted, datas, sent, wire>>

-----------------------------------------------------------------------------
\* close_session, the deleter of the last reference: reset(), then either the
\* pool takes the session and its socket is closed, or it is destroyed.
Release ==
  /\ life \in {"live", "unstarted"} /\ ~Referenced
  /\ peer' = "down"
  /\ \/ life' = "pooled" /\ link' = "none"
     \/ life' = "destroyed" /\ HandlerError
  /\ UNCHANGED <<readVars, writeVars>>

\* start_accept: create_session pops a pooled session or makes a new one.
StartAccept ==
  /\ life \in {"pooled", "destroyed"}
  /\ life' = "accepting" /\ link' = "none"
  /\ datas' = IF life = "pooled" THEN datas ELSE <<>>
  /\ UNCHANGED <<peer, readVars, sending, posted, ops, sent, wire>>

Handlers ==
  \/ FlowHandler \/ PolicyHandler \/ HeaderHandler \/ BodyHandler
  \/ PacketHandled \/ LoginHandled
  \/ DoWrite \/ HandleWrite \/ HandleWritePolicy

Next ==
  \/ Start \/ AcceptFails
  \/ Disconnect \/ ReadOk \/ ReadFails \/ WriteCompletes
  \/ Handlers
  \/ UserCloses
  \/ \E b \in Buffers \cup {InvalidBuffer} : SendLock(b) \/ SendBuffer(b)
  \/ Release \/ StartAccept

Spec == Init /\ [][Next]_vars

\* An io thread runs every handler that is ready, and a thread that has locked
\* the session sends its buffer.  A read fails once the peer is gone, and a
\* write on a broken connection fails; that a write to a live peer completes
\* assumes that the peer keeps reading.
Fairness ==
  /\ WF_vars(FlowHandler) /\ WF_vars(PolicyHandler) /\ WF_vars(HeaderHandler)
  /\ WF_vars(BodyHandler) /\ WF_vars(PacketHandled) /\ WF_vars(LoginHandled)
  /\ WF_vars(DoWrite) /\ WF_vars(HandleWrite) /\ WF_vars(HandleWritePolicy)
  /\ WF_vars(ReadFails) /\ WF_vars(WriteCompletes)
  /\ \A b \in Buffers \cup {InvalidBuffer} : WF_vars(SendBuffer(b))
  /\ WF_vars(Release)

FairSpec == Spec /\ Fairness

-----------------------------------------------------------------------------
\* Type invariant: only valid buffers are posted, queued and written.
TypeOK ==
  /\ life \in {"accepting", "live", "unstarted", "pooled", "destroyed"}
  /\ peer \in {"up", "eof", "down"}
  /\ rd \in {"none", "flow", "policy", "header", "body", "packet", "login"}
  /\ got \in {"waiting", "ok", "error"}
  /\ link \in {"none", "in", "out"}
  /\ sending \subseteq Buffers \cup {InvalidBuffer}
  /\ posted \in Seq(Buffers) /\ datas \in Seq(Buffers)
  /\ sent \in Seq(Buffers) /\ wire \in Seq(Buffers)
  /\ ops \subseteq [buf : Buffers \cup {PolicyFile}, result : {"waiting", "ok", "error"}]

\* Composed writes never overlap on the socket: neither two queued buffers,
\* nor a queued buffer and the policy file.  (async_write may take several
\* write_some calls, and write_allocator_ serves one operation.)
OneWrite == \A p, q \in ops : p = q

\* A user that can be sent to has a reader: while its session is linked some
\* read handler is due, which will notice when the peer is gone.
LinkedIsRead == link = "in" => rd # "none"

\* The queue advances: when m_datas is not empty, its front is being written,
\* or a write has failed, and then the connection is broken.
QueueAdvances ==
  life = "live" /\ peer # "down" =>
    /\ datas # <<>> => \E op \in ops : op.buf = Head(datas)
    /\ \A op \in ops : op.buf # PolicyFile => datas # <<>>

\* Buffers go out whole, in the order sent, none twice, none skipped.
Out == INSTANCE Outbox
OutboxSpec == Out!Spec

\* A buffer sent on a connection that stays up is written.
SentIsWritten ==
  \A b \in Buffers :
    (\E i \in 1..Len(sent) : sent[i] = b)
      ~> \/ \E i \in 1..Len(wire) : wire[i] = b
         \/ peer = "down" \/ life # "live"

\* When the peer stops sending or the connection breaks, the user is logged
\* out and the session released.
GoneIsReleased == (life = "live" /\ peer # "up") ~> (life # "live" /\ link # "in")
=============================================================================
