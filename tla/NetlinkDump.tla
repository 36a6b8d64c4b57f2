---------------------------- MODULE NetlinkDump ----------------------------
(***************************************************************************)
(* collector/socket-monitor_linux.go: OneType asks the kernel for the      *)
(* sockets of one family and reads the answer, datagram by datagram, until *)
(* a message ends it.  The kernel is any sender of the sockets of the dump *)
(* in order and of NLMSG_DONE; with Faults it may at any point end the     *)
(* dump early, report an error, answer without NLM_F_MULTI, or deliver a   *)
(* message that answers another request, and any system call may fail.     *)
(***************************************************************************)
EXTENDS NetlinkAnswer

CONSTANTS
    Sockets,     \* the messages of the sockets, in the order of the dump
    Faults       \* whether anything can go wrong

ASSUME NetlinkDumpAssumption ==
    Sockets \in Seq(NetlinkMessage) /\ Faults \in BOOLEAN

VARIABLES
    at,          \* where OneType is
    fd,          \* the netlink socket: "none", "open", "closed"
    dumped,      \* number of sockets the kernel has sent
    msgs,        \* the datagram received, as far as it is unread
    res,         \* res
    err,         \* whether OneType returns an error
    faulted      \* what has gone wrong: "no", "syscall", "kernel", "foreign"

dumpVars == <<at, fd, dumped, msgs, res, err, faulted>>

-----------------------------------------------------------------------------
(* The kernel's messages.  Errno is the first word of the payload of an     *)
(* NLMSG_ERROR, -1 when the payload is too short for one.                   *)

Reply(type, body) ==
    [Type |-> type, Seq |-> TRUE, Pid |-> TRUE, Multi |-> TRUE, Errno |-> -1,
     Body |-> body]

SocketReply(i) == Reply(SOCK_DIAG_BY_FAMILY, Sockets[i])
Done == Reply(NLMSG_DONE, ErrorMessage)

\* What may end the sockets 1 .. n in a datagram: nothing yet, the end of the
\* dump, what ends it too early, or a message that answers another request.
Endings(n) == {<<>>} \cup (IF n = Len(Sockets) THEN {<<Done>>} ELSE {})

Following(n) == IF n < Len(Sockets) THEN {SocketReply(n + 1)} ELSE {}

EarlyEndings(n) ==
    LET error == [Reply(NLMSG_ERROR, ErrorMessage) EXCEPT !.Multi = FALSE]
    IN  {<<m>> : m \in {Done, error, [error EXCEPT !.Errno = 0], [error EXCEPT !.Errno = 1]}
                        \cup {[m EXCEPT !.Multi = FALSE] : m \in Following(n)}}

ForeignEndings(n) ==
    {<<[m EXCEPT !.Seq = FALSE]>> : m \in {Done} \cup Following(n)}
      \cup {<<[m EXCEPT !.Pid = FALSE]>> : m \in {Done} \cup Following(n)}

-----------------------------------------------------------------------------
\* Mutant: the sequence number is not looked at.
processSingleMessageAnySeq(m) ==
    LET refused == ~m.Pid \/ (m.Type = NLMSG_ERROR /\ m.Errno = -1)
        ends == m.Type = NLMSG_DONE \/ (m.Type = NLMSG_ERROR /\ m.Errno = 0)
    IN  [keep |-> ~refused /\ ~ends, more |-> ~refused /\ ~ends /\ m.Multi,
         err |-> refused]

\* Mutant: the end of the dump is skipped like an acknowledgement.
processSingleMessageNoDone(m) ==
    LET refused == ~m.Seq \/ ~m.Pid \/ (m.Type = NLMSG_ERROR /\ m.Errno = -1)
        ends == m.Type = NLMSG_ERROR /\ m.Errno = 0
    IN  [keep |-> ~refused /\ ~ends /\ m.Type # NLMSG_DONE,
         more |-> ~refused /\ ~ends /\ m.Multi, err |-> refused]

\* Whether the message is kept, whether another one is expected, and whether
\* the answer is refused.  An error the kernel reports is kept like a socket.
processSingleMessage(m) ==
    LET refused == \/ ~m.Seq
                   \/ ~m.Pid
                   \/ m.Type = NLMSG_ERROR /\ m.Errno = -1
        ends == \/ m.Type = NLMSG_DONE
                \/ m.Type = NLMSG_ERROR /\ m.Errno = 0
    IN  [keep |-> ~refused /\ ~ends,
         more |-> ~refused /\ ~ends /\ m.Multi,
         err  |-> refused]

-----------------------------------------------------------------------------
(* OneType. *)

DumpInit ==
    /\ at = "subscribe"
    /\ fd = "none"
    /\ dumped = 0
    /\ msgs = <<>>
    /\ res = <<>>
    /\ err = FALSE
    /\ faulted = "no"

Subscribe ==
    /\ at = "subscribe"
    /\ fd' = "open"
    /\ at' = "send"
    /\ UNCHANGED <<dumped, msgs, res, err, faulted>>

SendAndGetPid ==
    /\ at \in {"send", "getpid"}
    /\ at' = IF at = "send" THEN "getpid" ELSE "receive"
    /\ UNCHANGED <<fd, dumped, msgs, res, err, faulted>>

\* Mutant: the socket is closed only at the end of the loop.
SyscallFailsLeaks ==
    /\ Faults
    /\ at \in {"subscribe", "send", "getpid", "receive"}
    /\ at' = "returned"
    /\ res' = <<>>
    /\ err' = TRUE
    /\ faulted' = "syscall"
    /\ UNCHANGED <<fd, dumped, msgs>>

\* Subscribe, Send, GetPid or Receive fails: the messages read are dropped, and
\* the deferred Close runs if there is a socket.
SyscallFails ==
    /\ Faults
    /\ at \in {"subscribe", "send", "getpid", "receive"}
    /\ at' = "returned"
    /\ fd' = IF at = "subscribe" THEN "none" ELSE "closed"
    /\ res' = <<>>
    /\ err' = TRUE
    /\ faulted' = "syscall"
    /\ UNCHANGED <<dumped, msgs>>

\* The next datagram: further sockets and what follows them.
ReceiveDatagram ==
    /\ at = "receive"
    /\ \E n \in dumped .. Len(Sockets) :
          LET more == [i \in 1 .. n - dumped |-> SocketReply(dumped + i)] IN
          /\ \/ /\ \E e \in Endings(n) : msgs' = more \o e
                /\ UNCHANGED faulted
             \/ /\ Faults
                /\ \E e \in EarlyEndings(n) : msgs' = more \o e
                /\ faulted' = "kernel"
             \/ /\ Faults
                /\ \E e \in ForeignEndings(n) : msgs' = more \o e
                /\ faulted' = "foreign"
          /\ msgs' # <<>>
          /\ dumped' = n
    /\ at' = "process"
    /\ UNCHANGED <<fd, res, err>>

Process ==
    /\ at = "process"
    /\ msgs # <<>>
    /\ LET p == processSingleMessage(Head(msgs)) IN
          /\ res' = IF p.keep THEN Append(res, Head(msgs).Body) ELSE res
          /\ err' = p.err
          /\ at' = IF p.more THEN "process" ELSE "returned"
          /\ fd' = IF p.more THEN fd ELSE "closed"
    /\ msgs' = Tail(msgs)
    /\ UNCHANGED <<dumped, faulted>>

\* Mutant: one datagram is taken for the whole answer.
ReceiveOnce ==
    /\ at = "process"
    /\ msgs = <<>>
    /\ at' = "returned"
    /\ fd' = "closed"
    /\ UNCHANGED <<dumped, msgs, res, err, faulted>>

ReceiveMore ==
    /\ at = "process"
    /\ msgs = <<>>
    /\ at' = "receive"
    /\ UNCHANGED <<fd, dumped, msgs, res, err, faulted>>

Returned == at = "returned" /\ UNCHANGED dumpVars

DumpNext ==
    \/ Subscribe \/ SendAndGetPid \/ SyscallFails
    \/ ReceiveDatagram \/ Process \/ ReceiveMore
    \/ Returned

DumpSpec == DumpInit /\ [][DumpNext]_dumpVars

\* The collector's goroutine runs, and the kernel goes on with its answer until
\* it has ended it.
FairDumpSpec == DumpSpec /\ WF_dumpVars(DumpNext)

-----------------------------------------------------------------------------
(* Properties. *)

\* What collectDefaultNamespace puts in the block.
InBlock == IF err THEN <<>> ELSE res

\* The collector's view of OneType is right: however the answer is cut into
\* datagrams and whatever goes wrong, the block gets one of the outcomes the
\* model of the program is built on, and the exact dump if nothing does.
AnswerAsAssumed == at = "returned" => InBlock \in Outcomes(Sockets, faulted # "no")

\* A message with another sequence number or port makes the whole answer
\* suspect: nothing of what was read before it reaches the saver.
ForeignDiscards == at = "returned" /\ faulted = "foreign" => InBlock = <<>>

\* The netlink socket does not leak: whichever return is taken, it is closed.
SocketClosed == at = "returned" => fd # "open"

\* OneType returns when the kernel has ended its answer: Receive has no timeout,
\* so a call too many would keep the collector waiting for ever.
DumpReturns == <>(at = "returned")

=============================================================================
