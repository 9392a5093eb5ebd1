----------------------------- MODULE FtpEngine ------------------------------
(***************************************************************************)
(* FtpEngine speaks FTP with blocking calls: it writes a command, waits    *)
(* for the control socket to have something to read, and takes all that    *)
(* has arrived for the answer to that command.  Nothing ties an answer to  *)
(* its command, so one answer left unread, or one that comes after the     *)
(* wait for it gave up, is taken for the answer to the next command.       *)
(*                                                                         *)
(* Both channels are in order and as slow as they please.  An answer       *)
(* arrives whole.  Of its text only what the code looks at is kept: the    *)
(* code 226, the address of a 227.                                         *)
(***************************************************************************)
EXTENDS Naturals, Sequences, SequencesExt

CONSTANTS
    Paths,     \* the remote files
    Listing,   \* what LIST transfers
    Size,      \* pieces a file, or a listing, is sent in
    MaxCalls   \* bound: calls of list and get

ASSUME PathsAssumption == Listing \notin Paths
ASSUME CommandsAssumption == (Paths \cup {Listing}) \cap {"USER", "PASS", "PASV"} = {}
ASSUME BoundsAssumption == Size \in Nat /\ MaxCalls \in Nat

VARIABLES
    pc,        \* where the client is, see Pcs
    calls,     \* calls of list and get made
    path,      \* m_path
    op,        \* what the current call of pasvMode is for, Listing or a path
    local,     \* the pieces in the local file
    listed,    \* the pieces the last call of list got
    late,      \* whether the client went on without an answer that was to come,
               \* since the engine connected (history variable)
    target,    \* what the local file was last opened for, and whether the client
               \* had not gone on so before (history variable)
    conn,      \* port the data socket is connected to
    cmds,      \* commands on their way to the server
    net,       \* answers on their way to the client
    wire,      \* pieces on their way over the data connection
    port,      \* the server's latest data port
    open,      \* whether that port is still good for a transfer
    transfer   \* the transfer the server is in, or Nothing

client == <<pc, calls, path, op, local, listed, target, late>>
server == <<port, open, transfer>>
vars == <<client, conn, cmds, net, wire, server>>

Objects == Paths \cup {Listing}

Nothing == [of |-> Listing, next |-> 0]

Content(x) == [n \in 1 .. Size |-> [of |-> x, n |-> n]]

\* Port 0 is no connection; Elsewhere, a host that is not the server.
Elsewhere == MaxCalls + 1
Ports == 0 .. MaxCalls

\* Answers: a 227 and its port, a 226, any other.
Answer(p) == [kind |-> "227", port |-> p]
End == [kind |-> "226", port |-> 0]
Other == [kind |-> "other", port |-> 0]
Answers == {Answer(p) : p \in Ports} \cup {End, Other}

Pcs == {"off", "greeting", "user", "pass", "refused", "idle", "pasv", "connect",
        "list", "listdata", "listend", "retr", "data"}

Calling == Pcs \ {"off", "refused", "idle"}

Init ==
    /\ pc = "off"
    /\ calls = 0
    /\ path \in Paths
    /\ op = Listing
    /\ local = <<>>
    /\ listed = <<>>
    /\ target = [path |-> path, timely |-> TRUE]
    /\ late = FALSE
    /\ conn = 0
    /\ cmds = <<>>
    /\ net = <<>>
    /\ wire = <<>>
    /\ port = 0
    /\ open = FALSE
    /\ transfer = Nothing

-----------------------------------------------------------------------------
\* The sockets, as the engine uses them.

\* sendCommand.
Send(c) == cmds' = Append(cmds, c)

\* waitForReadyRead and readAll on the control socket: what may have arrived.
Arrivals == {SubSeq(net, 1, n) : n \in 1 .. Len(net)}

Took(ba) == net' = SubSeq(net, Len(ba) + 1, Len(net))

\* The client has read ba.
Got(ba) == Took(ba) /\ late' = late

\* The call ends here.
Leaves == late' = (late \/ net' # <<>> \/ cmds # <<>> \/ transfer # Nothing)

\* waitForReadyRead returns false.
GaveUp ==
    /\ net' = net
    /\ late' = TRUE

\* What the connection to the server carried is gone with it.
DropAll ==
    /\ conn' = 0
    /\ cmds' = <<>>
    /\ wire' = <<>>
    /\ port' = 0
    /\ open' = FALSE
    /\ transfer' = Nothing

-----------------------------------------------------------------------------
\* connectToHost and close.

Connect ==
    /\ pc = "off"
    /\ calls < MaxCalls
    /\ pc' = "greeting"
    /\ net' = <<Other>>
    /\ UNCHANGED <<calls, path, op, local, listed, target, late, conn, cmds,
                   wire, server>>

\* The result of the wait for the greeting is ignored; without a user, that is
\* all.
Greeted ==
    /\ pc = "greeting"
    /\ GaveUp \/ \E ba \in Arrivals : Got(ba)
    /\ \/ pc' = "idle" /\ cmds' = cmds
       \/ pc' = "user" /\ Send("USER")
    /\ UNCHANGED <<calls, path, op, local, listed, target, conn, wire, server>>

UserAnswered ==
    /\ pc = "user"
    /\ \E ba \in Arrivals : Got(ba)
    /\ Send("PASS")
    /\ pc' = "pass"
    /\ UNCHANGED <<calls, path, op, local, listed, target, conn, wire, server>>

\* What the answer to PASS says is not looked at.
PassAnswered ==
    /\ pc = "pass"
    /\ \E ba \in Arrivals : Got(ba)
    /\ pc' = "idle"
    /\ UNCHANGED <<calls, path, op, local, listed, target, conn, cmds, wire,
                   server>>

LoginGivesUp ==
    /\ pc \in {"user", "pass"}
    /\ GaveUp
    /\ pc' = "refused"
    /\ UNCHANGED <<calls, path, op, local, listed, target, conn, cmds, wire,
                   server>>

\* close.
Close ==
    /\ pc \in {"idle", "refused"}
    /\ pc' = "off"
    /\ net' = <<>>
    /\ late' = FALSE
    /\ DropAll
    /\ UNCHANGED <<calls, path, op, local, listed, target>>

SetPath(f) ==
    /\ pc = "idle"
    /\ path' = f
    /\ UNCHANGED <<pc, calls, op, local, listed, target, late, conn, cmds, net,
                   wire, server>>
-----------------------------------------------------------------------------
\* pasvMode.

BeginPasv(x) ==
    /\ calls < MaxCalls
    /\ pc = "idle"
    /\ calls' = calls + 1
    /\ op' = x
    /\ Send("PASV")
    /\ pc' = "pasv"

List ==
    /\ BeginPasv(Listing)
    /\ listed' = <<>>
    /\ UNCHANGED <<path, local, target, late, conn, net, wire, server>>

Get ==
    /\ BeginPasv(path)
    /\ UNCHANGED <<path, local, listed, target, late, conn, net, wire, server>>

\* Whether ba holds more than five numbers after the first; where they lead,
\* when the first number is not the code of the 227.
HasAddress(ba) == \E i \in DOMAIN ba : ba[i].kind = "227"

AddressMutant(ba) == ba[1].port * 256 + 255  \* of the first answer, whatever it is

Address(ba) == IF ba[1].kind = "227" THEN ba[1].port ELSE Elsewhere

PasvParsedMutant(ba) ==  \* the data socket keeps what it has not read
    /\ Got(ba)
    /\ \/ /\ HasAddress(ba)
          /\ conn' = Address(ba)
          /\ wire' = wire
          /\ pc' = "connect"
       \/ /\ ~HasAddress(ba)
          /\ pc' = "idle"
          /\ UNCHANGED <<conn, wire>>

\* With an address the data socket is closed and connected anew.
PasvParsed(ba) ==
    /\ Got(ba)
    /\ \/ /\ HasAddress(ba)
          /\ conn' = Address(ba)
          /\ wire' = <<>>
          /\ pc' = "connect"
       \/ /\ ~HasAddress(ba)
          /\ pc' = "idle"
          /\ UNCHANGED <<conn, wire>>

PasvAnswered ==
    /\ pc = "pasv"
    /\ \E ba \in Arrivals : PasvParsed(ba)
    /\ UNCHANGED <<calls, path, op, local, listed, target, cmds, server>>

PasvGivesUp ==
    /\ pc = "pasv"
    /\ GaveUp
    /\ pc' = "idle"
    /\ UNCHANGED <<calls, path, op, local, listed, target, conn, cmds, wire,
                   server>>

\* The connection is made, if the server still takes it, and the command is sent.
DataConnected ==
    /\ pc = "connect"
    /\ conn = Elsewhere \/ (conn = port /\ open)
    /\ Send(op)
    /\ pc' = IF op = Listing THEN "list" ELSE "retr"
    /\ UNCHANGED <<calls, path, op, local, listed, target, late, conn, net, wire,
                   server>>

DataRefused ==
    /\ pc = "connect"
    /\ conn' = 0
    /\ pc' = "idle"
    /\ UNCHANGED <<calls, path, op, local, listed, target, late, cmds, net, wire,
                   server>>

-----------------------------------------------------------------------------
\* The rest of list.

ListAnswered ==
    /\ pc = "list"
    /\ \E ba \in Arrivals : Got(ba)
    /\ pc' = "listdata"
    /\ UNCHANGED <<calls, path, op, local, listed, target, conn, cmds, wire,
                   server>>

\* What has arrived of the listing is taken for all of it.
ListRead(n) ==
    /\ pc = "listdata"
    /\ listed' = SubSeq(wire, 1, n)
    /\ wire' = SubSeq(wire, n + 1, Len(wire))
    /\ pc' = "listend"
    /\ UNCHANGED <<calls, path, op, local, target, late, conn, cmds, net, server>>

\* The answer to LIST, or the listing, does not come.
ListGivesUp ==
    /\ \/ pc = "list" /\ GaveUp
       \/ pc = "listdata" /\ net' = net /\ Leaves
    /\ pc' = "idle"
    /\ UNCHANGED <<calls, path, op, local, listed, target, conn, cmds, wire,
                   server>>

\* The last wait may give up: list returns NoError all the same.
ListEnd ==
    /\ pc = "listend"
    /\ GaveUp \/ \E ba \in Arrivals : Got(ba)
    /\ pc' = "idle"
    /\ UNCHANGED <<calls, path, op, local, listed, target, conn, cmds, wire,
                   server>>

-----------------------------------------------------------------------------
\* The rest of get.

Finished(ba) == ba # <<>> /\ ba[1].kind = "226"

OpenFileMutant ==  \* the file keeps what it held
    /\ local' = local
    /\ target' = [path |-> path, timely |-> ~late]

\* The local file is opened, and empty.
OpenFile ==
    /\ local' = <<>>
    /\ target' = [path |-> path, timely |-> ~late]

RetrAnswered ==
    /\ pc = "retr"
    /\ OpenFile
    /\ \E ba \in Arrivals :
          Got(ba) /\ pc' = IF Finished(ba) THEN "idle" ELSE "data"
    /\ UNCHANGED <<calls, path, op, listed, conn, cmds, wire, server>>

\* The answer to RETR does not come, or the local file cannot be opened.
RetrFails ==
    /\ pc = "retr"
    /\ GaveUp \/ \E ba \in Arrivals : Took(ba) /\ Leaves
    /\ pc' = "idle"
    /\ UNCHANGED <<calls, path, op, local, listed, target, conn, cmds, wire,
                   server>>

\* One round of the loop: n pieces are written, then what the control socket
\* holds, if anything, is looked at.
GetRead(n) ==
    /\ pc = "data"
    /\ local' = local \o SubSeq(wire, 1, n)
    /\ wire' = SubSeq(wire, n + 1, Len(wire))
    /\ \E ba \in Arrivals \cup {<<>>} :
          Got(ba) /\ pc' = IF Finished(ba) THEN "idle" ELSE "data"
    /\ UNCHANGED <<calls, path, op, listed, target, conn, cmds, server>>

GetTimeoutMutant ==  \* the wait has no limit: it ends with the transfer only
    /\ pc = "data"
    /\ wire = <<>> /\ transfer = Nothing /\ cmds = <<>> /\ net # <<>>
    /\ net' = net /\ Leaves
    /\ pc' = "idle"
    /\ UNCHANGED <<calls, path, op, local, listed, target, conn, cmds, wire,
                   server>>

\* No data for a second, or no more at all: get is done, and emits finished.
GetTimeout ==
    /\ pc = "data"
    /\ net' = net /\ Leaves
    /\ pc' = "idle"
    /\ UNCHANGED <<calls, path, op, local, listed, target, conn, cmds, wire,
                   server>>

-----------------------------------------------------------------------------
\* The server.  It takes commands in order, one after the other.

ServeNext ==
    /\ pc # "off"
    /\ cmds # <<>>
    /\ transfer = Nothing
    /\ cmds' = Tail(cmds)
    /\ UNCHANGED <<client, conn, wire>>

Says(a) == net' = Append(net, a)

\* USER and PASS, accepted or not, and any command it refuses.
ServerReplies ==
    /\ ServeNext
    /\ Says(Other)
    /\ UNCHANGED server

\* A PASV gives a port of its own, and ends the one before.
ServerListens ==
    /\ ServeNext
    /\ Head(cmds) = "PASV"
    /\ port' = port + 1
    /\ open' = TRUE
    /\ Says(Answer(port'))
    /\ UNCHANGED transfer

\* LIST and RETR, with the client connected to the latest port.
ServerStarts ==
    /\ ServeNext
    /\ Head(cmds) \in Objects
    /\ open /\ conn = port
    /\ transfer' = [of |-> Head(cmds), next |-> 1]
    /\ open' = FALSE
    /\ Says(Other)
    /\ UNCHANGED port

ServerSends ==
    /\ transfer # Nothing
    /\ conn = port
    /\ transfer.next <= Size
    /\ wire' = Append(wire, [of |-> transfer.of, n |-> transfer.next])
    /\ transfer' = [transfer EXCEPT !.next = @ + 1]
    /\ UNCHANGED <<client, conn, cmds, net, port, open>>

ServerEnds ==
    /\ transfer # Nothing
    /\ transfer.next > Size
    /\ Says(End)
    /\ transfer' = Nothing
    /\ UNCHANGED <<client, conn, cmds, wire, port, open>>

\* The client has closed the data connection, or something went wrong.
ServerAborts ==
    /\ transfer # Nothing
    /\ Says(Other)
    /\ transfer' = Nothing
    /\ UNCHANGED <<client, conn, cmds, wire, port, open>>

-----------------------------------------------------------------------------
Client ==
    \/ Greeted \/ UserAnswered \/ PassAnswered \/ LoginGivesUp
    \/ PasvAnswered \/ PasvGivesUp \/ DataConnected \/ DataRefused
    \/ ListAnswered \/ ListGivesUp \/ ListEnd
    \/ RetrAnswered \/ RetrFails \/ GetTimeout
    \/ \E n \in 1 .. Len(wire) : ListRead(n) \/ GetRead(n)

Application ==
    \/ Connect \/ Close \/ List \/ Get
    \/ \E f \in Paths : SetPath(f)

Server ==
    \/ ServerReplies \/ ServerListens \/ ServerStarts
    \/ ServerSends \/ ServerEnds \/ ServerAborts

Next == Client \/ Application \/ Server

\* Every wait of the client has a timeout, so the client always goes on.  Nothing
\* is assumed of the server.
Spec == Init /\ [][Next]_vars /\ WF_vars(Client)

-----------------------------------------------------------------------------
\* Properties.

Pieces == Seq([of : Objects, n : 1 .. Size])

\* The types of the engine's and the server's state.
TypeOK ==
    /\ pc \in Pcs
    /\ calls \in 0 .. MaxCalls
    /\ path \in Paths
    /\ op \in Objects
    /\ local \in Pieces
    /\ listed \in Pieces
    /\ late \in BOOLEAN
    /\ target \in [path : Paths, timely : BOOLEAN]
    /\ conn \in Ports \cup {Elsewhere}
    /\ cmds \in Seq({"USER", "PASS", "PASV"} \cup Objects)
    /\ net \in Seq(Answers)
    /\ wire \in Pieces
    /\ port \in Ports
    /\ open \in BOOLEAN
    /\ transfer \in [of : Objects, next : 0 .. Size + 1]

\* Whatever was late or lost, the local file never mixes two transfers: it is the
\* beginning, without a gap, of one thing the server has.
OneTransfer == \E x \in Objects : IsPrefix(local, Content(x))

\* get downloads the remote file set by setPath into the local path.
RightFile == IsPrefix(local, Content(target.path))

\* As long as no wait for an answer gave up, and no call ended with one still to
\* come, get and list write and return pieces of what they were asked for.
RightIfTimely ==
    /\ target.timely => RightFile
    /\ pc = "listend" /\ ~late => IsPrefix(listed, Content(Listing))

\* connectToHost, list and get return, whatever the server does with a file or a
\* listing of finite size (one that sends for ever keeps get reading).
CallsReturn == pc \in Calling ~> pc \notin Calling
=============================================================================
