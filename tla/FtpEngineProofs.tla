--------------------------- MODULE FtpEngineProofs ---------------------------
(***************************************************************************)
(* Proofs about FtpEngine, for any files, of any size, and any number of   *)
(* calls.                                                                  *)
(***************************************************************************)
EXTENDS FtpEngine, FiniteSetTheorems, SequenceTheorems, TLAPS

\* Every call of list and get sends one PASV, and the server gives at most one
\* port for it.
Pasvs == {i \in DOMAIN cmds : cmds[i] = "PASV"}
PortsLeft == port + Cardinality(Pasvs) <= calls

\* The addresses in the answers under way are ports the server has given, each
\* once.  That of the latest port is read before a connection to it is made, and
\* a transfer takes such a connection.
Ports227 == {i \in DOMAIN net : net[i].kind = "227"}

PortsOnce ==
    /\ \A i \in Ports227 : net[i].port \in 1 .. port
    /\ \A i, j \in Ports227 : net[i].port = net[j].port => i = j
    /\ conn = port \/ ~open => \A i \in Ports227 : net[i].port # port
    /\ conn \in 0 .. port \cup {Elsewhere}

OnePerPort == transfer # Nothing => transfer.next >= 1 /\ ~open

\* What arrived over the data connection the client reads: what it has taken, and
\* what it has not.
Receiving == {"connect", "list", "listdata", "listend", "retr", "data"}
Taken == IF pc = "data" THEN local ELSE IF pc = "listend" THEN listed ELSE <<>>
Received == Taken \o wire

\* It is a beginning of one thing, all that the server has sent of it if the
\* transfer still goes on, and of what was asked for if nothing was late.  Before
\* the transfer of a data connection starts, nothing has come.
Arrived(x) ==
    /\ IsPrefix(Received, Content(x))
    /\ ~late => x = op
    /\ conn = port /\ transfer # Nothing =>
           x = transfer.of /\ Len(Received) = transfer.next - 1
    /\ conn = port /\ open => Received = <<>>

Contiguous == pc \in Receiving => \E x \in Objects : Arrived(x)

\* What the current call is for.
OpIs ==
    /\ pc \in {"pasv", "connect"} => op \in {Listing, path}
    /\ pc \in {"list", "listdata", "listend"} => op = Listing
    /\ pc \in {"retr", "data"} => op = path
    /\ pc = "data" => target.path = path /\ (target.timely => ~late)

\* Client and server are in step until something is late: at most one command is
\* under way, and it is for the current call.
InStep ==
    ~late =>
        /\ pc # "refused"
        /\ pc \in {"off", "idle", "connect"} =>
               net = <<>> /\ cmds = <<>> /\ transfer = Nothing
        /\ pc = "greeting" => Len(net) = 1 /\ cmds = <<>> /\ transfer = Nothing
        /\ pc \in {"user", "pass", "pasv"} =>
               /\ transfer = Nothing
               /\ \/ net = <<>> /\ Len(cmds) = 1 /\ cmds[1] \notin Objects
                  \/ Len(net) = 1 /\ cmds = <<>>
        /\ pc \in {"list", "retr"} =>
               \/ net = <<>> /\ cmds = <<op>> /\ transfer = Nothing
               \/ Len(net) = 1 /\ net[1] = Other /\ cmds = <<>>
               \/ Len(net) = 2 /\ net[1] = Other /\ cmds = <<>> /\ transfer = Nothing
        /\ pc \in {"listdata", "listend", "data"} =>
               /\ cmds = <<>>
               /\ net = <<>> \/ (Len(net) = 1 /\ transfer = Nothing)

IInv ==
    /\ TypeOK
    /\ PortsLeft
    /\ PortsOnce
    /\ OnePerPort
    /\ Contiguous
    /\ OpIs
    /\ InStep
    /\ OneTransfer
    /\ target.timely => RightFile

-----------------------------------------------------------------------------
\* Sequences.

Piece == [of : Objects, n : 1 .. Size]
Commands == {"USER", "PASS", "PASV"} \cup Objects

LEMMA Shapes ==
    ASSUME TypeOK
    PROVE  /\ net \in Seq(Answers) /\ Len(net) \in Nat /\ DOMAIN net = 1 .. Len(net)
           /\ \A i \in DOMAIN net : net[i] \in Answers
           /\ cmds \in Seq(Commands) /\ Len(cmds) \in Nat /\ DOMAIN cmds = 1 .. Len(cmds)
           /\ wire \in Seq(Piece) /\ local \in Seq(Piece) /\ listed \in Seq(Piece)
           /\ Len(wire) \in Nat
           /\ port \in Nat /\ calls \in Nat
<1>1. /\ net \in Seq(Answers) /\ cmds \in Seq(Commands)
      /\ wire \in Seq(Piece) /\ local \in Seq(Piece) /\ listed \in Seq(Piece)
  BY DEF TypeOK, Pieces, Piece, Commands
<1>2. /\ Len(net) \in Nat /\ DOMAIN net = 1 .. Len(net)
      /\ Len(cmds) \in Nat /\ DOMAIN cmds = 1 .. Len(cmds) /\ Len(wire) \in Nat
  BY <1>1, LenProperties
<1>3. \A i \in DOMAIN net : net[i] \in Answers
  BY <1>1, <1>2, ElementOfSeq
<1>4. QED
  BY <1>1, <1>2, <1>3, BoundsAssumption DEF TypeOK, Ports

\* A sequence in two parts.
LEMMA Parts ==
    ASSUME NEW S, NEW s \in Seq(S), NEW n \in 0 .. Len(s)
    PROVE  /\ SubSeq(s, 1, n) \in Seq(S) /\ Len(SubSeq(s, 1, n)) = n
           /\ \A i \in 1 .. n : SubSeq(s, 1, n)[i] = s[i]
           /\ SubSeq(s, n + 1, Len(s)) \in Seq(S)
           /\ Len(SubSeq(s, n + 1, Len(s))) = Len(s) - n
           /\ \A i \in 1 .. Len(s) - n : SubSeq(s, n + 1, Len(s))[i] = s[i + n]
<1>1. Len(s) \in Nat /\ DOMAIN s = 1 .. Len(s) /\ \A i \in 1 .. Len(s) : s[i] \in S
  BY LenProperties, ElementOfSeq
<1>2. /\ SubSeq(s, 1, n) \in Seq(S) /\ Len(SubSeq(s, 1, n)) = n
      /\ \A i \in 1 .. n : SubSeq(s, 1, n)[i] = s[i]
  BY <1>1, SubSeqProperties
<1>3. /\ SubSeq(s, n + 1, Len(s)) \in Seq(S)
      /\ Len(SubSeq(s, n + 1, Len(s))) = Len(s) - n
      /\ \A i \in 1 .. Len(s) - n : SubSeq(s, n + 1, Len(s))[i] = s[i + n]
  <2> DEFINE m == n + 1
             t == SubSeq(s, m, Len(s))
  <2>1. m \in Int /\ m <= Len(s) + 1 /\ \A i \in m .. Len(s) : s[i] \in S
    BY <1>1
  <2> HIDE DEF m
  <2>2. /\ t \in Seq(S) /\ Len(t) = IF m <= Len(s) THEN Len(s) - m + 1 ELSE 0
        /\ \A i \in 1 .. Len(s) - m + 1 : t[i] = s[m + i - 1]
    BY <1>1, <2>1, SubSeqProperties
  <2>3. Len(t) = Len(s) - n /\ \A i \in 1 .. Len(s) - n : t[i] = s[i + n]
    <3> HIDE DEF t
    <3>1. m = n + 1 /\ n \in Nat /\ n <= Len(s) /\ Len(s) \in Nat
      BY <1>1 DEF m
    <3>2. \A i \in 1 .. Len(s) - n : i \in 1 .. Len(s) - m + 1 /\ m + i - 1 = i + n
      BY <3>1
    <3>3. QED
      BY <2>2, <3>1, <3>2
  <2>4. QED
    BY <2>2, <2>3 DEF m
<1>4. QED
  BY <1>2, <1>3

\* What the client reads, if anything, is the front of what is under way.
LEMMA Reading ==
    ASSUME TypeOK, NEW ba \in Arrivals \cup {<<>>}, Took(ba)
    PROVE  /\ Len(ba) \in 0 .. Len(net)
           /\ ba \in Arrivals => Len(ba) >= 1
           /\ \A i \in 1 .. Len(ba) : ba[i] = net[i]
           /\ DOMAIN ba = 1 .. Len(ba)
           /\ net' \in Seq(Answers) /\ Len(net') = Len(net) - Len(ba)
           /\ DOMAIN net' = 1 .. Len(net) - Len(ba)
           /\ \A i \in 1 .. Len(net') : net'[i] = net[i + Len(ba)]
<1>1. net \in Seq(Answers) /\ Len(net) \in Nat
  BY Shapes
<1>2. /\ Len(ba) \in 0 .. Len(net)
      /\ ba \in Arrivals => Len(ba) >= 1
      /\ \A i \in 1 .. Len(ba) : ba[i] = net[i]
      /\ DOMAIN ba = 1 .. Len(ba)
  <2>1. CASE ba = <<>>
    <3>1. Len(ba) = 0 /\ DOMAIN ba = {}
      BY <2>1
    <3>2. \A n \in 1 .. Len(net) : Len(SubSeq(net, 1, n)) = n
      BY <1>1, Parts
    <3>3. ba \notin Arrivals
      BY <1>1, <3>1, <3>2 DEF Arrivals
    <3>4. QED
      BY <1>1, <3>1, <3>3
  <2>2. ASSUME NEW n \in 1 .. Len(net), ba = SubSeq(net, 1, n)
        PROVE  /\ Len(ba) \in 0 .. Len(net)
               /\ ba \in Arrivals => Len(ba) >= 1
               /\ \A i \in 1 .. Len(ba) : ba[i] = net[i]
               /\ DOMAIN ba = 1 .. Len(ba)
    <3>1. ba \in Seq(Answers) /\ Len(ba) = n /\ \A i \in 1 .. n : ba[i] = net[i]
      BY <1>1, <2>2, Parts
    <3>2. QED
      BY <1>1, <3>1, LenProperties
  <2>3. QED
    BY <2>1, <2>2 DEF Arrivals
<1>3. /\ net' \in Seq(Answers) /\ Len(net') = Len(net) - Len(ba)
      /\ \A i \in 1 .. Len(net) - Len(ba) : net'[i] = net[i + Len(ba)]
  BY <1>1, <1>2, Parts DEF Took
<1>4. QED
  BY <1>2, <1>3, LenProperties

\* The answer the server adds.
LEMMA Saying ==
    ASSUME TypeOK, NEW a \in Answers, Says(a)
    PROVE  /\ net' \in Seq(Answers) /\ Len(net') = Len(net) + 1
           /\ DOMAIN net' = 1 .. Len(net) + 1
           /\ \A i \in 1 .. Len(net) : net'[i] = net[i]
           /\ net'[Len(net) + 1] = a
BY Shapes, AppendProperties, LenProperties DEF Says

LEMMA Sending ==
    ASSUME TypeOK, NEW c \in Commands, Send(c)
    PROVE  /\ cmds' \in Seq(Commands) /\ Len(cmds') = Len(cmds) + 1
           /\ DOMAIN cmds' = 1 .. Len(cmds) + 1
           /\ \A i \in 1 .. Len(cmds) : cmds'[i] = cmds[i]
           /\ cmds'[Len(cmds) + 1] = c
BY Shapes, AppendProperties, LenProperties DEF Send

\* The command the server takes.
LEMMA Serving ==
    ASSUME TypeOK, ServeNext
    PROVE  /\ cmds' \in Seq(Commands) /\ Len(cmds) >= 1 /\ Len(cmds') = Len(cmds) - 1
           /\ Head(cmds) = cmds[1] /\ Head(cmds) \in Commands
           /\ DOMAIN cmds' = 1 .. Len(cmds) - 1
           /\ \A i \in 1 .. Len(cmds) - 1 : cmds'[i] = cmds[i + 1]
<1>1. cmds \in Seq(Commands) /\ cmds # <<>> /\ Len(cmds) \in Nat
  BY Shapes DEF ServeNext
<1>2. /\ Len(cmds) >= 1 /\ Head(cmds) = cmds[1] /\ Head(cmds) \in Commands
      /\ Tail(cmds) \in Seq(Commands) /\ Len(Tail(cmds)) = Len(cmds) - 1
      /\ \A i \in 1 .. Len(cmds) - 1 : Tail(cmds)[i] = cmds[i + 1]
  BY <1>1, HeadTailProperties, EmptySeq, LenProperties
<1>3. QED
  BY <1>2, LenProperties DEF ServeNext

\* A beginning of something.
LEMMA Beginning ==
    ASSUME NEW x \in Objects, NEW s \in Seq(Piece)
    PROVE  IsPrefix(s, Content(x)) <=>
               Len(s) <= Size /\ \A i \in 1 .. Len(s) : s[i] = [of |-> x, n |-> i]
<1>1. /\ Content(x) \in Seq(Piece) /\ Len(Content(x)) = Size
      /\ \A i \in 1 .. Size : Content(x)[i] = [of |-> x, n |-> i]
  <2>1. Content(x) \in [1 .. Size -> Piece]
    BY DEF Content, Piece
  <2>2. Content(x) \in Seq(Piece)
    BY <2>1, BoundsAssumption, SeqDef
  <2>3. QED
    BY <2>1, <2>2, BoundsAssumption, LenProperties DEF Content
<1>2. Len(s) \in Nat
  BY LenProperties
<1>3. CASE Len(s) <= Size
  <2>1. /\ SubSeq(s, 1, Len(s)) \in Seq(Piece) /\ Len(SubSeq(s, 1, Len(s))) = Len(s)
        /\ \A i \in 1 .. Len(s) : SubSeq(s, 1, Len(s))[i] = s[i]
    BY <1>2, Parts
  <2>2. /\ SubSeq(Content(x), 1, Len(s)) \in Seq(Piece)
        /\ Len(SubSeq(Content(x), 1, Len(s))) = Len(s)
        /\ \A i \in 1 .. Len(s) : SubSeq(Content(x), 1, Len(s))[i] = [of |-> x, n |-> i]
    BY <1>1, <1>2, <1>3, Parts, BoundsAssumption
  <2>3. SubSeq(s, 1, Len(s)) = SubSeq(Content(x), 1, Len(s)) <=>
            \A i \in 1 .. Len(s) : s[i] = [of |-> x, n |-> i]
    BY <2>1, <2>2, SeqEqual
  <2>4. QED
    BY <1>1, <1>3, <2>3 DEF IsPrefix
<1>4. CASE ~(Len(s) <= Size)
  BY <1>1, <1>4 DEF IsPrefix
<1>5. QED
  BY <1>3, <1>4

-----------------------------------------------------------------------------
\* The PASVs under way.

LEMMA PasvsFinite ==
    ASSUME TypeOK
    PROVE  IsFiniteSet(Pasvs) /\ Cardinality(Pasvs) \in Nat
<1>1. IsFiniteSet(1 .. Len(cmds))
  BY Shapes, FS_Interval
<1>2. Pasvs \subseteq 1 .. Len(cmds)
  BY Shapes DEF Pasvs
<1>3. IsFiniteSet(Pasvs)
  BY <1>1, <1>2, FS_Subset
<1>4. QED
  BY <1>3, FS_CardinalityType

LEMMA PasvsSent ==
    ASSUME TypeOK, NEW c \in Commands, Send(c)
    PROVE  /\ c = "PASV" => Cardinality(Pasvs)' = Cardinality(Pasvs) + 1
           /\ c # "PASV" => Cardinality(Pasvs)' = Cardinality(Pasvs)
<1> DEFINE m == Len(cmds) + 1
<1>1. /\ Len(cmds) \in Nat /\ DOMAIN cmds = 1 .. Len(cmds) /\ DOMAIN cmds' = 1 .. m
      /\ \A i \in 1 .. Len(cmds) : cmds'[i] = cmds[i]
      /\ cmds'[m] = c
  BY Shapes, Sending
<1>2. CASE c = "PASV"
  <2>1. Pasvs' = Pasvs \cup {m} /\ m \notin Pasvs
    BY <1>1, <1>2 DEF Pasvs
  <2>2. Cardinality(Pasvs \cup {m}) = Cardinality(Pasvs) + 1
    BY <2>1, PasvsFinite, FS_AddElement
  <2>3. QED
    BY <1>2, <2>1, <2>2
<1>3. CASE c # "PASV"
  <2>1. Pasvs' = Pasvs
    BY <1>1, <1>3 DEF Pasvs
  <2>2. QED
    BY <1>3, <2>1
<1>4. QED
  BY <1>2, <1>3

LEMMA PasvsServed ==
    ASSUME TypeOK, ServeNext
    PROVE  /\ Cardinality(Pasvs)' <= Cardinality(Pasvs)
           /\ Head(cmds) = "PASV" => Cardinality(Pasvs)' <= Cardinality(Pasvs) - 1
           /\ Cardinality(Pasvs)' \in Nat
<1> DEFINE rest == Pasvs \ {1}
           f == [i \in rest |-> i - 1]
<1>1. /\ Len(cmds) \in Nat /\ Len(cmds) >= 1
      /\ DOMAIN cmds = 1 .. Len(cmds) /\ DOMAIN cmds' = 1 .. Len(cmds) - 1
      /\ \A i \in 1 .. Len(cmds) - 1 : cmds'[i] = cmds[i + 1]
      /\ Head(cmds) = cmds[1]
  BY Shapes, Serving
<1>2. IsFiniteSet(rest)
  BY PasvsFinite, FS_RemoveElement
<1>3. f \in Surjection(rest, Pasvs')
  <2>1. ASSUME NEW j \in Pasvs' PROVE \E i \in rest : f[i] = j
    <3>1. j + 1 \in rest /\ f[j + 1] = j
      BY <1>1, <2>1 DEF Pasvs
    <3>2. QED
      BY <3>1
  <2>2. ASSUME NEW i \in rest PROVE f[i] \in Pasvs'
    <3>1. i \in 2 .. Len(cmds) /\ cmds[i] = "PASV"
      BY <1>1, <2>2 DEF Pasvs
    <3>2. i - 1 \in 1 .. Len(cmds) - 1 /\ (i - 1) + 1 = i
      BY <1>1, <3>1
    <3>3. cmds'[i - 1] = "PASV"
      BY <1>1, <3>1, <3>2
    <3>4. QED
      BY <1>1, <2>2, <3>2, <3>3 DEF Pasvs
  <2>3. f \in [rest -> Pasvs']
    BY <2>2
  <2>4. QED
    BY <2>1, <2>3 DEF Surjection
<1> HIDE DEF f
<1>4. IsFiniteSet(Pasvs') /\ Cardinality(Pasvs') <= Cardinality(rest)
  BY <1>2, <1>3, FS_Surjection
<1>5. /\ Cardinality(rest) \in Nat /\ Cardinality(Pasvs') \in Nat
      /\ Cardinality(Pasvs) \in Nat
  BY <1>2, <1>4, PasvsFinite, FS_CardinalityType
<1>6. Cardinality(rest) = IF 1 \in Pasvs THEN Cardinality(Pasvs) - 1 ELSE Cardinality(Pasvs)
  BY PasvsFinite, FS_RemoveElement
<1>7. Head(cmds) = "PASV" => 1 \in Pasvs
  BY <1>1 DEF Pasvs
<1>8. QED
  BY <1>4, <1>5, <1>6, <1>7

-----------------------------------------------------------------------------
\* Types.

LEMMA TypeInit == Init => TypeOK
<1> SUFFICES ASSUME Init PROVE TypeOK
  OBVIOUS
<1>1. Nothing \in [of : Objects, next : 0 .. Size + 1]
  BY BoundsAssumption DEF Nothing, Objects
<1>2. /\ <<>> \in Pieces /\ <<>> \in Seq(Answers)
      /\ <<>> \in Seq({"USER", "PASS", "PASV"} \cup Objects)
  BY EmptySeq DEF Pieces
<1>3. 0 \in Ports /\ 0 \in 0 .. MaxCalls
  BY BoundsAssumption DEF Ports
<1>4. target \in [path : Paths, timely : BOOLEAN] /\ Listing \in Objects
  BY DEF Init, Objects
<1>5. QED
  BY <1>1, <1>2, <1>3, <1>4 DEF Init, TypeOK, Pcs

LEMMA NothingType == Nothing \in [of : Objects, next : 0 .. Size + 1]
BY BoundsAssumption DEF Nothing, Objects

\* What the client does with the control socket.
LEMMA NetType ==
    ASSUME TypeOK
    PROVE  /\ GaveUp => net' \in Seq(Answers) /\ late' \in BOOLEAN
           /\ \A ba \in Arrivals \cup {<<>>} : Took(ba) => net' \in Seq(Answers)
           /\ Leaves => late' \in BOOLEAN
           /\ \A ba : Got(ba) => Took(ba) /\ late' = late
<1>1. ASSUME NEW ba \in Arrivals \cup {<<>>}, Took(ba) PROVE net' \in Seq(Answers)
  BY <1>1, Reading
<1>2. QED
  BY <1>1 DEF GaveUp, Leaves, Got, TypeOK

\* What the client does with the data socket.
LEMMA WireType ==
    ASSUME TypeOK, NEW n \in 1 .. Len(wire)
    PROVE  /\ SubSeq(wire, 1, n) \in Pieces
           /\ SubSeq(wire, n + 1, Len(wire)) \in Pieces
           /\ local \o SubSeq(wire, 1, n) \in Pieces
<1>1. wire \in Seq(Piece) /\ local \in Seq(Piece) /\ Len(wire) \in Nat
  BY Shapes
<1>2. SubSeq(wire, 1, n) \in Seq(Piece) /\ SubSeq(wire, n + 1, Len(wire)) \in Seq(Piece)
  BY <1>1, Parts
<1>3. local \o SubSeq(wire, 1, n) \in Seq(Piece)
  BY <1>1, <1>2, ConcatProperties
<1>4. QED
  BY <1>2, <1>3 DEF Pieces, Piece

LEMMA TypeApplication ==
    ASSUME TypeOK, Application
    PROVE  TypeOK'
<1>1. CASE Connect
  <2>1. <<Other>> \in Seq(Answers)
    BY DEF Other, Answers
  <2>2. QED
    BY <1>1, <2>1 DEF Connect, TypeOK, Pcs, server
<1>2. CASE Close
  <2>1. /\ <<>> \in Pieces /\ <<>> \in Seq(Answers)
        /\ <<>> \in Seq({"USER", "PASS", "PASV"} \cup Objects)
    BY EmptySeq DEF Pieces
  <2>2. 0 \in Ports
    BY BoundsAssumption DEF Ports
  <2>3. /\ pc' \in Pcs /\ conn' \in Ports \cup {Elsewhere} /\ port' \in Ports
        /\ open' \in BOOLEAN /\ late' \in BOOLEAN
        /\ transfer' \in [of : Objects, next : 0 .. Size + 1]
    BY <1>2, <2>2, NothingType DEF Close, DropAll, Pcs
  <2>4. QED
    BY <1>2, <2>1, <2>3 DEF Close, DropAll, TypeOK
<1>3. ASSUME NEW x \in Objects, BeginPasv(x)
      PROVE  /\ pc' \in Pcs /\ calls' \in 0 .. MaxCalls /\ op' \in Objects
             /\ cmds' \in Seq(Commands)
  <2>1. cmds' \in Seq(Commands)
    BY <1>3, Sending DEF BeginPasv, Commands
  <2>2. QED
    BY <1>3, <2>1, BoundsAssumption DEF BeginPasv, Pcs, TypeOK
<1>4. CASE List
  <2>1. <<>> \in Pieces /\ Listing \in Objects
    BY EmptySeq DEF Pieces, Objects
  <2>2. QED
    BY <1>3, <1>4, <2>1 DEF List, TypeOK, server, Commands
<1>5. CASE Get
  <2>1. path \in Objects
    BY DEF TypeOK, Objects
  <2>2. QED
    BY <1>3, <1>5, <2>1 DEF Get, TypeOK, server, Commands
<1>6. ASSUME NEW f \in Paths, SetPath(f) PROVE TypeOK'
  BY <1>6 DEF SetPath, TypeOK, server
<1>7. QED
  BY <1>1, <1>2, <1>4, <1>5, <1>6 DEF Application

LEMMA TypeClient ==
    ASSUME TypeOK, Client
    PROVE  TypeOK'
<1> USE NetType DEF TypeOK, Pcs, server
<1>1. CASE Greeted
  <2>1. "USER" \in Commands
    BY DEF Commands
  <2>2. cmds' \in Seq(Commands)
    BY <1>1, <2>1, Sending, Shapes DEF Greeted
  <2>3. QED
    BY <1>1, <2>2 DEF Greeted, Commands
<1>2. CASE UserAnswered
  <2>1. "PASS" \in Commands
    BY DEF Commands
  <2>2. cmds' \in Seq(Commands)
    BY <1>2, <2>1, Sending DEF UserAnswered
  <2>3. QED
    BY <1>2, <2>2 DEF UserAnswered, Commands
<1>3. CASE PassAnswered
  BY <1>3 DEF PassAnswered
<1>4. CASE LoginGivesUp
  BY <1>4 DEF LoginGivesUp
<1>5. CASE PasvAnswered
  <2>1. PICK ba \in Arrivals : PasvParsed(ba)
    BY <1>5 DEF PasvAnswered
  <2>2. net' \in Seq(Answers) /\ late' = late
    BY <2>1 DEF PasvParsed
  <2>3. Address(ba) \in Ports \cup {Elsewhere} /\ <<>> \in Pieces
    <3>1. Took(ba)
      BY <2>1 DEF PasvParsed
    <3>2. Len(ba) \in 1 .. Len(net) /\ ba[1] = net[1] /\ Len(net) \in Nat
      BY <2>1, <3>1, Reading, Shapes
    <3>3. ba[1] \in Answers
      BY <3>2, Shapes
    <3>4. ba[1].kind = "227" => ba[1].port \in Ports
      BY <3>3 DEF Answers, Answer, End, Other
    <3>5. QED
      BY <3>4, EmptySeq DEF Address, Pieces
  <2>4. QED
    BY <1>5, <2>1, <2>2, <2>3 DEF PasvAnswered, PasvParsed
<1>6. CASE PasvGivesUp
  BY <1>6 DEF PasvGivesUp
<1>7. CASE DataConnected
  <2>1. cmds' \in Seq(Commands)
    BY <1>7, Sending DEF DataConnected, Commands
  <2>2. QED
    BY <1>7, <2>1 DEF DataConnected, Commands
<1>8. CASE DataRefused
  BY <1>8, BoundsAssumption DEF DataRefused, Ports
<1>9. CASE ListAnswered
  BY <1>9 DEF ListAnswered
<1>10. CASE ListGivesUp
  BY <1>10 DEF ListGivesUp
<1>11. CASE ListEnd
  BY <1>11 DEF ListEnd
<1>12. CASE RetrAnswered
  <2>1. <<>> \in Pieces /\ [path |-> path, timely |-> ~late] \in [path : Paths, timely : BOOLEAN]
    BY EmptySeq DEF Pieces
  <2>2. QED
    BY <1>12, <2>1 DEF RetrAnswered, OpenFile
<1>13. CASE RetrFails
  BY <1>13 DEF RetrFails
<1>14. CASE GetTimeout
  BY <1>14 DEF GetTimeout
<1>15. ASSUME NEW n \in 1 .. Len(wire), ListRead(n) PROVE TypeOK'
  BY <1>15, WireType DEF ListRead
<1>16. ASSUME NEW n \in 1 .. Len(wire), GetRead(n) PROVE TypeOK'
  BY <1>16, WireType DEF GetRead
<1>17. QED
  BY <1>1, <1>2, <1>3, <1>4, <1>5, <1>6, <1>7, <1>8, <1>9, <1>10, <1>11, <1>12, <1>13,
     <1>14, <1>15, <1>16 DEF Client

LEMMA TypeServer ==
    ASSUME TypeOK, PortsLeft, OnePerPort, Server
    PROVE  TypeOK'
<1> USE DEF TypeOK, client
<1>1. ASSUME ServeNext
      PROVE  /\ cmds' \in Seq({"USER", "PASS", "PASV"} \cup Objects)
             /\ UNCHANGED <<client, conn, wire>>
  BY <1>1, Serving DEF ServeNext, Commands
<1>2. ASSUME NEW a \in Answers, Says(a) PROVE net' \in Seq(Answers)
  BY <1>2, Saying
<1>3. Other \in Answers /\ End \in Answers
  BY DEF Answers
<1>4. CASE ServerReplies
  BY <1>1, <1>2, <1>3, <1>4 DEF ServerReplies, server
<1>5. CASE ServerListens
  <2>1. Head(cmds) = "PASV" /\ ServeNext
    BY <1>5 DEF ServerListens
  <2>2. port + 1 <= calls
    BY <2>1, PasvsServed, PasvsFinite, Shapes DEF PortsLeft
  <2>3. port' \in Ports
    BY <1>5, <2>2, Shapes, BoundsAssumption DEF ServerListens, Ports
  <2>4. Answer(port') \in Answers
    BY <2>3 DEF Answers
  <2>5. net' \in Seq(Answers)
    BY <1>2, <1>5, <2>4 DEF ServerListens
  <2>6. QED
    BY <1>1, <1>5, <2>1, <2>3, <2>5 DEF ServerListens
<1>6. CASE ServerStarts
  <2>1. [of |-> Head(cmds), next |-> 1] \in [of : Objects, next : 0 .. Size + 1]
    BY <1>6, BoundsAssumption DEF ServerStarts
  <2>2. QED
    BY <1>1, <1>2, <1>3, <1>6, <2>1 DEF ServerStarts
<1>7. CASE ServerSends
  <2>1. [of |-> transfer.of, n |-> transfer.next] \in Piece
    BY <1>7, BoundsAssumption DEF ServerSends, OnePerPort, Piece
  <2>2. wire' \in Pieces
    BY <1>7, <2>1, Shapes, AppendProperties DEF ServerSends, Pieces, Piece
  <2>3. transfer' \in [of : Objects, next : 0 .. Size + 1]
    BY <1>7, BoundsAssumption, SMTT(20) DEF ServerSends
  <2>4. QED
    BY <1>7, <2>2, <2>3 DEF ServerSends
<1>8. CASE ServerEnds
  BY <1>2, <1>3, <1>8, NothingType DEF ServerEnds
<1>9. CASE ServerAborts
  BY <1>2, <1>3, <1>9, NothingType DEF ServerAborts
<1>10. QED
  BY <1>4, <1>5, <1>6, <1>7, <1>8, <1>9 DEF Server

-----------------------------------------------------------------------------
\* One PASV per call, one port per PASV.

LEMMA PortsLeftKept ==
    ASSUME TypeOK, PortsLeft, Next
    PROVE  PortsLeft'
<1> USE DEF PortsLeft, client, server
<1>1. Cardinality(Pasvs) \in Nat /\ port \in Nat /\ calls \in Nat
  BY PasvsFinite, Shapes
<1>2. ASSUME calls' = calls, port' = port, cmds' = cmds PROVE PortsLeft'
  BY <1>2 DEF Pasvs
<1>3. ASSUME calls' = calls, port' = port, NEW c \in Commands, c # "PASV", Send(c)
      PROVE  PortsLeft'
  BY <1>3, PasvsSent
<1>4. ASSUME calls' = calls + 1, port' = port, Send("PASV") PROVE PortsLeft'
  BY <1>1, <1>4, PasvsSent DEF Commands
<1>5. CASE Client
  <2>1. CASE Greeted
    BY <1>2, <1>3, <2>1 DEF Greeted, Commands
  <2>2. CASE UserAnswered
    BY <1>3, <2>2 DEF UserAnswered, Commands
  <2>3. CASE DataConnected
    <3>1. op \in Objects /\ op # "PASV"
      BY CommandsAssumption DEF TypeOK, Objects
    <3>2. QED
      BY <1>3, <2>3, <3>1 DEF DataConnected, Commands
  <2>4. CASE calls' = calls /\ port' = port /\ cmds' = cmds
    BY <1>2, <2>4
  <2>5. QED
    BY <1>5, <2>1, <2>2, <2>3, <2>4
    DEF Client, PassAnswered, LoginGivesUp, PasvAnswered, PasvGivesUp, DataRefused,
        ListAnswered, ListGivesUp, ListEnd, RetrAnswered, RetrFails, GetTimeout,
        ListRead, GetRead
<1>6. CASE Application
  <2>1. CASE Close
    <3>1. cmds' = <<>> /\ port' = 0 /\ calls' = calls
      BY <2>1 DEF Close, DropAll
    <3>2. Cardinality(Pasvs)' = 0
      BY <3>1, FS_EmptySet DEF Pasvs
    <3>3. QED
      BY <1>1, <3>1, <3>2
  <2>2. QED
    BY <1>2, <1>4, <1>6, <2>1 DEF Application, Connect, SetPath, List, Get, BeginPasv
<1>7. CASE Server
  <2>1. CASE ServerReplies
    BY <1>1, <2>1, PasvsServed DEF ServerReplies, ServeNext
  <2>2. CASE ServerListens
    BY <1>1, <2>2, PasvsServed DEF ServerListens, ServeNext
  <2>3. CASE ServerStarts
    BY <1>1, <2>3, PasvsServed DEF ServerStarts, ServeNext
  <2>4. QED
    BY <1>2, <1>7, <2>1, <2>2, <2>3
    DEF Server, ServerSends, ServerEnds, ServerAborts
<1>8. QED
  BY <1>5, <1>6, <1>7 DEF Next

-----------------------------------------------------------------------------
\* The addresses under way.

LEMMA AddressesRead ==
    ASSUME TypeOK, PortsOnce, NEW ba \in Arrivals \cup {<<>>}, Took(ba)
    PROVE  /\ \A i \in Ports227' : \E j \in Ports227 : net'[i].port = net[j].port
           /\ \A i, j \in Ports227' : net'[i].port = net'[j].port => i = j
           /\ ba \in Arrivals /\ ba[1].kind = "227" =>
                  /\ ba[1].port \in 1 .. port
                  /\ conn = port \/ ~open => ba[1].port # port
                  /\ \A i \in Ports227' : net'[i].port # ba[1].port
<1> DEFINE k == Len(ba)
<1>1. /\ k \in Nat /\ DOMAIN net' = 1 .. Len(net) - k
      /\ \A i \in DOMAIN net' : net'[i] = net[i + k]
      /\ Len(net) \in Nat /\ DOMAIN net = 1 .. Len(net)
      /\ ba \in Arrivals => k >= 1 /\ ba[1] = net[1] /\ 1 \in DOMAIN net
  <2>1. Len(net) \in Nat /\ DOMAIN net = 1 .. Len(net)
    BY Shapes
  <2>2. k \in 0 .. Len(net) /\ (ba \in Arrivals => k >= 1)
    BY Reading
  <2>3. ASSUME ba \in Arrivals PROVE ba[1] = net[1]
    <3>1. \A i \in 1 .. k : ba[i] = net[i]
      BY Reading
    <3>2. 1 \in 1 .. k
      BY <2>1, <2>2, <2>3
    <3>3. QED
      BY <3>1, <3>2
  <2>4. DOMAIN net' = 1 .. Len(net) - k /\ \A i \in DOMAIN net' : net'[i] = net[i + k]
    BY Reading
  <2>5. QED
    BY <2>1, <2>2, <2>3, <2>4
<1> HIDE DEF k
<1>2. \A i \in DOMAIN net' : i + k \in DOMAIN net
  BY <1>1
<1>3. \A i \in Ports227' : i >= 1 /\ i \in Nat /\ i + k \in Ports227 /\ net'[i] = net[i + k]
  BY <1>1, <1>2 DEF Ports227
<1>4. ASSUME NEW i \in Ports227', NEW j \in Ports227', net'[i].port = net'[j].port
      PROVE  i = j
  <2>1. i + k = j + k
    BY <1>3, <1>4 DEF PortsOnce
  <2>2. QED
    BY <1>1, <1>3, <2>1
<1>5. ASSUME ba \in Arrivals, ba[1].kind = "227"
      PROVE  /\ ba[1].port \in 1 .. port
             /\ conn = port \/ ~open => ba[1].port # port
             /\ \A i \in Ports227' : net'[i].port # ba[1].port
  <2>1. 1 \in Ports227 /\ ba[1] = net[1] /\ k >= 1
    BY <1>1, <1>5 DEF Ports227
  <2>2. ASSUME NEW i \in Ports227' PROVE net'[i].port # ba[1].port
    <3>1. i + k # 1
      BY <1>1, <1>3, <2>1
    <3>2. QED
      BY <1>3, <2>1, <3>1 DEF PortsOnce
  <2>3. QED
    BY <2>1, <2>2 DEF PortsOnce
<1>6. QED
  BY <1>3, <1>4, <1>5

LEMMA PortsOnceKept ==
    ASSUME TypeOK, PortsLeft, PortsOnce, OnePerPort, Next
    PROVE  PortsOnce'
<1> USE DEF client, server
<1>1. /\ Len(net) \in Nat /\ DOMAIN net = 1 .. Len(net) /\ port \in 0 .. MaxCalls
      /\ port # Elsewhere /\ conn \in 0 .. port \cup {Elsewhere} /\ MaxCalls \in Nat
  BY Shapes, BoundsAssumption DEF TypeOK, Ports, Elsewhere, PortsOnce
<1>2. ASSUME Ports227' = {}, conn' \in 0 .. port' \cup {Elsewhere}
      PROVE  PortsOnce'
  BY <1>2 DEF PortsOnce
<1>3. ASSUME NEW ba \in Arrivals \cup {<<>>}, Took(ba), port' = port,
             conn' = conn, open' = open
      PROVE  PortsOnce'
  BY <1>3, AddressesRead DEF PortsOnce
<1>4. ASSUME net' = net, port' = port, conn' = conn, open' = open PROVE PortsOnce'
  BY <1>4 DEF PortsOnce, Ports227
<1>5. ASSUME port' = port, conn' = conn, NEW a \in Answers, Says(a), a.kind # "227",
             open' = open \/ conn = port
      PROVE  PortsOnce'
  <2>1. Ports227' = Ports227 /\ \A i \in Ports227 : net'[i] = net[i]
    BY <1>1, <1>5, Saying DEF Ports227
  <2>2. QED
    BY <1>5, <2>1 DEF PortsOnce
<1>6. Other \in Answers /\ End \in Answers /\ Other.kind # "227" /\ End.kind # "227"
  BY DEF Answers, Other, End
<1>7. CASE Client
  <2>1. CASE PasvAnswered
    <3>1. PICK ba \in Arrivals : PasvParsed(ba)
      BY <2>1 DEF PasvAnswered
    <3>2. /\ Took(ba) /\ port' = port /\ open' = open
          /\ conn' = conn \/ conn' = Address(ba)
      BY <2>1, <3>1 DEF PasvAnswered, PasvParsed, Got
    <3>3. CASE conn' = conn
      BY <1>3, <3>1, <3>2, <3>3
    <3>4. CASE conn' = Elsewhere
      BY <1>1, <3>1, <3>2, <3>4, AddressesRead DEF PortsOnce
    <3>5. CASE conn' = ba[1].port /\ ba[1].kind = "227"
      BY <1>1, <3>1, <3>2, <3>5, AddressesRead DEF PortsOnce
    <3>6. QED
      BY <3>2, <3>3, <3>4, <3>5 DEF Address
  <2>2. CASE DataRefused
    <3>1. net' = net /\ port' = port /\ open' = open /\ conn' = 0
      BY <2>2 DEF DataRefused
    <3>2. QED
      BY <1>1, <3>1 DEF PortsOnce, Ports227
  <2>3. CASE \/ Greeted \/ UserAnswered \/ PassAnswered \/ LoginGivesUp
             \/ PasvGivesUp \/ DataConnected
             \/ ListAnswered \/ ListGivesUp \/ ListEnd
             \/ RetrAnswered \/ RetrFails \/ GetTimeout
    BY <1>3, <1>4, <2>3
    DEF Greeted, UserAnswered, PassAnswered, LoginGivesUp, PasvGivesUp, DataConnected,
        ListAnswered, ListGivesUp, ListEnd, RetrAnswered, RetrFails, GetTimeout,
        GaveUp, Got
  <2>4. ASSUME NEW n \in 1 .. Len(wire), ListRead(n) \/ GetRead(n) PROVE PortsOnce'
    BY <1>3, <1>4, <2>4 DEF ListRead, GetRead, Got
  <2>5. QED
    BY <1>7, <2>1, <2>2, <2>3, <2>4 DEF Client
<1>8. CASE Application
  <2>1. CASE Connect
    <3>1. Ports227' = {}
      BY <1>6, <2>1 DEF Connect, Ports227
    <3>2. QED
      BY <1>1, <1>2, <2>1, <3>1 DEF Connect
  <2>2. CASE Close
    BY <1>2, <2>2 DEF Close, DropAll, Ports227
  <2>3. QED
    BY <1>4, <1>8, <2>1, <2>2 DEF Application, SetPath, List, Get
<1>9. CASE Server
  <2>1. CASE ServerListens
    <3> DEFINE a == Answer(port + 1)
    <3>1. Head(cmds) = "PASV" /\ ServeNext /\ port' = port + 1 /\ conn' = conn
          /\ open' = TRUE /\ Says(a)
      BY <2>1 DEF ServerListens, ServeNext
    <3>2. port + 1 <= calls /\ calls <= MaxCalls
      BY <1>1, <3>1, PasvsServed, PasvsFinite, Shapes DEF PortsLeft, TypeOK
    <3>3. a \in Answers /\ a.kind = "227" /\ a.port = port + 1
      BY <1>1, <3>2, Shapes DEF Answers, Answer, Ports
    <3> HIDE DEF a
    <3>4. /\ Ports227' = Ports227 \cup {Len(net) + 1}
          /\ \A i \in Ports227 : net'[i] = net[i] /\ i # Len(net) + 1
          /\ net'[Len(net) + 1] = a
      BY <1>1, <3>1, <3>3, Saying DEF Ports227
    <3>5. conn # port + 1 /\ port + 1 # Elsewhere
      BY <1>1, <3>2, Shapes DEF Elsewhere
    <3>6. QED
      BY <1>1, <3>1, <3>3, <3>4, <3>5 DEF PortsOnce
  <2>2. QED
    BY <1>4, <1>5, <1>6, <1>9, <2>1
    DEF Server, ServerReplies, ServerStarts, ServerSends, ServerEnds, ServerAborts, ServeNext
<1>10. QED
  BY <1>7, <1>8, <1>9 DEF Next

LEMMA OnePerPortKept ==
    ASSUME TypeOK, OnePerPort, Next
    PROVE  OnePerPort'
<1> USE DEF OnePerPort, server, client
<1>1. ASSUME UNCHANGED <<transfer, open>> PROVE OnePerPort'
  BY <1>1
<1>2. CASE Client
  BY <1>1, <1>2
  DEF Client, Greeted, UserAnswered, PassAnswered, LoginGivesUp, PasvAnswered, PasvGivesUp,
      DataConnected, DataRefused, ListAnswered, ListGivesUp, ListEnd, RetrAnswered,
      RetrFails, GetTimeout, ListRead, GetRead
<1>3. CASE Application
  BY <1>1, <1>3 DEF Application, Connect, Close, DropAll, List, Get, SetPath
<1>4. CASE Server
  <2>1. CASE ServerSends
    BY <2>1, Shapes DEF ServerSends, TypeOK
  <2>2. QED
    BY <1>1, <1>4, <2>1
    DEF Server, ServerReplies, ServerListens, ServerStarts, ServerEnds, ServerAborts, ServeNext
<1>5. QED
  BY <1>2, <1>3, <1>4 DEF Next

-----------------------------------------------------------------------------
\* Client and server in step.

LEMMA OpIsKept ==
    ASSUME TypeOK, OpIs, Next
    PROVE  OpIs'
<1> USE DEF OpIs, client
<1>1. CASE Client
  <2>1. CASE PasvAnswered
    BY <2>1 DEF PasvAnswered, PasvParsed
  <2>2. CASE \/ Greeted \/ UserAnswered \/ PassAnswered \/ LoginGivesUp
             \/ PasvGivesUp \/ DataConnected \/ DataRefused
             \/ ListAnswered \/ ListGivesUp \/ ListEnd
             \/ RetrFails \/ GetTimeout
    BY <2>2
    DEF Greeted, UserAnswered, PassAnswered, LoginGivesUp, PasvGivesUp, DataConnected,
        DataRefused, ListAnswered, ListGivesUp, ListEnd, RetrFails, GetTimeout, Got
  <2>3. CASE RetrAnswered
    <3>1. target' = [path |-> path, timely |-> ~late] /\ late' = late /\ op' = op /\ path' = path
      BY <2>3 DEF RetrAnswered, OpenFile, Got
    <3>2. target'.path = path' /\ (target'.timely => ~late')
      BY <3>1
    <3>3. pc' \in {"idle", "data"} /\ op' = path'
      BY <2>3, <3>1 DEF RetrAnswered
    <3>4. QED
      BY <3>2, <3>3
  <2>4. ASSUME NEW n \in 1 .. Len(wire), ListRead(n) \/ GetRead(n) PROVE OpIs'
    BY <2>4 DEF ListRead, GetRead, Got
  <2>5. QED
    BY <1>1, <2>1, <2>2, <2>3, <2>4 DEF Client
<1>2. CASE Application
  BY <1>2 DEF Application, Connect, Close, DropAll, List, Get, BeginPasv, SetPath
<1>3. CASE Server
  BY <1>3
  DEF Server, ServerReplies, ServerListens, ServerStarts, ServerSends, ServerEnds,
      ServerAborts, ServeNext
<1>4. QED
  BY <1>1, <1>2, <1>3 DEF Next

\* When the client takes all, or part, of one or two answers.
LEMMA InStepClient ==
    ASSUME TypeOK, InStep, Client
    PROVE  InStep'
<1> SUFFICES ASSUME ~late' PROVE InStep'
  BY DEF InStep
<1> USE DEF InStep, server
<1>1. /\ net \in Seq(Answers) /\ cmds \in Seq(Commands)
      /\ Len(net) \in Nat /\ (Len(net) = 0 <=> net = <<>>)
  BY Shapes, EmptySeq
<1>2. ASSUME NEW ba \in Arrivals \cup {<<>>}, Took(ba)
      PROVE  /\ Len(net') \in 0 .. Len(net) /\ (Len(net') = 0 <=> net' = <<>>)
             /\ ba \in Arrivals => Len(net') < Len(net) /\ ba[1] = net[1]
             /\ ba = <<>> => net' = net
             /\ ba \in Arrivals /\ Len(net) = 1 => net' = <<>>
  <2>1. /\ Len(ba) \in 0 .. Len(net) /\ (ba \in Arrivals => Len(ba) >= 1)
        /\ net' \in Seq(Answers) /\ Len(net') = Len(net) - Len(ba)
        /\ \A i \in 1 .. Len(ba) : ba[i] = net[i]
        /\ \A i \in 1 .. Len(net') : net'[i] = net[i + Len(ba)]
    BY <1>2, Reading
  <2>2. Len(net') \in Nat /\ (Len(net') = 0 <=> net' = <<>>)
    BY <2>1, EmptySeq, LenProperties
  <2>3. ba = <<>> => net' = net
    BY <1>1, <1>2, <2>1, SeqEqual
  <2>4. ba \in Arrivals => 1 \in 1 .. Len(ba)
    BY <1>1, <2>1
  <2>5. ba \in Arrivals => Len(net') < Len(net) /\ ba[1] = net[1]
    BY <1>1, <2>1, <2>4
  <2>6. ba \in Arrivals /\ Len(net) = 1 => net' = <<>>
    <3> HIDE DEF Arrivals
    <3>1. ba \in Arrivals /\ Len(net) = 1 => Len(net') < 1
      BY <2>5
    <3>2. QED
      BY <2>2, <3>1
  <2>7. Len(net') \in 0 .. Len(net)
    BY <1>1, <2>1
  <2>8. QED
    BY <2>2, <2>3, <2>5, <2>6, <2>7
<1>3. CASE Greeted
  BY <1>1, <1>2, <1>3, Sending, CommandsAssumption
  DEF Greeted, Got, GaveUp, Commands, Objects
<1>4. CASE UserAnswered
  BY <1>1, <1>2, <1>4, Sending, CommandsAssumption
  DEF UserAnswered, Got, Commands, Objects
<1>5. CASE PassAnswered
  BY <1>1, <1>2, <1>5 DEF PassAnswered, Got
<1>6. CASE PasvAnswered
  BY <1>1, <1>2, <1>6 DEF PasvAnswered, PasvParsed, Got
<1>7. CASE DataConnected
  BY <1>1, <1>7, Sending DEF DataConnected, Commands, Send
<1>8. CASE DataRefused
  BY <1>8 DEF DataRefused
<1>9. CASE ListAnswered
  <2>1. PICK ba \in Arrivals : Took(ba)
    BY <1>9 DEF ListAnswered, Got
  <2>2. /\ Len(net') \in 0 .. Len(net) /\ (Len(net') = 0 <=> net' = <<>>)
        /\ Len(net') < Len(net) /\ net # <<>>
        /\ Len(net) = 1 => net' = <<>>
    BY <1>1, <1>2, <2>1
  <2>3. /\ pc = "list" /\ pc' = "listdata" /\ ~late /\ cmds' = cmds /\ transfer' = transfer
    BY <1>9 DEF ListAnswered, Got
  <2>4. /\ cmds = <<>>
        /\ Len(net) = 1 \/ (Len(net) = 2 /\ transfer = Nothing)
    BY <2>2, <2>3
  <2>5. net' = <<>> \/ (Len(net') = 1 /\ transfer = Nothing)
    <3>1. CASE Len(net) = 1
      BY <2>2, <3>1
    <3>2. CASE Len(net) = 2 /\ transfer = Nothing
      <4>1. Len(net') \in {0, 1}
        BY <2>2, <3>2
      <4>2. QED
        BY <2>2, <3>2, <4>1
    <3>3. QED
      BY <2>4, <3>1, <3>2
  <2>6. QED
    BY <2>3, <2>4, <2>5
<1>10. CASE ListGivesUp
  BY <1>10 DEF ListGivesUp, GaveUp, Leaves
<1>11. CASE ListEnd
  BY <1>1, <1>2, <1>11 DEF ListEnd, GaveUp, Got
<1>12. CASE RetrAnswered
  <2>1. PICK ba \in Arrivals : Took(ba) /\ pc' = IF Finished(ba) THEN "idle" ELSE "data"
    BY <1>12 DEF RetrAnswered, Got
  <2>2. /\ Len(net') \in 0 .. Len(net) /\ (Len(net') = 0 <=> net' = <<>>)
        /\ Len(net') < Len(net) /\ net # <<>> /\ ba[1] = net[1]
        /\ Len(net) = 1 => net' = <<>>
    BY <1>1, <1>2, <2>1
  <2>3. pc = "retr" /\ ~late /\ cmds' = cmds /\ transfer' = transfer
    BY <1>12 DEF RetrAnswered, Got
  <2>4. /\ cmds = <<>> /\ net[1] = Other
        /\ Len(net) = 1 \/ (Len(net) = 2 /\ transfer = Nothing)
    BY <2>2, <2>3
  <2>5. net' = <<>> \/ (Len(net') = 1 /\ transfer = Nothing)
    <3>1. CASE Len(net) = 1
      BY <2>2, <3>1
    <3>2. CASE Len(net) = 2 /\ transfer = Nothing
      <4>1. Len(net') \in {0, 1}
        BY <2>2, <3>2
      <4>2. QED
        BY <2>2, <3>2, <4>1
    <3>3. QED
      BY <2>4, <3>1, <3>2
  <2>6. pc' = "data"
    BY <2>1, <2>2, <2>4 DEF Finished, Other
  <2>7. QED
    BY <2>3, <2>4, <2>5, <2>6
<1>13. CASE RetrFails
  BY <1>13 DEF RetrFails, GaveUp, Leaves
<1>14. CASE GetTimeout
  BY <1>14 DEF GetTimeout, Leaves
<1>15. CASE LoginGivesUp \/ PasvGivesUp
  BY <1>15 DEF LoginGivesUp, PasvGivesUp, GaveUp
<1>16. ASSUME NEW n \in 1 .. Len(wire), ListRead(n) PROVE InStep'
  BY <1>16 DEF ListRead
<1>17. ASSUME NEW n \in 1 .. Len(wire), GetRead(n) PROVE InStep'
  BY <1>1, <1>2, <1>17 DEF GetRead, Got, Finished
<1>18. QED
  BY <1>3, <1>4, <1>5, <1>6, <1>7, <1>8, <1>9, <1>10, <1>11, <1>12, <1>13, <1>14, <1>15,
     <1>16, <1>17 DEF Client

LEMMA InStepApplication ==
    ASSUME TypeOK, InStep, Application
    PROVE  InStep'
<1> SUFFICES ASSUME ~late' PROVE InStep'
  BY DEF InStep
<1> USE DEF InStep, server
<1>1. CASE Connect
  <2>1. Len(net') = 1
    BY <1>1 DEF Connect
  <2>2. QED
    BY <1>1, <2>1 DEF Connect
<1>2. CASE Close
  BY <1>2 DEF Close, DropAll
<1>3. ASSUME NEW x \in Objects, BeginPasv(x), UNCHANGED <<late, net, transfer>>
      PROVE  InStep'
  <2>1. cmds = <<>> /\ net = <<>> /\ transfer = Nothing /\ pc' = "pasv"
    BY <1>3 DEF BeginPasv
  <2>2. cmds' = <<"PASV">>
    BY <1>3, <2>1 DEF BeginPasv, Send
  <2>3. Len(cmds') = 1 /\ cmds'[1] \notin Objects'
    BY <2>2, CommandsAssumption DEF Objects
  <2>4. QED
    BY <1>3, <2>1, <2>3
<1>4. CASE List
  BY <1>3, <1>4 DEF List, Objects
<1>5. CASE Get
  BY <1>3, <1>5 DEF Get, Objects, TypeOK
<1>6. ASSUME NEW f \in Paths, SetPath(f) PROVE InStep'
  BY <1>6 DEF SetPath
<1>7. QED
  BY <1>1, <1>2, <1>4, <1>5, <1>6 DEF Application

LEMMA InStepServer ==
    ASSUME TypeOK, InStep, Server
    PROVE  InStep'
<1> SUFFICES ASSUME ~late' PROVE InStep'
  BY DEF InStep
<1> USE DEF client
<1>1. /\ Len(net) \in Nat /\ net \in Seq(Answers) /\ cmds \in Seq(Commands)
      /\ Len(net) = 0 <=> net = <<>>
      /\ Len(cmds) = 0 <=> cmds = <<>>
  BY Shapes, EmptySeq
<1>2. UNCHANGED <<client, conn>> /\ late' = late
  BY DEF Server, ServerReplies, ServerListens, ServerStarts, ServerSends, ServerEnds,
         ServerAborts, ServeNext
<1>3. ASSUME NEW a \in Answers, Says(a)
      PROVE  /\ net # <<>> => Len(net') = Len(net) + 1 /\ net'[1] = net[1]
             /\ net = <<>> => Len(net') = 1 /\ net'[1] = a
  <2>1. /\ Len(net') = Len(net) + 1 /\ net'[Len(net) + 1] = a
        /\ \A i \in 1 .. Len(net) : net'[i] = net[i]
    BY <1>3, Saying
  <2>2. QED
    BY <1>1, <2>1
\* A command: nothing else is under way.
<1>4. ASSUME ServeNext, NEW a \in Answers, Says(a),
             pc \in {"list", "retr"} => a = Other /\ Head(cmds) = op,
             pc \notin {"list", "retr"} => transfer' = Nothing
      PROVE  InStep'
  <2>1. cmds # <<>> /\ transfer = Nothing
    BY <1>4 DEF ServeNext
  <2>2. CASE pc \in {"user", "pass", "pasv"}
    <3>1. net = <<>> /\ Len(cmds) = 1
      BY <1>2, <2>1, <2>2 DEF InStep
    <3>2. cmds' = <<>> /\ Len(net') = 1
      BY <1>1, <1>3, <1>4, <3>1, Serving, EmptySeq
    <3>3. QED
      BY <1>2, <1>4, <2>2, <3>2 DEF InStep
  <2>3. CASE pc \in {"list", "retr"}
    <3>1. net = <<>> /\ cmds = <<op>>
      BY <1>2, <2>1, <2>3 DEF InStep
    <3>2. cmds' = <<>> /\ Len(net') = 1 /\ net'[1] = Other
      BY <1>3, <1>4, <2>3, <3>1 DEF ServeNext
    <3>3. QED
      BY <1>2, <2>3, <3>2 DEF InStep
  <2>4. QED
    BY <1>2, <2>1, <2>2, <2>3 DEF InStep, ServeNext, TypeOK, Pcs
<1>5. Other \in Answers /\ End \in Answers
  BY DEF Answers
<1>6. ASSUME ServeNext, pc \in {"list", "retr"} PROVE Head(cmds) = op
  BY <1>2, <1>6 DEF ServeNext, InStep
<1>7. ASSUME ServeNext PROVE pc \in {"user", "pass", "pasv", "list", "retr"}
  BY <1>2, <1>7 DEF ServeNext, InStep, TypeOK, Pcs
<1>8. CASE ServerReplies
  BY <1>4, <1>5, <1>6, <1>8 DEF ServerReplies, ServeNext, server
<1>9. CASE ServerListens
  <2>1. ServeNext /\ Head(cmds) = "PASV" /\ Says(Answer(port')) /\ transfer' = transfer
    BY <1>9 DEF ServerListens
  <2>2. pc \notin {"list", "retr"}
    BY <1>6, <2>1, CommandsAssumption DEF TypeOK, Objects
  <2>3. pc \in {"user", "pass", "pasv"} /\ net = <<>> /\ Len(cmds) = 1 /\ transfer = Nothing
    BY <1>2, <1>7, <2>1, <2>2 DEF ServeNext, InStep
  <2>4. Len(net') = 1
    BY <2>1, <2>3 DEF Says
  <2>5. cmds' = <<>>
    BY <1>1, <2>1, <2>3, Serving, EmptySeq
  <2>6. QED
    BY <1>2, <2>1, <2>3, <2>4, <2>5 DEF InStep
<1>10. CASE ServerStarts
  <2>1. ServeNext /\ Head(cmds) \in Objects /\ Says(Other)
    BY <1>10 DEF ServerStarts
  <2>2. Head(cmds) = cmds[1]
    BY <2>1, Serving
  <2>3. pc \in {"list", "retr"}
    BY <1>2, <1>7, <2>1, <2>2 DEF ServeNext, InStep
  <2>4. QED
    BY <1>4, <1>5, <1>6, <2>1, <2>3
<1>11. CASE ServerSends
  <2>1. /\ transfer # Nothing /\ cmds' = cmds /\ net' = net
        /\ transfer' = [transfer EXCEPT !.next = @ + 1]
    BY <1>11 DEF ServerSends
  <2>2. QED
    BY <1>2, <2>1 DEF InStep
<1>12. CASE ServerEnds \/ ServerAborts
  <2>1. PICK a \in Answers : Says(a)
    BY <1>5, <1>12 DEF ServerEnds, ServerAborts
  <2>2. transfer # Nothing /\ cmds' = cmds /\ transfer' = Nothing
    BY <1>12 DEF ServerEnds, ServerAborts
  <2>3. CASE pc \in {"list", "retr"}
    <3>1. Len(net) = 1 /\ net[1] = Other /\ cmds = <<>>
      BY <1>2, <2>2, <2>3 DEF InStep
    <3>2. Len(net') = 2 /\ net'[1] = Other
      BY <1>1, <1>3, <2>1, <3>1
    <3>3. QED
      BY <1>2, <2>2, <2>3, <3>1, <3>2 DEF InStep
  <2>4. CASE pc \in {"listdata", "listend", "data"}
    <3>1. net = <<>> /\ cmds = <<>>
      BY <1>2, <2>2, <2>4 DEF InStep
    <3>2. Len(net') = 1
      BY <1>3, <2>1, <3>1
    <3>3. QED
      BY <1>2, <2>2, <2>4, <3>1, <3>2 DEF InStep
  <2>5. QED
    BY <1>2, <2>2, <2>3, <2>4 DEF InStep, TypeOK, Pcs
<1>13. QED
  BY <1>8, <1>9, <1>10, <1>11, <1>12 DEF Server

-----------------------------------------------------------------------------
\* What arrives over the data connection.

\* One round of reading: the front of wire goes to the end of what was taken.
LEMMA Reads ==
    ASSUME TypeOK, NEW s \in Seq(Piece), NEW n \in 1 .. Len(wire)
    PROVE  (s \o SubSeq(wire, 1, n)) \o SubSeq(wire, n + 1, Len(wire)) = s \o wire
<1> DEFINE a == SubSeq(wire, 1, n)
           b == SubSeq(wire, n + 1, Len(wire))
<1>1. wire \in Seq(Piece) /\ Len(wire) \in Nat
  BY Shapes
<1>2. a \in Seq(Piece) /\ b \in Seq(Piece)
  BY <1>1, Parts
<1>3. a \o b = SubSeq(wire, 1, Len(wire))
  BY <1>1, ConcatAdjacentSubSeq
<1>4. a \o b = wire
  BY <1>1, <1>3, SubSeqFull
<1> HIDE DEF a, b
<1>5. (s \o a) \o b = s \o (a \o b)
  BY <1>2, ConcatAssociative, SMTT(20)
<1>6. QED
  BY <1>4, <1>5 DEF a, b

LEMMA ReceivedType ==
    ASSUME TypeOK
    PROVE  /\ Taken \in Seq(Piece) /\ Received \in Seq(Piece) /\ Len(Received) \in Nat
           /\ Taken = <<>> => Received = wire
<1>1. Taken \in Seq(Piece) /\ wire \in Seq(Piece)
  BY Shapes, EmptySeq DEF Taken
<1>2. Received \in Seq(Piece)
  BY <1>1, ConcatProperties DEF Received
<1>3. QED
  BY <1>1, <1>2, LenProperties, ConcatEmptySeq DEF Received

\* The file so far, after a round of the loop, is a beginning of what arrived.
LEMMA ReadsPart ==
    ASSUME TypeOK, pc = "data", NEW n \in 1 .. Len(wire), NEW x \in Objects,
           IsPrefix(Received, Content(x))
    PROVE  IsPrefix(local \o SubSeq(wire, 1, n), Content(x))
<1> DEFINE l == local \o SubSeq(wire, 1, n)
           b == SubSeq(wire, n + 1, Len(wire))
<1>1. l \in Seq(Piece) /\ b \in Seq(Piece) /\ Len(l) \in Nat /\ Len(b) \in Nat
  BY WireType, LenProperties DEF Pieces, Piece
<1>2. Received = l \o b
  BY Reads, Shapes DEF Received, Taken
<1> HIDE DEF l, b
<1>3. /\ Len(Received) = Len(l) + Len(b)
      /\ \A i \in 1 .. Len(l) : Received[i] = l[i] /\ i \in 1 .. Len(l) + Len(b)
  BY <1>1, <1>2, ConcatProperties
<1>4. Len(Received) <= Size /\ \A i \in 1 .. Len(Received) : Received[i] = [of |-> x, n |-> i]
  BY ReceivedType, Beginning
<1>5. Len(l) <= Size /\ \A i \in 1 .. Len(l) : l[i] = [of |-> x, n |-> i]
  BY <1>1, <1>3, <1>4, BoundsAssumption
<1>6. QED
  BY <1>1, <1>5, Beginning DEF l

LEMMA NothingArrived ==
    ASSUME NEW x \in Objects
    PROVE  IsPrefix(<<>>, Content(x))
<1> DEFINE none == <<>>
<1>1. none \in Seq(Piece) /\ Len(none) = 0
  BY EmptySeq
<1> HIDE DEF none
<1>2. Len(none) <= Size /\ \A i \in 1 .. Len(none) : none[i] = [of |-> x, n |-> i]
  BY <1>1, BoundsAssumption
<1>3. IsPrefix(none, Content(x))
  BY <1>1, <1>2, Beginning
<1>4. QED
  BY <1>3 DEF none

LEMMA FilesKept ==
    ASSUME TypeOK, Contiguous, OpIs, OneTransfer, target.timely => RightFile, Next
    PROVE  OneTransfer' /\ (target.timely => RightFile)'
<1> USE DEF client
<1>1. ASSUME UNCHANGED <<local, target>> PROVE OneTransfer' /\ (target.timely => RightFile)'
  BY <1>1 DEF OneTransfer, RightFile, Content, Objects
<1>2. CASE RetrAnswered
  <2>1. local' = <<>> /\ target'.path \in Objects /\ Listing \in Objects
    BY <1>2 DEF RetrAnswered, OpenFile, TypeOK, Objects
  <2>2. QED
    BY <2>1, NothingArrived DEF OneTransfer, RightFile, Content, Objects
<1>3. ASSUME NEW n \in 1 .. Len(wire), GetRead(n)
      PROVE  OneTransfer' /\ (target.timely => RightFile)'
  <2>1. /\ pc = "data" /\ local' = local \o SubSeq(wire, 1, n) /\ target' = target
    BY <1>3 DEF GetRead
  <2>2. PICK x \in Objects : IsPrefix(Received, Content(x)) /\ (~late => x = op)
    BY <2>1 DEF Contiguous, Arrived, Receiving
  <2>3. IsPrefix(local', Content(x))
    BY <2>1, <2>2, ReadsPart
  <2>4. target.timely => x = target.path
    BY <2>1, <2>2 DEF OpIs
  <2>5. QED
    BY <2>1, <2>3, <2>4 DEF OneTransfer, RightFile, Content, Objects
<1>4. CASE Client
  BY <1>1, <1>2, <1>3, <1>4
  DEF Client, Greeted, UserAnswered, PassAnswered, LoginGivesUp, PasvAnswered, PasvGivesUp,
      DataConnected, DataRefused, ListAnswered, ListGivesUp, ListEnd,
      RetrFails, GetTimeout, ListRead
<1>5. CASE Application
  BY <1>1, <1>5 DEF Application, Connect, Close, List, Get, SetPath
<1>6. CASE Server
  BY <1>1, <1>6
  DEF Server, ServerReplies, ServerListens, ServerStarts, ServerSends, ServerEnds,
      ServerAborts, ServeNext
<1>7. QED
  BY <1>4, <1>5, <1>6 DEF Next

LEMMA ContiguousClient ==
    ASSUME TypeOK, PortsOnce, OnePerPort, Contiguous, Client
    PROVE  Contiguous'
<1> USE DEF Contiguous, Arrived, server
<1>1. ASSUME pc \in Receiving, Received' = Received,
             UNCHANGED <<op, late, conn, port, transfer, open>>
      PROVE  Contiguous'
  BY <1>1 DEF Content, Objects
<1>2. CASE pc' \notin Receiving
  BY <1>2
<1>3. CASE PasvAnswered /\ pc' = "connect"
  <2>1. PICK ba \in Arrivals : PasvParsed(ba)
    BY <1>3 DEF PasvAnswered
  <2>2. /\ Took(ba) /\ conn' = Address(ba) /\ wire' = <<>> /\ op' = op
        /\ port' = port /\ transfer' = transfer /\ open' = open /\ op' \in Objects
    BY <1>3, <2>1 DEF PasvAnswered, PasvParsed, Got, TypeOK
  <2>3. Received' = <<>>
    BY <1>3, <2>2, EmptySeq, ConcatEmptySeq DEF Received, Taken
  <2>4. IsPrefix(Received', Content(op)')
    BY <2>2, <2>3, NothingArrived DEF Content, Objects, TypeOK
  <2>5. conn' = port => ba[1].kind = "227" /\ ba[1].port = port
    BY <2>2, BoundsAssumption DEF Address, Elsewhere, TypeOK, Ports
  <2>6. conn' = port => conn # port /\ open
    BY <2>1, <2>2, <2>5, AddressesRead DEF TypeOK
  <2>7. conn' = port' => transfer' = Nothing
    BY <2>2, <2>6 DEF OnePerPort
  <2>8. Arrived(op)'
    BY <2>2, <2>3, <2>4, <2>7
  <2>9. QED
    BY <2>2, <2>8 DEF Objects
<1>4. CASE DataConnected
  BY <1>1, <1>4 DEF DataConnected, Received, Taken, Receiving
<1>5. CASE ListAnswered
  BY <1>1, <1>5 DEF ListAnswered, Got, Received, Taken, Receiving
<1>6. CASE RetrAnswered /\ pc' = "data"
  <2>1. /\ pc = "retr" /\ local' = <<>> /\ wire' = wire
        /\ UNCHANGED <<op, late, conn, port, transfer, open>>
    BY <1>6 DEF RetrAnswered, OpenFile, Got
  <2>2. Received' = Received
    BY <1>6, <2>1 DEF Received, Taken
  <2>3. QED
    BY <1>1, <2>1, <2>2 DEF Receiving
<1>7. ASSUME NEW n \in 1 .. Len(wire), ListRead(n) PROVE Contiguous'
  <2>1. /\ pc = "listdata" /\ pc' = "listend" /\ listed' = SubSeq(wire, 1, n)
        /\ wire' = SubSeq(wire, n + 1, Len(wire))
        /\ UNCHANGED <<op, late, conn, port, transfer, open>>
    BY <1>7 DEF ListRead
  <2>2. Received' = SubSeq(wire, 1, n) \o SubSeq(wire, n + 1, Len(wire))
    BY <2>1 DEF Received, Taken
  <2>3. Received = wire
    BY <2>1, ReceivedType DEF Taken
  <2>4. wire \in Seq(Piece) /\ Len(wire) \in Nat
    BY Shapes
  <2>5. Received' = SubSeq(wire, 1, Len(wire))
    BY <2>2, <2>4, ConcatAdjacentSubSeq
  <2>6. Received' = Received
    BY <2>3, <2>4, <2>5, SubSeqFull
  <2>7. QED
    BY <1>1, <2>1, <2>6 DEF Receiving
<1>8. ASSUME NEW n \in 1 .. Len(wire), GetRead(n), pc' = "data" PROVE Contiguous'
  <2>1. /\ pc = "data" /\ local' = local \o SubSeq(wire, 1, n)
        /\ wire' = SubSeq(wire, n + 1, Len(wire))
        /\ UNCHANGED <<op, late, conn, port, transfer, open>>
    BY <1>8 DEF GetRead, Got
  <2>2. Received' = Received
    BY <1>8, <2>1, Reads, Shapes DEF Received, Taken
  <2>3. QED
    BY <1>1, <2>1, <2>2 DEF Receiving
<1>9. QED
  BY <1>2, <1>3, <1>4, <1>5, <1>6, <1>7, <1>8
  DEF Client, Greeted, UserAnswered, PassAnswered, LoginGivesUp, PasvAnswered, PasvParsed,
      PasvGivesUp, DataRefused, ListGivesUp, ListEnd, RetrAnswered, RetrFails, GetTimeout,
      GetRead, Receiving

LEMMA ContiguousServer ==
    ASSUME TypeOK, PortsLeft, PortsOnce, OnePerPort, Contiguous, InStep, Server
    PROVE  Contiguous'
<1> USE DEF client
<1>1. UNCHANGED <<client, conn>> /\ Taken' = Taken
  BY DEF Server, ServerReplies, ServerListens, ServerStarts, ServerSends, ServerEnds,
         ServerAborts, ServeNext, Taken
<1>2. SUFFICES ASSUME pc \in Receiving PROVE \E x \in Objects : Arrived(x)'
  BY <1>1 DEF Contiguous, Objects
<1>3. PICK x \in Objects : Arrived(x)
  BY <1>2 DEF Contiguous
<1>4. ASSUME wire' = wire, port' = port, open' => open,
             transfer' = transfer \/ transfer' = Nothing
      PROVE  Arrived(x)'
  <2>1. Received' = Received
    BY <1>1, <1>4 DEF Received
  <2>2. QED
    BY <1>1, <1>3, <1>4, <2>1 DEF Arrived, Content
<1>5. CASE ServerReplies \/ ServerEnds \/ ServerAborts
  BY <1>3, <1>4, <1>5 DEF ServerReplies, ServerEnds, ServerAborts, ServeNext, server
<1>6. CASE ServerListens
  <2>1. wire' = wire /\ port' = port + 1 /\ Head(cmds) = "PASV" /\ ServeNext
    BY <1>6 DEF ServerListens, ServeNext
  <2>2. port + 1 <= calls /\ port \in Nat
    BY <2>1, PasvsServed, PasvsFinite, Shapes DEF PortsLeft
  <2>3. conn # port'
    BY <2>1, <2>2, BoundsAssumption DEF PortsOnce, Elsewhere, TypeOK
  <2>4. Received' = Received
    BY <1>1, <2>1 DEF Received
  <2>5. Arrived(x)'
    BY <1>1, <1>3, <2>3, <2>4 DEF Arrived, Content
  <2>6. QED
    BY <1>3, <2>5
<1>7. CASE ServerStarts
  <2>0. PICK y \in Objects : y = Head(cmds)
    BY <1>7 DEF ServerStarts
  <2>1. /\ ServeNext /\ open /\ conn = port /\ wire' = wire
        /\ transfer' = [of |-> y, next |-> 1] /\ open' = FALSE
    BY <1>7, <2>0 DEF ServerStarts, ServeNext
  <2>2. ~late => y = op
    BY <1>2, <2>0, <2>1 DEF InStep, ServeNext, Receiving
  <2>3. Received = <<>> /\ Received' = Received
    BY <1>1, <1>3, <2>1 DEF Received, Arrived
  <2>4. IsPrefix(Received', Content(y)) /\ Len(Received') = 0
    BY <2>1, <2>3, NothingArrived, EmptySeq
  <2>5. Arrived(y)'
    BY <1>1, <2>1, <2>2, <2>4 DEF Arrived, Content
  <2>6. QED
    BY <2>1, <2>5
<1>8. CASE ServerSends
  <2> DEFINE e == [of |-> transfer.of, n |-> transfer.next]
  <2>1. /\ transfer # Nothing /\ conn = port /\ transfer.next <= Size
        /\ wire' = Append(wire, e) /\ UNCHANGED <<port, open>>
        /\ transfer' = [transfer EXCEPT !.next = @ + 1]
    BY <1>8 DEF ServerSends
  <2>2. /\ x = transfer.of /\ Len(Received) = transfer.next - 1 /\ ~open
        /\ transfer.next \in Nat /\ transfer.next >= 1
    BY <1>3, <2>1, BoundsAssumption DEF Arrived, OnePerPort, TypeOK
  <2>3. e \in Piece /\ e = [of |-> x, n |-> Len(Received) + 1]
    BY <1>3, <2>1, <2>2, BoundsAssumption DEF Piece
  <2> HIDE DEF e
  <2>4. /\ Taken \in Seq(Piece) /\ wire \in Seq(Piece) /\ Received \in Seq(Piece)
        /\ Len(Received) \in Nat
    BY ReceivedType, Shapes
  <2>5. wire' = wire \o <<e>> /\ <<e>> \in Seq(Piece)
    BY <2>1, <2>3, <2>4, AppendIsConcat
  <2>6. Received' = Received \o <<e>>
    BY <1>1, <2>4, <2>5, ConcatAssociative DEF Received
  <2>7. Received' = Append(Received, e)
    BY <2>3, <2>4, <2>6, AppendIsConcat
  <2>8. /\ Received' \in Seq(Piece) /\ Len(Received') = Len(Received) + 1
        /\ \A i \in 1 .. Len(Received) : Received'[i] = Received[i]
        /\ Received'[Len(Received) + 1] = e
    BY <2>3, <2>4, <2>7, AppendProperties
  <2>9. Len(Received) <= Size /\ \A i \in 1 .. Len(Received) : Received[i] = [of |-> x, n |-> i]
    BY <1>3, <2>4, Beginning DEF Arrived
  <2>10. Len(Received') <= Size
    BY <2>1, <2>2, <2>4, <2>8, BoundsAssumption
  <2>11. \A i \in 1 .. Len(Received') : Received'[i] = [of |-> x, n |-> i]
    <3>1. ASSUME NEW i \in 1 .. Len(Received') PROVE Received'[i] = [of |-> x, n |-> i]
      <4>1. i \in 1 .. Len(Received) \/ i = Len(Received) + 1
        BY <2>4, <2>8
      <4>2. CASE i \in 1 .. Len(Received)
        BY <2>8, <2>9, <4>2
      <4>3. CASE i = Len(Received) + 1
        BY <2>3, <2>8, <4>3
      <4>4. QED
        BY <4>1, <4>2, <4>3
    <3>2. QED
      BY <3>1
  <2>12. IsPrefix(Received', Content(x))
    BY <1>3, <2>8, <2>10, <2>11, Beginning
  <2>13. transfer'.of = transfer.of /\ transfer'.next = transfer.next + 1
    BY <2>1 DEF TypeOK
  <2>14. Len(Received') = transfer'.next - 1
    BY <2>2, <2>8, <2>13
  <2>15. Arrived(x)'
    BY <1>1, <1>3, <2>1, <2>2, <2>12, <2>13, <2>14 DEF Arrived, Content
  <2>16. QED
    BY <1>3, <2>15
<1>9. QED
  BY <1>5, <1>6, <1>7, <1>8 DEF Server

LEMMA ContiguousApplication ==
    ASSUME TypeOK, Contiguous, Application
    PROVE  Contiguous'
BY DEF Application, Connect, Close, List, Get, BeginPasv, SetPath, Contiguous, Receiving

-----------------------------------------------------------------------------
\* The theorems.

LEMMA Initially == Init => IInv
<1> SUFFICES ASSUME Init PROVE IInv
  OBVIOUS
<1>1. TypeOK
  BY TypeInit
<1>2. Cardinality(Pasvs) = 0 /\ Ports227 = {}
  BY FS_EmptySet DEF Init, Pasvs, Ports227
<1>3. PortsLeft /\ PortsOnce
  BY <1>2, BoundsAssumption DEF Init, PortsLeft, PortsOnce
<1>4. OnePerPort /\ Contiguous /\ OpIs /\ InStep
  BY DEF Init, OnePerPort, Contiguous, Receiving, OpIs, InStep
<1>5. OneTransfer /\ RightFile
  BY <1>1, NothingArrived DEF Init, OneTransfer, RightFile, Objects, TypeOK
<1>6. QED
  BY <1>1, <1>3, <1>4, <1>5 DEF IInv

LEMMA Inductive == IInv /\ [Next]_vars => IInv'
<1> SUFFICES ASSUME IInv, [Next]_vars PROVE IInv'
  OBVIOUS
<1> USE DEF IInv
<1>1. CASE Next
  <2>1. TypeOK'
    BY <1>1, TypeClient, TypeApplication, TypeServer DEF Next
  <2>2. PortsLeft' /\ PortsOnce' /\ OnePerPort' /\ OpIs'
    BY <1>1, PortsLeftKept, PortsOnceKept, OnePerPortKept, OpIsKept
  <2>3. InStep'
    BY <1>1, InStepClient, InStepApplication, InStepServer DEF Next
  <2>4. Contiguous'
    BY <1>1, ContiguousClient, ContiguousApplication, ContiguousServer DEF Next
  <2>5. OneTransfer' /\ (target.timely => RightFile)'
    BY <1>1, FilesKept
  <2>6. QED
    BY <2>1, <2>2, <2>3, <2>4, <2>5
<1>2. CASE UNCHANGED vars
  <2> USE <1>2 DEF vars, client, server
  <2>1. TypeOK'
    BY DEF TypeOK
  <2>2. PortsLeft' /\ PortsOnce' /\ OnePerPort' /\ OpIs'
    BY DEF PortsLeft, Pasvs, PortsOnce, Ports227, OnePerPort, OpIs
  <2>3. InStep'
    BY DEF InStep
  <2>4. Contiguous'
    BY DEF Contiguous, Arrived, Received, Taken, Content
  <2>5. OneTransfer' /\ (target.timely => RightFile)'
    BY DEF OneTransfer, RightFile, Content
  <2>6. QED
    BY <2>1, <2>2, <2>3, <2>4, <2>5
<1>3. QED
  BY <1>1, <1>2

\* The invariants hold together: the client and the server are in step until the
\* client goes on without an answer, and whatever arrived is one transfer's.
THEOREM Invariance == Spec => []IInv
BY Initially, Inductive, PTL DEF Spec

\* The types are what the model says, for any number of calls: there are no more
\* ports than calls.
THEOREM TypeCorrect == Spec => []TypeOK
<1>1. IInv => TypeOK
  BY DEF IInv
<1>2. QED
  BY <1>1, Invariance, PTL

\* Whatever is late, lost or left unread, the local file is never a mixture: each
\* data connection carries one transfer, and is closed before get opens its file.
THEOREM NeverMixed == Spec => []OneTransfer
<1>1. IInv => OneTransfer
  BY DEF IInv
<1>2. QED
  BY <1>1, Invariance, PTL

\* As long as the client goes on from no answer that is still to come, what get
\* writes is of the file setPath named, and what list returns is of the listing.
THEOREM RightFiles == Spec => []RightIfTimely
<1>1. IInv => RightIfTimely
  <2> SUFFICES ASSUME IInv, pc = "listend", ~late PROVE IsPrefix(listed, Content(Listing))
    BY DEF IInv, RightIfTimely
  <2>1. IsPrefix(Received, Content(Listing)) /\ TypeOK
    BY DEF IInv, Contiguous, Arrived, Receiving, OpIs
  <2>2. listed \in Seq(Piece) /\ wire \in Seq(Piece) /\ Received = listed \o wire
    BY <2>1, Shapes DEF Received, Taken
  <2>3. /\ Len(Received) <= Size
        /\ \A i \in 1 .. Len(Received) : Received[i] = [of |-> Listing, n |-> i]
    BY <2>1, ReceivedType, Beginning DEF Objects
  <2>4. Len(listed) \in Nat /\ Len(wire) \in Nat
    BY <2>2, LenProperties
  <2>5. /\ Len(Received) = Len(listed) + Len(wire)
        /\ \A i \in 1 .. Len(listed) : i \in 1 .. Len(Received) /\ Received[i] = listed[i]
    BY <2>2, <2>4, ConcatProperties
  <2>6. Len(listed) <= Size /\ \A i \in 1 .. Len(listed) : listed[i] = [of |-> Listing, n |-> i]
    BY <2>3, <2>4, <2>5, BoundsAssumption
  <2>7. QED
    BY <2>2, <2>6, Beginning DEF Objects
<1>2. QED
  BY <1>1, Invariance, PTL
=============================================================================
