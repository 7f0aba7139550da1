------------------------------- MODULE Ttftps -------------------------------
(***************************************************************************)
(* The TFTP upload server of wet03/src/ttftps.c, the UDP network and the   *)
(* clients around it.                                                      *)
(*                                                                         *)
(* The server is one thread with two receive loops on one socket: the      *)
(* outer loop waits for a write request, the inner one (a session) takes   *)
(* the data blocks, of whichever client they are.  One action is one turn  *)
(* of a loop: a packet received, or select's timeout, and all that the     *)
(* code does before it waits again; the end of a file takes a second one.  *)
(*                                                                         *)
(* The network loses, duplicates and reorders: a packet, once sent, may be *)
(* received at any later time, any number of times, or never.              *)
(*                                                                         *)
(* The server has no end of its own: it exits on an error, crashes, or is  *)
(* killed.  exit writes out what stdio has buffered, the other ends lose   *)
(* the end of any file that is open.                                       *)
(***************************************************************************)
EXTENDS Integers, Sequences, FiniteSets

CONSTANTS
  Addr,          (* socket addresses of clients                           *)
  Key,           (* sa_data of an address up to its first zero byte, all  *)
                 (* that strcmp compares                                  *)
  NoKey,         (* the empty sa_data of a slot not in use                *)
  Name,          (* paths of files, no two of which lead to one file: the  *)
                 (* code compares the paths as strings                    *)
  NoName,        (* the empty File_Name                                   *)
  Directory,     (* what the files hold before the server starts          *)
  Upload,        (* what each client sends, see below                     *)
  CLIENTS,       (* slots of clients_array                                *)
  Failures,      (* number_of_failures, from the command line             *)
  BlockRange,    (* block numbers that fit a packet: 2^16                 *)
  MaxWrites      (* bound of the model: odd blocks in a file              *)

(* The upload of a client: its file, the number of blocks with 512 bytes   *)
(* of data, and the packet size class of the block after them: "short" if  *)
(* its packet has less than 512 bytes, "odd" if it has 512 to 515, which   *)
(* is 508 to 511 bytes of data after the four of the header.               *)
UploadRecord == [name : Name, full : Nat, tail : {"short", "odd"}]

Written == [from : Addr, n : Nat]

ASSUME TtftpsAssumption ==
  /\ Upload \in [Addr -> UploadRecord]
  /\ Directory \in [Name -> Seq(Written)]
  /\ NoName \notin Name
  /\ CLIENTS \in Nat \ {0} /\ Failures \in Nat
  /\ BlockRange \in Nat \ {0, 1} /\ MaxWrites \in Nat

Slot == 0..(CLIENTS - 1)

Blocks(a) == 1..(Upload[a].full + 1)

Size(a, n) == IF n <= Upload[a].full THEN "full" ELSE Upload[a].tail

Wire(n) == n % BlockRange

VARIABLES
  clients_array,
  client_index,
  index,           (* main's: the slot it looked up last                  *)
  mode,            (* "outer" and "session" are the loops; the process    *)
                   (* has "exited", was "broken_off", or has "overrun"    *)
                   (* the array; it is "closing" the file of the last     *)
                   (* block                                               *)
  resendCounter,
  echoClntAddr,    (* where the last packet came from                     *)
  files,           (* the blocks written to each file, <<>> when there is *)
                   (* none                                                *)
  packets,         (* packets the clients have sent                       *)
  acks,            (* block numbers acknowledged to each client           *)
  sent             (* the packet the server sent last                     *)

array  == <<clients_array, client_index>>
server == <<array, index, mode, resendCounter, echoClntAddr, files, acks, sent>>
vars   == <<server, packets>>

(* block_number is the number of the last block accepted; open says that   *)
(* fd is not NULL.                                                         *)
Client == [key : {Key[a] : a \in Addr} \cup {NoKey}, name : Name \cup {NoName},
           block : Nat, open : BOOLEAN]

EmptySlot == [name |-> NoName, key |-> NoKey, open |-> FALSE, block |-> 0]

Packet ==
  [type : {"WRQ", "ERROR"}, from : Addr] \cup [type : {"DATA"}, from : Addr, n : Nat]

Receiving == {"outer", "session"}

Serving == Receiving \cup {"closing"}

Modes == Serving \cup {"exited", "broken_off", "overrun"}

TypeOK ==
  /\ clients_array \in [Slot -> Client]
  /\ client_index \in 0..CLIENTS
  /\ index \in Slot \cup {-1}
  /\ mode \in Modes
  /\ resendCounter \in 0..Failures
  /\ echoClntAddr \in Addr
  /\ files \in [Name -> Seq(Written)]
  /\ packets \subseteq Packet
  /\ acks \in [Addr -> SUBSET (0..BlockRange - 1)]

Init ==
  /\ clients_array = [i \in Slot |-> EmptySlot]
  /\ client_index = 0
  /\ index = -1
  /\ mode = "outer"
  /\ resendCounter = 0
  /\ echoClntAddr \in Addr
  /\ files = Directory
  /\ packets = {}
  /\ acks = [a \in Addr |-> {}]
  /\ sent = [what |-> "nothing"]

-----------------------------------------------------------------------------
(* The clients, as RFC 1350 has them: a block follows the acknowledgement  *)
(* of the one before.  Requests and blocks are repeated when no answer     *)
(* comes; the server's error packets, which carry no opcode, are ignored.  *)
(* What is sent to a server that has ended is left out.                    *)

SendPacket(p) ==
  /\ mode \in Serving
  /\ packets' = packets \cup {p}
  /\ UNCHANGED server

SendWRQ(a) == SendPacket([from |-> a, type |-> "WRQ"])

SendData(a) ==
  \E n \in Blocks(a) :
    /\ Wire(n - 1) \in acks[a]
    /\ n > 1 => [from |-> a, n |-> n - 1, type |-> "DATA"] \in packets
    /\ SendPacket([from |-> a, n |-> n, type |-> "DATA"])

SendError(a) == acks[a] # {} /\ SendPacket([from |-> a, type |-> "ERROR"])

ClientStep(a) == SendWRQ(a) \/ SendData(a) \/ SendError(a)

-----------------------------------------------------------------------------
(* clients_array *)

SlotsOf(a) == {i \in Slot : clients_array[i].key = Key[a]}

(* The bug of a search that leaves out the newest slot                     *)
is_client_existButLast(a) == \E i \in SlotsOf(a) : i + 1 # client_index

(* A key that is empty matches the slots not in use.                       *)
is_client_exist(a) == SlotsOf(a) # {}

(* The slot is_client_exist returns, the first that matches                *)
IndexOf(a) == CHOOSE i \in SlotsOf(a) : \A j \in SlotsOf(a) : i <= j

is_filename_exist(f) == \E i \in Slot : clients_array[i].name = f

NewClient(a) == [name |-> Upload[a].name, key |-> Key[a], open |-> FALSE, block |-> 0]

(* The slot is taken before the request is known to be acceptable.         *)
add_client_to_array(a, open) ==
  /\ ~is_client_exist(a)
  /\ client_index < CLIENTS
  /\ clients_array' = [clients_array EXCEPT ![client_index] = [NewClient(a) EXCEPT !.open = open]]
  /\ client_index' = client_index + 1

-----------------------------------------------------------------------------
(* Sending: a failing sendto ends the process, whose memory no longer      *)
(* matters.  The stream that fclose is given before the exit is open, as   *)
(* SessionPeer says.                                                       *)

Send(packet, next) ==
  \/ mode' = next /\ sent' = packet
  \/ mode' = "exited" /\ UNCHANGED sent

ReplyError(a, why, next) ==
  /\ Send([what |-> why, to |-> a], next)
  /\ UNCHANGED acks

ReplyAck(a, n, next) ==
  /\ Send([block |-> Wire(n), what |-> "ACK", to |-> a], next)
  /\ acks' = IF mode' = "exited" THEN acks ELSE [acks EXCEPT ![a] = @ \cup {Wire(n)}]

Receive(packet) ==
  /\ packet \in packets
  /\ echoClntAddr' = packet.from
  /\ UNCHANGED packets

(* recvfrom or select fails *)
ReceiveFails ==
  /\ mode \in Receiving
  /\ mode' = "exited"
  /\ UNCHANGED <<array, index, resendCounter, echoClntAddr, files, acks, sent, packets>>

Lengths == UNION {0..Len(files[f]) : f \in Name}

(* The server ends and open files lose what had not reached the files.      *)
BreakOff ==
  /\ mode' = "broken_off"
  /\ \E kept \in [Name -> Lengths] :
       /\ \A f \in Name :
            /\ kept[f] <= Len(files[f])
            /\ \/ \E i \in Slot : clients_array[i].open /\ clients_array[i].name = f
               \/ kept[f] = Len(files[f])
       /\ files' = [f \in Name |-> SubSeq(files[f], 1, kept[f])]
  /\ UNCHANGED <<array, resendCounter, acks, sent>>

(* for (;;) ends by a signal only.                                         *)
Killed ==
  /\ mode \in Serving
  /\ BreakOff
  /\ UNCHANGED <<index, echoClntAddr, packets>>

-----------------------------------------------------------------------------
(* The outer loop *)

WRQ(a) == mode = "outer" /\ Receive([from |-> a, type |-> "WRQ"])

RefuseClient(a) ==
  /\ WRQ(a)
  /\ is_client_exist(a)
  /\ ReplyError(a, "Unexpected packet", "outer")
  /\ UNCHANGED <<array, index, resendCounter, files>>

(* The 201st registration writes beyond the array: what the program does   *)
(* from there on is undefined.                                             *)
OverrunArray(a) ==
  /\ WRQ(a)
  /\ ~is_client_exist(a)
  /\ client_index = CLIENTS
  /\ mode' = "overrun"
  /\ UNCHANGED <<array, index, resendCounter, files, acks, sent>>

(* The client stays registered, with no open file.                         *)
RefuseFile(a) ==
  /\ WRQ(a)
  /\ is_filename_exist(Upload[a].name)
  /\ add_client_to_array(a, FALSE)
  /\ ReplyError(a, "File already exists", "outer")
  /\ UNCHANGED <<index, resendCounter, files>>

(* fopen(name, "w") empties the file if there is one.                      *)
AcceptFile(a) ==
  LET f == Upload[a].name IN
  /\ WRQ(a)
  /\ ~is_filename_exist(f)
  /\ add_client_to_array(a, TRUE)
  /\ index' = client_index
  /\ files' = [files EXCEPT ![f] = <<>>]
  /\ resendCounter' = 0
  /\ ReplyAck(a, 0, "session")

OpenFails(a) ==
  /\ WRQ(a)
  /\ ~is_filename_exist(Upload[a].name)
  /\ add_client_to_array(a, FALSE)
  /\ index' = client_index
  /\ mode' = "exited"
  /\ UNCHANGED <<resendCounter, files, acks, sent>>

(* Anything but a WRQ *)
RefuseStranger(a) ==
  /\ mode = "outer"
  /\ \E p \in packets : p.from = a /\ p.type # "WRQ" /\ Receive(p)
  /\ ReplyError(a, "Unknown user", "outer")
  /\ UNCHANGED <<array, index, resendCounter, files>>

OuterLoop(a) ==
  \/ RefuseClient(a) \/ OverrunArray(a) \/ RefuseFile(a)
  \/ AcceptFile(a) \/ OpenFails(a) \/ RefuseStranger(a)

-----------------------------------------------------------------------------
(* The session.  Every error ends it, whoever caused it: files stay open   *)
(* and clients registered.                                                 *)

EndSession(a, why) ==
  /\ ReplyError(a, why, "outer")
  /\ UNCHANGED <<array, resendCounter, files>>

UnexpectedPacket(a) ==
  /\ mode = "session"
  /\ \E p \in packets : p.from = a /\ p.type # "DATA" /\ Receive(p)
  /\ EndSession(a, "Unexpected packet")
  /\ UNCHANGED index

Data(a, n) == mode = "session" /\ Receive([from |-> a, n |-> n, type |-> "DATA"])

UnknownUser(a) ==
  /\ \E n \in Blocks(a) : Data(a, n)
  /\ ~is_client_exist(a)
  /\ index' = -1
  /\ EndSession(a, "Unknown user")

(* The bug of taking a repeated block for the next one                     *)
ExpectedOrRepeated(a, n) ==
  /\ is_client_exist(a)
  /\ Wire(n) \in {clients_array[IndexOf(a)].block, clients_array[IndexOf(a)].block + 1}

(* block_number is an int, the number in the packet 16 bits wide.          *)
Expected(a, n) == is_client_exist(a) /\ Wire(n) = clients_array[IndexOf(a)].block + 1

(* The bug of answering a repeated block and waiting on, for ever          *)
BadBlockNumberIgnored(a) ==
  /\ \E n \in Blocks(a) : Data(a, n) /\ ~Expected(a, n)
  /\ is_client_exist(a)
  /\ index' = IndexOf(a)
  /\ ReplyError(a, "Bad block number", "session")
  /\ UNCHANGED <<array, resendCounter, files>>

BadBlockNumber(a) ==
  /\ \E n \in Blocks(a) : Data(a, n) /\ ~Expected(a, n)
  /\ is_client_exist(a)
  /\ index' = IndexOf(a)
  /\ EndSession(a, "Bad block number")

(* fwrite(..., NULL), or an fwrite that finds no more room                 *)
WriteFails(a) ==
  /\ \E n \in Blocks(a) : Data(a, n) /\ Expected(a, n)
  /\ index' = IndexOf(a)
  /\ BreakOff

(* A block of the expected number arrives and is written.                  *)
Accept(a, n, size) ==
  /\ Data(a, n)
  /\ Expected(a, n)
  /\ Size(a, n) = size
  /\ index' = IndexOf(a)
  /\ clients_array[index'].open

fwrite(a, n) ==
  LET f == clients_array[index'].name IN
  files' = [files EXCEPT ![f] = Append(@, [from |-> a, n |-> n])]

CountBlock == clients_array' = [clients_array EXCEPT ![index'].block = @ + 1]

(* The bug of acknowledging the block after the one written                *)
FullBlockAckedAhead(a) ==
  \E n \in Blocks(a) :
    /\ Accept(a, n, "full")
    /\ fwrite(a, n)
    /\ CountBlock
    /\ ReplyAck(a, clients_array[index'].block + 2, "session")
    /\ UNCHANGED <<client_index, resendCounter>>

FullBlock(a) ==
  \E n \in Blocks(a) :
    /\ Accept(a, n, "full")
    /\ fwrite(a, n)
    /\ CountBlock
    /\ ReplyAck(a, clients_array[index'].block + 1, "session")
    /\ UNCHANGED <<client_index, resendCounter>>

(* The acknowledgement is on its way before the file is closed.            *)
LastBlock(a) ==
  \E n \in Blocks(a) :
    /\ Accept(a, n, "short")
    /\ fwrite(a, n)
    /\ CountBlock
    /\ ReplyAck(a, clients_array[index'].block + 1, "closing")
    /\ UNCHANGED <<client_index, resendCounter>>

(* The bug of emptying the whole slot, the name with it                    *)
DeletedWithName(i) == EmptySlot

(* The client is deleted; its File_Name stays.                             *)
Deleted(i) == [EmptySlot EXCEPT !.name = clients_array[i].name]

Close(next) ==
  /\ mode = "closing"
  /\ clients_array' = [clients_array EXCEPT ![index] = Deleted(index)]
  /\ mode' = next
  /\ UNCHANGED <<client_index, index, resendCounter, echoClntAddr, files, acks, sent, packets>>

(* The bug of waiting for more of the client that is deleted               *)
CloseFileStays == Close("session")

(* fclose, and the slot is emptied.                                        *)
CloseFile == Close("outer")

(* 512 to 515 bytes: neither "last block" nor "not last block".  The block *)
(* is written, and neither counted nor acknowledged: it is expected again, *)
(* and written again each time it arrives.                                 *)
OddBlock(a) ==
  \E n \in Blocks(a) :
    /\ Accept(a, n, "odd")
    /\ Len(files[clients_array[index'].name]) - clients_array[index'].block < MaxWrites
    /\ fwrite(a, n)
    /\ UNCHANGED <<array, mode, resendCounter, acks, sent>>

-----------------------------------------------------------------------------
(* select returned 0: the last sender gets ACK 0, again.                   *)

ResendCounting(count) ==
  /\ mode = "session"
  /\ resendCounter < Failures
  /\ ReplyAck(echoClntAddr, 0, "session")
  /\ resendCounter' = count
  /\ UNCHANGED <<array, index, echoClntAddr, files, packets>>

(* The bug of not counting the timeouts                                    *)
ResendUncounted == ResendCounting(resendCounter)

Resend == ResendCounting(resendCounter + 1)

Abandon ==
  /\ mode = "session"
  /\ resendCounter >= Failures
  /\ EndSession(echoClntAddr, "Abandoning file transmission")
  /\ UNCHANGED <<index, echoClntAddr, packets>>

Timeout == Resend \/ Abandon

SessionLoop(a) ==
  \/ UnexpectedPacket(a) \/ UnknownUser(a) \/ BadBlockNumber(a) \/ WriteFails(a)
  \/ FullBlock(a) \/ LastBlock(a) \/ OddBlock(a)

ServerStep ==
  \/ \E a \in Addr : OuterLoop(a) \/ SessionLoop(a)
  \/ CloseFile \/ Timeout \/ ReceiveFails \/ Killed

Next == (\E a \in Addr : ClientStep(a)) \/ ServerStep

Spec == Init /\ [][Next]_vars

(* A packet is under way that is written and not counted: it may come      *)
(* again and again, and each time select waits anew.                       *)
OddBlockAtHand ==
  \E a \in Addr : \E n \in Blocks(a) :
    /\ [from |-> a, n |-> n, type |-> "DATA"] \in packets
    /\ Expected(a, n) /\ Size(a, n) = "odd"
    /\ clients_array[IndexOf(a)].open

(* Every other packet ends the session or is counted, and only so many can *)
(* be (SessionAdvances): while there is no odd block, select times out in  *)
(* the end, wait_for_packet_time after the last packet.  The rest of the   *)
(* turn that took the last block waits for nothing.  Neither the network   *)
(* nor the failure of sendto is owed anything.                             *)
FairSpec ==
  /\ Spec
  /\ WF_vars(Timeout /\ ~OddBlockAtHand /\ mode' # "exited")
  /\ WF_vars(CloseFile)
=============================================================================
