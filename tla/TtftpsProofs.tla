---------------------------- MODULE TtftpsProofs ----------------------------
(* Proofs about the TFTP upload server, for any clients, files and limits *)
EXTENDS TtftpsProperties, WellFoundedInduction, FiniteSetTheorems, TLAPS

(* A set of numbers has a least one, which is_client_exist returns.        *)
Less == {ss \in Nat \X Nat : ss[1] < ss[2]}

LEMMA LessWellFounded == IsWellFoundedOn(Less, Nat)
<1>1. Less = OpToRel(<, Nat)
  BY Zenon DEF Less, OpToRel
<1> QED
  BY <1>1, NatLessThanWellFounded, Zenon

LEMMA LeastExists ==
  ASSUME NEW T, T \subseteq Nat, T # {}
  PROVE  \E x \in T : \A y \in T : x <= y
<1>1. PICK x \in T : \A y \in T : ~ (<<y, x>> \in Less)
  BY LessWellFounded, WFMin, Zenon
<1>2. ASSUME NEW y \in T
      PROVE  ~(y < x)
  <2>1. <<y, x>> \in Nat \X Nat
    OBVIOUS
  <2>2. <<y, x>>[1] = y /\ <<y, x>>[2] = x
    OBVIOUS
  <2> QED
    BY <1>1, <2>1, <2>2, Zenon DEF Less
<1> QED
  BY <1>2

LEMMA WireFacts ==
  ASSUME NEW n \in Nat
  PROVE  /\ Wire(n) \in 0..(BlockRange - 1)
         /\ n < BlockRange => Wire(n) = n
BY TtftpsAssumption DEF Wire

LEMMA BlocksFacts ==
  ASSUME NEW a \in Addr, NEW n \in Blocks(a)
  PROVE  /\ n \in Nat /\ n >= 1 /\ Upload[a].full \in Nat
         /\ n <= Upload[a].full + 1
         /\ Size(a, n) # "full" => n = Upload[a].full + 1
<1>1. Upload[a].full \in Nat
  BY TtftpsAssumption DEF UploadRecord
<1> QED
  BY <1>1 DEF Blocks, Size

LEMMA IndexFacts ==
  ASSUME NEW a \in Addr, TypeOK, is_client_exist(a)
  PROVE  IndexOf(a) \in Slot /\ clients_array[IndexOf(a)].key = Key[a]
<1>1. SlotsOf(a) \subseteq Slot /\ SlotsOf(a) # {}
  BY DEF is_client_exist, SlotsOf
<1>2. PICK m \in SlotsOf(a) : \A j \in SlotsOf(a) : m <= j
  BY <1>1, LeastExists DEF Slot
<1>3. IndexOf(a) \in SlotsOf(a)
  BY <1>2 DEF IndexOf
<1> QED
  BY <1>1, <1>3 DEF SlotsOf

-----------------------------------------------------------------------------
(* Types *)

LEMMA ReplyAckType ==
  ASSUME TypeOK, NEW a \in Addr, NEW n \in Nat, NEW next \in Serving, ReplyAck(a, n, next)
  PROVE  mode' \in Modes /\ acks' \in [Addr -> SUBSET (0..BlockRange - 1)]
<1>1. mode' \in Modes
  BY DEF ReplyAck, Send, Modes
<1>2. acks' \in [Addr -> SUBSET (0..BlockRange - 1)]
  BY WireFacts DEF ReplyAck, TypeOK
<1> QED
  BY <1>1, <1>2

LEMMA BreakOffFacts ==
  ASSUME TypeOK, BreakOff
  PROVE  /\ mode' = "broken_off"
         /\ UNCHANGED <<clients_array, client_index, resendCounter, acks, sent>>
         /\ files' \in [Name -> Seq(Written)]
         /\ \A f \in Name :
              /\ Len(files'[f]) <= Len(files[f])
              /\ \A j \in 1..Len(files'[f]) : files'[f][j] = files[f][j]
              /\ Opened(f) \/ files'[f] = files[f]
<1>1. PICK kept \in [Name -> Lengths] :
         /\ \A f \in Name :
              /\ kept[f] <= Len(files[f])
              /\ \/ \E i \in Slot : clients_array[i].open /\ clients_array[i].name = f
                 \/ kept[f] = Len(files[f])
         /\ files' = [f \in Name |-> SubSeq(files[f], 1, kept[f])]
  BY DEF BreakOff
<1>2. ASSUME NEW f \in Name
      PROVE  /\ files'[f] \in Seq(Written)
             /\ Len(files'[f]) <= Len(files[f])
             /\ \A j \in 1..Len(files'[f]) : files'[f][j] = files[f][j]
             /\ Opened(f) \/ files'[f] = files[f]
  <2>1. files[f] \in Seq(Written)
    BY DEF TypeOK
  <2>2. kept[f] \in 0..Len(files[f])
    <3>1. kept[f] \in Nat
      BY <2>1 DEF Lengths, TypeOK
    <3> QED
      BY <1>1, <3>1, <2>1
  <2>3. files'[f] = SubSeq(files[f], 1, kept[f])
    BY <1>1
  <2>4. CASE kept[f] = Len(files[f])
    BY <2>1, <2>2, <2>3, <2>4
  <2>5. CASE Opened(f)
    BY <2>1, <2>2, <2>3, <2>5
  <2> QED
    BY <1>1, <2>4, <2>5 DEF Opened
<1>3. files' \in [Name -> Seq(Written)]
  BY <1>1, <1>2
<1> QED
  BY <1>2, <1>3 DEF BreakOff, array
(* An accepted block: the client it comes from has an open file.           *)
LEMMA AcceptFacts ==
  ASSUME TypeOK, ArrayInv, NEW a \in Addr, NEW n \in Blocks(a), NEW size, Accept(a, n, size)
  PROVE  /\ index' \in Slot
         /\ clients_array[index'].key = Key[a] /\ Key[a] # NoKey
         /\ clients_array[index'].open
         /\ clients_array[index'].name \in Name
         /\ clients_array[index'].block \in Nat
         /\ Wire(n) = clients_array[index'].block + 1
         /\ clients_array[index'].block + 1 < BlockRange
         /\ Size(a, n) = size
         /\ echoClntAddr' = a /\ mode = "session" /\ packets' = packets
         /\ [type |-> "DATA", from |-> a, n |-> n] \in packets
<1>1. is_client_exist(a) /\ index' = IndexOf(a) /\ clients_array[index'].open
      /\ Wire(n) = clients_array[index'].block + 1
  BY DEF Accept, Expected
<1>2. index' \in Slot /\ clients_array[index'].key = Key[a]
  BY <1>1, IndexFacts
<1>3. clients_array[index'] \in Client
  BY <1>2 DEF TypeOK
<1>4. clients_array[index'].key # NoKey /\ clients_array[index'].name # NoName
  BY <1>1, <1>2 DEF ArrayInv
<1>5. n \in Nat
  BY BlocksFacts
<1>6. Wire(n) < BlockRange
  BY <1>5, WireFacts, TtftpsAssumption
<1> QED
  BY <1>1, <1>2, <1>3, <1>4, <1>6 DEF Accept, Data, Receive, Client

(* The slot of the client after the block n of client a                    *)
SlotAfter(a, n, i) ==
  IF Size(a, n) = "odd" THEN clients_array[i] ELSE [clients_array[i] EXCEPT !.block = @ + 1]

(* What a step that takes the block n of client a, of slot i, does         *)
Stored(a, n, i) ==
  /\ index' = i /\ i \in Slot
  /\ clients_array[i] \in Client /\ clients_array[i].open
  /\ clients_array[i].key = Key[a] /\ Key[a] # NoKey
  /\ clients_array[i].name \in Name
  /\ Wire(n) = clients_array[i].block + 1 /\ Wire(n) < BlockRange
  /\ [type |-> "DATA", from |-> a, n |-> n] \in packets
  /\ clients_array' = [clients_array EXCEPT ![i] = SlotAfter(a, n, i)]
  /\ clients_array' \in [Slot -> Client]
  /\ files' = [files EXCEPT ![clients_array[i].name] = Append(@, [from |-> a, n |-> n])]
  /\ files' \in [Name -> Seq(Written)]
  /\ acks' \in [Addr -> SUBSET (0..BlockRange - 1)]
  /\ acks' = acks \/ (Size(a, n) # "odd" /\ acks' = [acks EXCEPT ![a] = @ \cup {Wire(n)}])
  /\ mode = "session" /\ echoClntAddr' = a
  /\ mode' \in {"session", "closing", "exited"}
  /\ mode' = "closing" => Size(a, n) = "short"
  /\ UNCHANGED <<client_index, resendCounter, packets>>

LEMMA SlotAfterFacts ==
  ASSUME NEW a, NEW n, NEW i, clients_array[i] \in Client
  PROVE  LET s == SlotAfter(a, n, i) IN
         /\ s \in Client
         /\ s.name = clients_array[i].name /\ s.key = clients_array[i].key
         /\ s.open = clients_array[i].open
         /\ s.block = IF Size(a, n) = "odd" THEN clients_array[i].block
                      ELSE clients_array[i].block + 1
BY DEF SlotAfter, Client

LEMMA FileWritten ==
  ASSUME TypeOK, ArrayInv, NEW a \in Addr, NEW n \in Blocks(a), NEW size,
         Accept(a, n, size), fwrite(a, n)
  PROVE  /\ files' = [files EXCEPT ![clients_array[index'].name] = Append(@, [from |-> a, n |-> n])]
         /\ files' \in [Name -> Seq(Written)]
<1> DEFINE b == [from |-> a, n |-> n]
           name == clients_array[index'].name
<1>1. name \in Name
  BY AcceptFacts
<1>2. files' = [files EXCEPT ![name] = Append(@, b)]
  BY DEF fwrite
<1>3. b \in Written
  BY BlocksFacts DEF Written
<1>4. files \in [Name -> Seq(Written)]
  BY DEF TypeOK
<1>5. Append(files[name], b) \in Seq(Written)
  BY <1>1, <1>3, <1>4
<1> QED
  BY <1>2, <1>4, <1>5

(* A block that is counted and acknowledged                                *)
LEMMA CountedFacts ==
  ASSUME TypeOK, ArrayInv, NEW a \in Addr, NEW n \in Blocks(a),
         NEW size \in {"full", "short"}, NEW next \in {"session", "closing"},
         next = "closing" => size = "short",
         Accept(a, n, size), fwrite(a, n), CountBlock,
         UNCHANGED <<client_index, resendCounter>>,
         ReplyAck(a, clients_array[index'].block + 1, next)
  PROVE  Stored(a, n, index') /\ Size(a, n) = size
<1> DEFINE i == index'
<1>1. /\ i \in Slot /\ clients_array[i].open
      /\ clients_array[i].key = Key[a] /\ Key[a] # NoKey
      /\ clients_array[i].name \in Name
      /\ clients_array[i].block \in Nat
      /\ Wire(n) = clients_array[i].block + 1 /\ Wire(n) < BlockRange
      /\ [type |-> "DATA", from |-> a, n |-> n] \in packets
      /\ Size(a, n) = size
      /\ mode = "session" /\ echoClntAddr' = a /\ packets' = packets
  BY AcceptFacts
<1>2. clients_array[i] \in Client
  BY <1>1 DEF TypeOK
<1>3. /\ files' = [files EXCEPT ![clients_array[i].name] = Append(@, [from |-> a, n |-> n])]
      /\ files' \in [Name -> Seq(Written)]
  BY FileWritten
<1>4. clients_array' = [clients_array EXCEPT ![i] = SlotAfter(a, n, i)]
  BY <1>1 DEF CountBlock, SlotAfter, TypeOK
<1>5. clients_array' \in [Slot -> Client]
  BY <1>2, <1>4, SlotAfterFacts DEF TypeOK
<1>6. clients_array[i].block + 1 \in Nat /\ next \in Serving
  BY <1>1 DEF Serving, Receiving
<1>7. acks' \in [Addr -> SUBSET (0..BlockRange - 1)]
  BY <1>6, ReplyAckType
<1>8. Wire(clients_array[i].block + 1) = Wire(n)
  BY <1>1, <1>6, WireFacts
<1>9. mode' \in {next, "exited"} /\ (acks' = acks \/ acks' = [acks EXCEPT ![a] = @ \cup {Wire(n)}])
  BY <1>8 DEF ReplyAck, Send
<1> QED
  BY <1>1, <1>2, <1>3, <1>4, <1>5, <1>7, <1>9 DEF Stored

LEMMA FullBlockFacts ==
  ASSUME TypeOK, ArrayInv, NEW a \in Addr, FullBlock(a)
  PROVE  \E n \in Blocks(a), i \in Slot : Stored(a, n, i) /\ Size(a, n) = "full"
<1>1. PICK n \in Blocks(a) :
        /\ Accept(a, n, "full")
        /\ fwrite(a, n)
        /\ CountBlock
        /\ ReplyAck(a, clients_array[index'].block + 1, "session")
        /\ UNCHANGED <<client_index, resendCounter>>
  BY DEF FullBlock
<1>2. Stored(a, n, index') /\ Size(a, n) = "full"
  BY <1>1, CountedFacts
<1> QED
  BY <1>2 DEF Stored

LEMMA BlockFacts ==
  ASSUME TypeOK, ArrayInv, NEW a \in Addr, FullBlock(a) \/ LastBlock(a) \/ OddBlock(a)
  PROVE  \E n \in Blocks(a), i \in Slot : Stored(a, n, i)
<1>1. CASE FullBlock(a)
  BY <1>1, FullBlockFacts
<1>2. CASE LastBlock(a)
  <2>1. PICK n \in Blocks(a) :
          /\ Accept(a, n, "short")
          /\ fwrite(a, n)
          /\ CountBlock
          /\ ReplyAck(a, clients_array[index'].block + 1, "closing")
          /\ UNCHANGED <<client_index, resendCounter>>
    BY <1>2 DEF LastBlock
  <2>2. Stored(a, n, index')
    BY <2>1, CountedFacts
  <2> QED
    BY <2>2 DEF Stored
<1>3. CASE OddBlock(a)
  <2>1. PICK n \in Blocks(a) :
          /\ Accept(a, n, "odd")
          /\ fwrite(a, n)
          /\ UNCHANGED <<array, mode, resendCounter, acks, sent>>
    BY <1>3 DEF OddBlock
  <2> DEFINE i == index'
  <2>2. /\ i \in Slot /\ clients_array[i].open
        /\ clients_array[i].key = Key[a] /\ Key[a] # NoKey
        /\ clients_array[i].name \in Name
        /\ Wire(n) = clients_array[i].block + 1 /\ Wire(n) < BlockRange
        /\ [type |-> "DATA", from |-> a, n |-> n] \in packets
        /\ Size(a, n) = "odd"
        /\ mode = "session" /\ echoClntAddr' = a /\ packets' = packets
    BY <2>1, AcceptFacts
  <2>3. clients_array[i] \in Client
    BY <2>2 DEF TypeOK
  <2>4. /\ files' = [files EXCEPT ![clients_array[i].name] = Append(@, [from |-> a, n |-> n])]
        /\ files' \in [Name -> Seq(Written)]
    BY <2>1, FileWritten
  <2>5. clients_array' = [clients_array EXCEPT ![i] = SlotAfter(a, n, i)]
        /\ clients_array' \in [Slot -> Client]
    BY <2>1, <2>2 DEF SlotAfter, TypeOK, array
  <2>6. /\ acks' = acks /\ acks' \in [Addr -> SUBSET (0..BlockRange - 1)]
        /\ mode' = "session" /\ UNCHANGED <<client_index, resendCounter>>
    BY <2>1, <2>2 DEF TypeOK, array
  <2> QED
    BY <2>2, <2>3, <2>4, <2>5, <2>6 DEF Stored
<1> QED
  BY <1>1, <1>2, <1>3

(* A registration adds one slot, after all that are in use.                *)
LEMMA AddFacts ==
  ASSUME TypeOK, NEW a \in Addr, NEW b \in BOOLEAN, add_client_to_array(a, b)
  PROVE  /\ client_index \in Slot /\ client_index' = client_index + 1
         /\ client_index' \in 0..CLIENTS
         /\ clients_array' \in [Slot -> Client]
         /\ clients_array' = [clients_array EXCEPT
              ![client_index] = [key |-> Key[a], name |-> Upload[a].name, block |-> 0, open |-> b]]
         /\ Upload[a].name \in Name
         /\ \A i \in Slot : clients_array[i].key # Key[a]
<1>1. Upload[a].name \in Name
  BY TtftpsAssumption DEF UploadRecord
<1>2. client_index \in Slot /\ client_index' = client_index + 1 /\ client_index' \in 0..CLIENTS
  BY TtftpsAssumption DEF add_client_to_array, Slot, TypeOK
<1>3. [NewClient(a) EXCEPT !.open = b]
        = [key |-> Key[a], name |-> Upload[a].name, block |-> 0, open |-> b]
  BY DEF NewClient
<1>4. clients_array' = [clients_array EXCEPT
        ![client_index] = [key |-> Key[a], name |-> Upload[a].name, block |-> 0, open |-> b]]
  BY <1>3 DEF add_client_to_array
<1>5. clients_array' \in [Slot -> Client]
  BY <1>1, <1>2, <1>4 DEF TypeOK, Client
<1>6. \A i \in Slot : clients_array[i].key # Key[a]
  BY DEF add_client_to_array, is_client_exist, SlotsOf
<1> QED
  BY <1>1, <1>2, <1>4, <1>5, <1>6

LEMMA TypeStep ==
  ASSUME TypeOK, ArrayInv, SessionPeer, [Next]_vars
  PROVE  TypeOK'
<1> USE DEF TypeOK
<1>1. ASSUME NEW a \in Addr, ClientStep(a)
      PROVE  TypeOK'
  <2>1. ASSUME NEW p \in Packet, SendPacket(p)
        PROVE  TypeOK'
    BY <2>1 DEF SendPacket, server, array
  <2>2. CASE SendWRQ(a)
    BY <2>1, <2>2 DEF SendWRQ, Packet
  <2>3. CASE SendData(a)
    BY <2>1, <2>3, BlocksFacts DEF SendData, Packet
  <2>4. CASE SendError(a)
    BY <2>1, <2>4 DEF SendError, Packet
  <2> QED
    BY <1>1, <2>2, <2>3, <2>4 DEF ClientStep
<1>2. ASSUME NEW a \in Addr, NEW b \in BOOLEAN, add_client_to_array(a, b)
      PROVE  /\ clients_array' \in [Slot -> Client]
             /\ client_index' \in 0..CLIENTS
             /\ client_index \in Slot
  BY <1>2, AddFacts
<1>3. ASSUME NEW a \in Addr, OuterLoop(a)
      PROVE  TypeOK'
  <2> USE DEF WRQ, Receive, Send, ReplyError, Modes, Serving, Receiving, array
  <2>1. CASE RefuseClient(a)
    BY <2>1 DEF RefuseClient
  <2>2. CASE OverrunArray(a)
    BY <2>2 DEF OverrunArray
  <2>3. CASE RefuseFile(a)
    BY <2>3, <1>2 DEF RefuseFile
  <2>4. CASE AcceptFile(a)
    <3>1. mode' \in Modes /\ acks' \in [Addr -> SUBSET (0..BlockRange - 1)]
      BY <2>4, ReplyAckType DEF AcceptFile
    <3>2. clients_array' \in [Slot -> Client] /\ client_index' \in 0..CLIENTS /\ index' \in Slot
      BY <2>4, <1>2 DEF AcceptFile
    <3>3. files' \in [Name -> Seq(Written)]
      <4>1. <<>> \in Seq(Written)
        OBVIOUS
      <4> QED
        BY <2>4, <4>1 DEF AcceptFile
    <3>4. resendCounter' \in 0..Failures
      BY <2>4, TtftpsAssumption DEF AcceptFile
    <3> QED
      BY <2>4, <3>1, <3>2, <3>3, <3>4 DEF AcceptFile
  <2>5. CASE OpenFails(a)
    BY <2>5, <1>2 DEF OpenFails
  <2>6. CASE RefuseStranger(a)
    BY <2>6 DEF RefuseStranger
  <2> QED
    BY <1>3, <2>1, <2>2, <2>3, <2>4, <2>5, <2>6 DEF OuterLoop
<1>4. ASSUME NEW a \in Addr, SessionLoop(a)
      PROVE  TypeOK'
  <2> USE DEF Data, Receive, Send, ReplyError, EndSession, Modes, Serving, Receiving, array
  <2>1. CASE UnexpectedPacket(a)
    BY <2>1 DEF UnexpectedPacket
  <2>2. CASE UnknownUser(a)
    BY <2>2 DEF UnknownUser
  <2>3. CASE BadBlockNumber(a)
    BY <2>3, IndexFacts DEF BadBlockNumber
  <2>4. CASE WriteFails(a)
    <3>1. index' \in Slot
      BY <2>4, IndexFacts DEF WriteFails, Expected
    <3> QED
      BY <2>4, <3>1, BreakOffFacts DEF WriteFails
  <2>5. CASE FullBlock(a) \/ LastBlock(a) \/ OddBlock(a)
    <3>1. PICK n \in Blocks(a), i \in Slot : Stored(a, n, i)
      BY <2>5, BlockFacts
    <3> QED
      BY <3>1 DEF Stored
  <2> QED
    BY <1>4, <2>1, <2>2, <2>3, <2>4, <2>5 DEF SessionLoop
<1>5. CASE Resend
  <2>1. mode' \in Modes /\ acks' \in [Addr -> SUBSET (0..BlockRange - 1)]
    BY <1>5, ReplyAckType DEF Resend, ResendCounting, Serving, Receiving
  <2>2. resendCounter' \in 0..Failures
    BY <1>5, TtftpsAssumption DEF Resend, ResendCounting
  <2> QED
    BY <1>5, <2>1, <2>2 DEF Resend, ResendCounting, array
<1>6. CASE Abandon
  BY <1>6 DEF Abandon, EndSession, ReplyError, Send, Modes, Serving, Receiving, array
<1>7. CASE ReceiveFails
  BY <1>7 DEF ReceiveFails, Modes, array
<1>8. CASE Killed
  BY <1>8, BreakOffFacts DEF Killed, Modes
<1>9. CASE CloseFile
  <2>1. index \in Slot
    BY <1>9 DEF CloseFile, Close, SessionPeer
  <2>2. clients_array[index] \in Client /\ Deleted(index) \in Client
    BY <2>1 DEF Deleted, EmptySlot, Client
  <2>3. clients_array' \in [Slot -> Client]
    BY <1>9, <2>2 DEF CloseFile, Close
  <2> QED
    BY <1>9, <2>3 DEF CloseFile, Close, Modes, Serving, Receiving
<1>10. CASE UNCHANGED vars
  BY <1>10 DEF vars, server, array
<1> QED
  BY <1>1, <1>3, <1>4, <1>5, <1>6, <1>7, <1>8, <1>9, <1>10 DEF Next, ServerStep, Timeout
-----------------------------------------------------------------------------
(* The kinds of steps *)

AckedNoMore == \A a \in Addr : acks'[a] \ {0} \subseteq acks[a]

Quiet ==
  /\ UNCHANGED <<clients_array, client_index, files>>
  /\ mode' = "broken_off" <=> mode = "broken_off"
  /\ mode' = "closing" => mode = "closing" /\ index' = index
  /\ AckedNoMore
  /\ packets' = packets \/ \E a \in Addr : ClientStep(a)

Registration(a, b) ==
  /\ add_client_to_array(a, b)
  /\ b => ~is_filename_exist(Upload[a].name)
  /\ files' = IF b THEN [files EXCEPT ![Upload[a].name] = <<>>] ELSE files
  /\ mode = "outer" /\ mode' \notin {"broken_off", "closing"}
  /\ AckedNoMore
  /\ packets' = packets

(* The last block's file is closed, and its client deleted.                *)
Closed ==
  /\ mode = "closing" /\ mode' = "outer"
  /\ index \in Slot
  /\ clients_array[index] \in Client
  /\ clients_array[index].open
  /\ clients_array' = [clients_array EXCEPT ![index] = Deleted(index)]
  /\ UNCHANGED <<client_index, index, files, acks, packets>>

LEMMA DeletedFacts ==
  ASSUME NEW i \in Slot
  PROVE  /\ Deleted(i).name = clients_array[i].name /\ Deleted(i).key = NoKey
         /\ Deleted(i).open = FALSE /\ Deleted(i).block = 0
BY DEF Deleted, EmptySlot

LEMMA NoNewAcks ==
  ASSUME TypeOK, NEW a \in Addr, NEW next, ReplyAck(a, 0, next)
  PROVE  AckedNoMore /\ mode' \in {next, "exited"}
<1>1. Wire(0) = 0
  BY WireFacts, TtftpsAssumption
<1>2. acks' = acks \/ acks' = [acks EXCEPT ![a] = @ \cup {0}]
  BY <1>1 DEF ReplyAck
<1>3. mode' \in {next, "exited"}
  BY DEF ReplyAck, Send
<1> QED
  BY <1>2, <1>3 DEF AckedNoMore, TypeOK

LEMMA StepKinds ==
  ASSUME TypeOK, ArrayInv, SessionPeer, [Next]_vars
  PROVE  \/ Quiet
         \/ BreakOff /\ packets' = packets
         \/ \E a \in Addr, b \in BOOLEAN : Registration(a, b)
         \/ \E a \in Addr : \E n \in Blocks(a), i \in Slot : Stored(a, n, i)
         \/ Closed
<1>1. ASSUME NEW a \in Addr, ClientStep(a)
      PROVE  Quiet
  BY <1>1 DEF ClientStep, SendWRQ, SendData, SendError, SendPacket, server, array,
              Quiet, AckedNoMore
<1>2. ASSUME NEW a \in Addr, OuterLoop(a)
      PROVE  Quiet \/ \E b \in BOOLEAN : Registration(a, b)
  <2> USE DEF WRQ, Receive, Send, ReplyError, array, AckedNoMore
  <2>1. CASE RefuseClient(a)
    BY <2>1 DEF RefuseClient, Quiet
  <2>2. CASE OverrunArray(a)
    BY <2>2 DEF OverrunArray, Quiet
  <2>3. CASE RefuseFile(a)
    BY <2>3 DEF RefuseFile, Registration
  <2>4. CASE AcceptFile(a)
    <3>1. AckedNoMore /\ mode' \notin {"broken_off", "closing"}
      BY <2>4, NoNewAcks DEF AcceptFile
    <3>2. Registration(a, TRUE)
      BY <2>4, <3>1 DEF AcceptFile, Registration
    <3> QED
      BY <3>2
  <2>5. CASE OpenFails(a)
    BY <2>5 DEF OpenFails, Registration
  <2>6. CASE RefuseStranger(a)
    BY <2>6 DEF RefuseStranger, Quiet
  <2> QED
    BY <1>2, <2>1, <2>2, <2>3, <2>4, <2>5, <2>6 DEF OuterLoop
<1>3. ASSUME NEW a \in Addr, SessionLoop(a)
      PROVE  Quiet \/ (BreakOff /\ packets' = packets)
               \/ \E n \in Blocks(a), i \in Slot : Stored(a, n, i)
  <2> USE DEF Data, Receive, Send, ReplyError, EndSession, array, AckedNoMore
  <2>1. CASE UnexpectedPacket(a)
    BY <2>1 DEF UnexpectedPacket, Quiet
  <2>2. CASE UnknownUser(a)
    BY <2>2 DEF UnknownUser, Quiet
  <2>3. CASE BadBlockNumber(a)
    BY <2>3 DEF BadBlockNumber, Quiet
  <2>4. CASE WriteFails(a)
    BY <2>4 DEF WriteFails
  <2>5. CASE FullBlock(a) \/ LastBlock(a) \/ OddBlock(a)
    BY <2>5, BlockFacts
  <2> QED
    BY <1>3, <2>1, <2>2, <2>3, <2>4, <2>5 DEF SessionLoop
<1>4. CASE Resend
  <2>1. AckedNoMore /\ mode' \in {"session", "exited"}
    BY <1>4, NoNewAcks DEF Resend, ResendCounting, TypeOK
  <2> QED
    BY <1>4, <2>1 DEF Resend, ResendCounting, array, Quiet
<1>5. CASE Abandon
  BY <1>5 DEF Abandon, EndSession, ReplyError, Send, array, Quiet, AckedNoMore
<1>6. CASE ReceiveFails
  BY <1>6 DEF ReceiveFails, Receiving, array, Quiet, AckedNoMore
<1>7. CASE Killed
  BY <1>7 DEF Killed
<1>8. CASE CloseFile
  <2>1. index \in Slot /\ clients_array[index].open
    BY <1>8 DEF CloseFile, Close, SessionPeer
  <2>2. clients_array[index] \in Client
    BY <2>1 DEF TypeOK
  <2> QED
    BY <1>8, <2>1, <2>2 DEF CloseFile, Close, Closed
<1>9. CASE UNCHANGED vars
  BY <1>9 DEF vars, server, array, Quiet, AckedNoMore
<1> QED
  BY <1>1, <1>2, <1>3, <1>4, <1>5, <1>6, <1>7, <1>8, <1>9 DEF Next, ServerStep, Timeout

-----------------------------------------------------------------------------
(* clients_array *)

LEMMA ArrayStep ==
  ASSUME TypeOK, ArrayInv, OneSlotPerClient, SessionPeer, TypeOK', [Next]_vars
  PROVE  ArrayInv' /\ OneSlotPerClient'
<1>1. CASE UNCHANGED <<clients_array, client_index>>
  BY <1>1 DEF ArrayInv, OneSlotPerClient, Taken
<1>2. ASSUME NEW a \in Addr, NEW b \in BOOLEAN, Registration(a, b)
      PROVE  ArrayInv' /\ OneSlotPerClient'
  <2> DEFINE new == [key |-> Key[a], name |-> Upload[a].name, block |-> 0, open |-> b]
  <2>1. /\ client_index \in Slot /\ client_index' = client_index + 1
        /\ clients_array' = [clients_array EXCEPT ![client_index] = new]
        /\ Upload[a].name \in Name
        /\ \A i \in Slot : clients_array[i].key # Key[a]
    BY <1>2, AddFacts DEF Registration
  <2>2. clients_array[client_index] = EmptySlot
    BY <2>1 DEF ArrayInv, Slot
  <2>3. Key[a] # NoKey
    BY <2>1, <2>2 DEF EmptySlot
  <2>4. clients_array'[client_index] = new
        /\ \A i \in Slot \ {client_index} : clients_array'[i] = clients_array[i]
    BY <2>1 DEF TypeOK
  <2>5. \A i \in Slot :
          /\ i >= client_index' => clients_array'[i] = EmptySlot
          /\ clients_array'[i].block < BlockRange
          /\ clients_array'[i].open =>
               clients_array'[i].key # NoKey /\ clients_array'[i].name # NoName
    BY <2>1, <2>3, <2>4, TtftpsAssumption DEF ArrayInv, Slot
  <2>6. OneSlotPerClient'
    BY <2>1, <2>4 DEF OneSlotPerClient
  <2>7. \A i, j \in Slot :
          Taken(i)' /\ Taken(j)' /\ clients_array'[i].name = clients_array'[j].name => i = j
    <3>0. PICK k \in Slot : k = client_index
      BY <2>1
    <3>1. \A i \in Slot \ {k} : Taken(i)' => Taken(i)
      BY <2>4, <3>0 DEF Taken
    <3>2. Taken(k)' => \A i \in Slot \ {k} : clients_array'[i].name # Upload[a].name
      BY <1>2, <2>3, <2>4, <3>0 DEF Taken, Registration, is_filename_exist
    <3> QED
      BY <2>4, <3>0, <3>1, <3>2 DEF ArrayInv
  <2> QED
    BY <2>5, <2>6, <2>7 DEF ArrayInv
<1>3. ASSUME NEW i \in Slot, NEW slot, clients_array[i] \in Client, clients_array[i].open,
             clients_array' = [clients_array EXCEPT ![i] = slot], client_index' = client_index,
             slot.name = clients_array[i].name, slot.block < BlockRange,
             slot.key \in {NoKey, clients_array[i].key},
             slot.open => slot.key # NoKey
      PROVE  ArrayInv' /\ OneSlotPerClient'
  <2>1. clients_array'[i] = slot /\ \A j \in Slot \ {i} : clients_array'[j] = clients_array[j]
    BY <1>3 DEF TypeOK
  <2>2. Taken(i) /\ i < client_index /\ client_index' = client_index
    <3>1. Taken(i)
      BY <1>3 DEF ArrayInv, Taken
    <3>2. clients_array[i] # EmptySlot
      BY <1>3 DEF EmptySlot
    <3>3. i \in Int /\ client_index \in Int
      BY DEF Slot, TypeOK
    <3> QED
      BY <1>3, <3>1, <3>2, <3>3 DEF ArrayInv
  <2>3. OneSlotPerClient'
    BY <1>3, <2>1 DEF OneSlotPerClient
  <2>4. \A j \in Slot : Taken(j)' => Taken(j) /\ clients_array'[j].name = clients_array[j].name
    BY <1>3, <2>1, <2>2 DEF Taken
  <2>5. \A j \in Slot :
          /\ j >= client_index' => clients_array'[j] = EmptySlot
          /\ clients_array'[j].block < BlockRange
          /\ clients_array'[j].open =>
               clients_array'[j].key # NoKey /\ clients_array'[j].name # NoName
    BY <1>3, <2>1, <2>2, TtftpsAssumption DEF ArrayInv, Slot, TypeOK
  <2> QED
    BY <2>3, <2>4, <2>5 DEF ArrayInv
<1>4. ASSUME NEW a \in Addr, NEW n \in Blocks(a), NEW i \in Slot, Stored(a, n, i)
      PROVE  ArrayInv' /\ OneSlotPerClient'
  <2>1. /\ SlotAfter(a, n, i).name = clients_array[i].name
        /\ SlotAfter(a, n, i).block < BlockRange
        /\ SlotAfter(a, n, i).key = clients_array[i].key /\ SlotAfter(a, n, i).key # NoKey
    BY <1>4, SlotAfterFacts DEF Stored, ArrayInv
  <2> QED
    BY <1>3, <1>4, <2>1 DEF Stored
<1>5. CASE Closed
  <2>1. PICK i \in Slot : i = index
    BY <1>5 DEF Closed
  <2>2. /\ clients_array[i] \in Client /\ clients_array[i].open
        /\ clients_array' = [clients_array EXCEPT ![i] = Deleted(i)] /\ client_index' = client_index
    BY <1>5, <2>1 DEF Closed
  <2>3. /\ Deleted(i).name = clients_array[i].name
        /\ Deleted(i).key = NoKey /\ ~Deleted(i).open
        /\ Deleted(i).block = 0 /\ 0 < BlockRange
    BY TtftpsAssumption DEF Deleted, EmptySlot
  <2> QED
    BY <1>3, <2>2, <2>3
<1> QED
  BY <1>1, <1>2, <1>4, <1>5, StepKinds, BreakOffFacts DEF Quiet
-----------------------------------------------------------------------------
(* The numbers of blocks *)

LEMMA InOrderNumber ==
  ASSUME TypeOK, OneSlotPerClient, WrapInv, NEW a \in Addr, NEW n \in Blocks(a),
         NEW i \in Slot, Stored(a, n, i)
  PROVE  n = clients_array[i].block + 1 /\ n = Wire(n) /\ n \in Nat
<1>1. n \in Nat
  BY BlocksFacts
<1>2. n < BlockRange
  <2>1. SUFFICES ASSUME n >= BlockRange
                 PROVE  FALSE
    BY <1>1, TtftpsAssumption
  <2>2. PICK j \in Slot : /\ clients_array[j].key = Key[a]
                          /\ clients_array[j].block = BlockRange - 1
    BY <2>1 DEF WrapInv, Stored, Stuck
  <2>3. j = i
    BY <2>2 DEF OneSlotPerClient, Stored
  <2> QED
    BY <2>2, <2>3, TtftpsAssumption DEF Stored
<1> QED
  BY <1>1, <1>2, WireFacts DEF Stored

LEMMA StuckStays ==
  ASSUME TypeOK, ArrayInv, SessionPeer, [Next]_vars, NEW k, Stuck(k)
  PROVE  Stuck(k)'
<1>1. PICK j \in Slot : /\ clients_array[j].key = k /\ clients_array[j].open
                        /\ clients_array[j].block = BlockRange - 1
                        /\ ~(mode = "closing" /\ j = index)
  BY DEF Stuck
<1>2. SUFFICES /\ clients_array'[j] = clients_array[j]
               /\ ~(mode' = "closing" /\ j = index')
  BY <1>1 DEF Stuck
<1>3. CASE Quiet
  BY <1>1, <1>3 DEF Quiet
<1>4. CASE BreakOff
  BY <1>4, BreakOffFacts
<1>5. ASSUME NEW a \in Addr, NEW b \in BOOLEAN, Registration(a, b)
      PROVE  clients_array'[j] = clients_array[j] /\ mode' # "closing"
  <2>1. clients_array[client_index] = EmptySlot
    BY <1>5, AddFacts DEF Registration, ArrayInv, Slot
  <2>2. j # client_index
    BY <1>1, <2>1 DEF EmptySlot
  <2> QED
    BY <1>5, <2>2, AddFacts DEF Registration, TypeOK
<1>6. ASSUME NEW a \in Addr, NEW n \in Blocks(a), NEW i \in Slot, Stored(a, n, i)
      PROVE  clients_array'[j] = clients_array[j] /\ j # index'
  <2>1. j # i
    BY <1>1, <1>6, TtftpsAssumption DEF Stored
  <2> QED
    BY <1>6, <2>1 DEF Stored, TypeOK
<1>7. CASE Closed
  BY <1>1, <1>7 DEF Closed, TypeOK
<1> QED
  BY <1>3, <1>4, <1>5, <1>6, <1>7, StepKinds

LEMMA AcksWrap ==
  ASSUME TypeOK, ArrayInv, OneSlotPerClient, SessionPeer, WrapInv, [Next]_vars,
         NEW a \in Addr, BlockRange - 1 \in acks'[a]
  PROVE  Stuck(Key[a])' \/ Upload[a].full + 1 <= BlockRange - 1
<1>1. BlockRange - 1 # 0
  BY TtftpsAssumption
<1>2. CASE BlockRange - 1 \in acks[a]
  BY <1>2, StuckStays DEF WrapInv
<1>3. ASSUME AckedNoMore
      PROVE  BlockRange - 1 \in acks[a]
  BY <1>1, <1>3 DEF AckedNoMore
<1>4. ASSUME NEW c \in Addr, NEW n \in Blocks(c), NEW i \in Slot, Stored(c, n, i),
             BlockRange - 1 \notin acks[a]
      PROVE  Stuck(Key[a])' \/ Upload[a].full + 1 <= BlockRange - 1
  <2>1. c = a /\ Wire(n) = BlockRange - 1 /\ Size(c, n) # "odd"
    BY <1>4 DEF Stored, TypeOK
  <2>2. n = BlockRange - 1 /\ clients_array[i].block + 1 = BlockRange - 1
    BY <1>4, <2>1, InOrderNumber
  <2>3. CASE Size(c, n) = "full"
    <3>1. clients_array'[i] = SlotAfter(c, n, i) /\ clients_array[i] \in Client
      BY <1>4 DEF Stored, TypeOK
    <3>2. /\ clients_array'[i].key = Key[a] /\ clients_array'[i].open
          /\ clients_array'[i].block = BlockRange - 1
      BY <1>4, <2>1, <2>2, <3>1, SlotAfterFacts DEF Stored
    <3>3. mode' # "closing"
      BY <1>4, <2>3 DEF Stored
    <3> QED
      BY <3>2, <3>3 DEF Stuck
  <2>4. CASE Size(c, n) # "full"
    BY <2>1, <2>2, <2>4, BlocksFacts, TtftpsAssumption
  <2> QED
    BY <2>3, <2>4
<1>5. CASE Closed
  BY <1>2, <1>5 DEF Closed
<1> QED
  BY <1>2, <1>3, <1>4, <1>5, StepKinds, BreakOffFacts DEF Quiet, Registration, AckedNoMore

LEMMA PacketsWrap ==
  ASSUME TypeOK, ArrayInv, SessionPeer, WrapInv, [Next]_vars,
         NEW p \in packets', p.type = "DATA", p.n >= BlockRange
  PROVE  Stuck(Key[p.from])'
<1>1. CASE p \in packets
  BY <1>1, StuckStays DEF WrapInv
<1>2. ASSUME NEW a \in Addr, ClientStep(a), p \notin packets
      PROVE  Stuck(Key[p.from])
  <2>1. PICK n \in Blocks(a) :
          /\ Wire(n - 1) \in acks[a]
          /\ n > 1 => [type |-> "DATA", from |-> a, n |-> n - 1] \in packets
          /\ p = [type |-> "DATA", from |-> a, n |-> n]
    BY <1>2 DEF ClientStep, SendWRQ, SendData, SendError, SendPacket
  <2>2. n \in Nat /\ n >= BlockRange /\ n > 1 /\ p.from = a /\ n <= Upload[a].full + 1
    BY <2>1, BlocksFacts, TtftpsAssumption
  <2>3. CASE n = BlockRange
    <3>1. n - 1 \in Nat /\ Wire(n - 1) = BlockRange - 1
      BY <2>2, <2>3, WireFacts, TtftpsAssumption
    <3>2. Upload[a].full \in Nat
      BY BlocksFacts, <2>1
    <3> QED
      BY <2>1, <2>2, <2>3, <3>1, <3>2 DEF WrapInv
  <2>4. CASE n > BlockRange
    <3> DEFINE q == [type |-> "DATA", from |-> a, n |-> n - 1]
    <3>1. q \in packets /\ q.n >= BlockRange /\ q.type = "DATA" /\ q.from = a
      BY <2>1, <2>2, <2>4, TtftpsAssumption
    <3> QED
      BY <2>2, <3>1 DEF WrapInv
  <2> QED
    BY <2>2, <2>3, <2>4, TtftpsAssumption
<1> QED
  BY <1>1, <1>2, StuckStays, StepKinds DEF Quiet, Registration, Stored, Closed

LEMMA WrapStep ==
  ASSUME TypeOK, ArrayInv, OneSlotPerClient, SessionPeer, WrapInv, [Next]_vars
  PROVE  WrapInv'
BY AcksWrap, PacketsWrap DEF WrapInv

-----------------------------------------------------------------------------
(* The files *)

(* A block more, of the number due                                         *)
LEMMA AppendFacts ==
  ASSUME NEW blocks \in Seq(Written), NEW b \in Written,
         b.n = Due(blocks), Sequenced(blocks)
  PROVE  LET more == Append(blocks, b) IN
         /\ more \in Seq(Written)
         /\ DOMAIN more = DOMAIN blocks \cup {Len(blocks) + 1}
         /\ more[Len(blocks) + 1] = b
         /\ \A k \in DOMAIN blocks : more[k] = blocks[k]
         /\ Sequenced(more)
         /\ Due(more) = IF Odd(b) THEN b.n ELSE b.n + 1
         /\ \A key : \A j : Kept(blocks, key, j) => Kept(more, key, j)
         /\ ~Odd(b) => Kept(more, Key[b.from], b.n)
<1> DEFINE more == Append(blocks, b)
           last == Len(blocks) + 1
<1>1. /\ more \in Seq(Written) /\ Len(more) = last /\ last \in Nat /\ more # <<>>
      /\ DOMAIN more = DOMAIN blocks \cup {last} /\ DOMAIN blocks = 1..Len(blocks)
      /\ more[last] = b
      /\ \A k \in DOMAIN blocks : more[k] = blocks[k]
  OBVIOUS
<1>2. Due(more) = IF Odd(b) THEN b.n ELSE b.n + 1
  BY <1>1 DEF Due
<1>3. ASSUME NEW key, NEW j, Kept(blocks, key, j)
      PROVE  Kept(more, key, j)
  <2> HIDE DEF more
  <2> QED
    BY <1>1, <1>3 DEF Kept
<1>4. ~Odd(b) => Kept(more, Key[b.from], b.n)
  <2> HIDE DEF more
  <2> QED
    BY <1>1 DEF Kept
<1>5. ASSUME NEW k \in DOMAIN more
      PROVE  more[k].n = IF k = 1 THEN 1
                         ELSE IF Odd(more[k - 1]) THEN more[k - 1].n ELSE more[k - 1].n + 1
  <2>1. CASE k \in DOMAIN blocks
    <3>1. k # 1 => k - 1 \in DOMAIN blocks
      BY <1>1, <2>1
    <3> HIDE DEF more
    <3> QED
      BY <1>1, <2>1, <3>1 DEF Sequenced
  <2>2. CASE k = last /\ blocks = <<>>
    BY <1>1, <2>2 DEF Due
  <2>3. CASE k = last /\ blocks # <<>>
    <3>1. k # 1 /\ k - 1 = Len(blocks) /\ Len(blocks) \in DOMAIN blocks
      BY <1>1, <2>3
    <3> HIDE DEF more
    <3> QED
      BY <1>1, <2>3, <3>1 DEF Due
  <2> QED
    BY <1>1, <1>5, <2>1, <2>2, <2>3
<1>6. Sequenced(more)
  BY <1>5 DEF Sequenced
<1> QED
  BY <1>1, <1>2, <1>3, <1>4, <1>6

(* What the step that takes a block does to the files                      *)
LEMMA StoredFile ==
  ASSUME TypeOK, ArrayInv, OneSlotPerClient, WrapInv, FileInOrder,
         NEW a \in Addr, NEW n \in Blocks(a), NEW i \in Slot, Stored(a, n, i)
  PROVE  LET f == clients_array[i].name
             blocks == files'[f]
             s == SlotAfter(a, n, i) IN
         /\ f \in Name /\ Taken(i)
         /\ Len(blocks) = Len(files[f]) + 1
         /\ \A k \in 1..Len(files[f]) : blocks[k] = files[f][k]
         /\ Sequenced(blocks) /\ Due(blocks) = s.block + 1
         /\ \A k \in DOMAIN blocks :
              /\ Key[blocks[k].from] = Key[a]
              /\ blocks[k].n <= IF Odd(blocks[k]) THEN s.block + 1 ELSE s.block
         /\ \A j \in 1..s.block : Kept(blocks, Key[a], j)
         /\ \A key : \A j : Kept(files[f], key, j) => Kept(blocks, key, j)
         /\ Size(a, n) # "odd" => Wire(n) = s.block
         /\ \A g \in Name \ {f} : files'[g] = files[g]
         /\ \A j \in Slot \ {i} : Taken(j) => clients_array[j].name # f
<1> DEFINE f == clients_array[i].name
           b == [from |-> a, n |-> n]
           s == SlotAfter(a, n, i)
<1>1. f \in Name /\ Taken(i)
  BY TtftpsAssumption DEF Stored, Taken
<1>2. n = clients_array[i].block + 1 /\ n = Wire(n) /\ n \in Nat /\ clients_array[i].block \in Nat
  BY InOrderNumber DEF Stored, Client
<1>3. b \in Written /\ files[f] \in Seq(Written) /\ b.n = n /\ b.from = a
  BY <1>1, <1>2 DEF Written, TypeOK
<1>4. files'[f] = Append(files[f], b)
  BY <1>1 DEF Stored, TypeOK
<1>5. /\ Sequenced(files[f]) /\ Due(files[f]) = n
      /\ \A k \in DOMAIN files[f] :
           /\ Key[files[f][k].from] = Key[a]
           /\ files[f][k].n <= IF Odd(files[f][k]) THEN n ELSE clients_array[i].block
      /\ \A j \in 1..clients_array[i].block : Kept(files[f], Key[a], j)
  <2>1. mode # "broken_off" /\ clients_array[i].open /\ clients_array[i].key = Key[a]
    BY DEF Stored
  <2> QED
    BY <1>2, <2>1 DEF FileInOrder, Ordered
<1>6. LET more == files'[f] IN
      /\ more \in Seq(Written)
      /\ DOMAIN more = DOMAIN files[f] \cup {Len(files[f]) + 1}
      /\ more[Len(files[f]) + 1] = b
      /\ \A k \in DOMAIN files[f] : more[k] = files[f][k]
      /\ Sequenced(more)
      /\ Due(more) = IF Odd(b) THEN n ELSE n + 1
      /\ \A key : \A j : Kept(files[f], key, j) => Kept(more, key, j)
      /\ ~Odd(b) => Kept(more, Key[a], n)
  BY <1>3, <1>4, <1>5, AppendFacts
<1>7. s.block = (IF Size(a, n) = "odd" THEN clients_array[i].block ELSE n) /\ (Odd(b) <=> Size(a, n) = "odd")
  BY <1>2, <1>3, SlotAfterFacts DEF Stored, Odd
<1>8. /\ Len(files'[f]) = Len(files[f]) + 1
      /\ \A k \in 1..Len(files[f]) : files'[f][k] = files[f][k]
  BY <1>3, <1>4
<1>9. ASSUME NEW k \in DOMAIN files'[f]
      PROVE  /\ Key[files'[f][k].from] = Key[a]
             /\ files'[f][k].n <= IF Odd(files'[f][k]) THEN s.block + 1 ELSE s.block
  <2>1. CASE k \in DOMAIN files[f]
    <3>0. files[f][k] \in Written
      BY <1>3, <2>1
    <3>1. files'[f][k] = files[f][k] /\ files[f][k].n \in Nat
      BY <1>6, <2>1, <3>0 DEF Written
    <3>2. files[f][k].n <= IF Odd(files[f][k]) THEN n ELSE clients_array[i].block
      BY <1>5, <2>1
    <3>3. Key[files'[f][k].from] = Key[a]
      BY <1>5, <2>1, <3>1
    <3>4. files'[f][k].n <= IF Odd(files'[f][k]) THEN s.block + 1 ELSE s.block
      BY <1>2, <1>7, <3>1, <3>2
    <3> QED
      BY <3>3, <3>4
  <2>2. CASE k = Len(files[f]) + 1
    <3>1. files'[f][k] = b
      BY <1>6, <2>2
    <3>2. n <= IF Odd(b) THEN s.block + 1 ELSE s.block
      BY <1>2, <1>7
    <3> QED
      BY <1>3, <3>1, <3>2
  <2> QED
    BY <1>6, <1>9, <2>1, <2>2
<1>10. ASSUME NEW j \in 1..s.block
       PROVE  Kept(files'[f], Key[a], j)
  <2>1. CASE j \in 1..clients_array[i].block
    BY <1>5, <1>6, <2>1
  <2>2. CASE j = n /\ ~Odd(b)
    BY <1>6, <2>2
  <2> QED
    BY <1>2, <1>7, <1>10, <2>1, <2>2
<1>11. Due(files'[f]) = s.block + 1 /\ (Size(a, n) # "odd" => Wire(n) = s.block)
  BY <1>2, <1>6, <1>7
<1>12. \A g \in Name \ {f} : files'[g] = files[g]
  BY DEF Stored, TypeOK
<1>13. \A j \in Slot \ {i} : Taken(j) => clients_array[j].name # f
  BY <1>1 DEF ArrayInv
<1> QED
  BY <1>1, <1>6, <1>8, <1>9, <1>10, <1>11, <1>12, <1>13

LEMMA FileStep ==
  ASSUME TypeOK, TypeOK', ArrayInv, OneSlotPerClient, SessionPeer, WrapInv, FileInOrder, [Next]_vars
  PROVE  FileInOrder'
<1>1. CASE Quiet
  BY <1>1 DEF Quiet, FileInOrder
<1>2. CASE BreakOff
  <2>1. SUFFICES ASSUME NEW i \in Slot
                 PROVE  Ordered(clients_array'[i], files'[clients_array'[i].name], mode' = "broken_off")
    BY DEF FileInOrder
  <2> DEFINE s == clients_array[i]
  <2>2. clients_array'[i] = s /\ mode' = "broken_off"
    BY <1>2, BreakOffFacts
  <2>3. s \in Client
    BY DEF TypeOK
  <2>4. CASE s.open \/ (s.key = NoKey /\ s.name # NoName)
    <3>1. s.name \in Name
      BY <2>3, <2>4 DEF Client, ArrayInv
    <3>2. files[s.name] \in Seq(Written) /\ files'[s.name] \in Seq(Written)
      BY <3>1 DEF TypeOK
    <3>3. /\ Len(files'[s.name]) <= Len(files[s.name])
          /\ \A j \in 1..Len(files'[s.name]) : files'[s.name][j] = files[s.name][j]
      BY <1>2, <3>1, BreakOffFacts
    <3>4. DOMAIN files'[s.name] \subseteq DOMAIN files[s.name]
          /\ \A k \in DOMAIN files'[s.name] : files'[s.name][k] = files[s.name][k]
      BY <3>2, <3>3
    <3>5. \A k \in DOMAIN files'[s.name] : k # 1 => k - 1 \in DOMAIN files'[s.name]
      BY <3>2
    <3>6. Ordered(s, files[s.name], mode = "broken_off")
      BY DEF FileInOrder
    <3>7. Sequenced(files'[s.name])
      BY <2>4, <3>4, <3>5, <3>6 DEF Ordered, Sequenced
    <3>8. Ordered(s, files'[s.name], TRUE)
      BY <3>4, <3>6, <3>7 DEF Ordered
    <3>9. mode' = "broken_off" <=> TRUE
      BY <2>2
    <3> QED
      BY <2>2, <3>8, <3>9
  <2> QED
    BY <2>2, <2>4 DEF Ordered, ArrayInv
<1>3. ASSUME NEW a \in Addr, NEW b \in BOOLEAN, Registration(a, b)
      PROVE  FileInOrder'
  <2> DEFINE new == [key |-> Key[a], name |-> Upload[a].name, block |-> 0, open |-> b]
  <2>1. /\ client_index \in Slot
        /\ clients_array' = [clients_array EXCEPT ![client_index] = new]
        /\ Upload[a].name \in Name
        /\ \A i \in Slot : clients_array[i].key # Key[a]
    BY <1>3, AddFacts DEF Registration
  <2>2. Key[a] # NoKey
    <3>1. clients_array[client_index] = EmptySlot
      BY <2>1 DEF ArrayInv, Slot
    <3> QED
      BY <2>1, <3>1 DEF EmptySlot
  <2>3. SUFFICES ASSUME NEW i \in Slot
                 PROVE  Ordered(clients_array'[i], files'[clients_array'[i].name], mode' = "broken_off")
    BY DEF FileInOrder
  <2>4. CASE i = client_index
    <3>1. clients_array'[i] = new
      BY <2>1, <2>4 DEF TypeOK
    <3>2. b => files'[Upload[a].name] = <<>>
      BY <1>3, <2>1 DEF Registration, TypeOK
    <3> QED
      BY <1>3, <2>2, <3>1, <3>2 DEF Ordered, Due, Sequenced
  <2>5. CASE i # client_index
    <3>1. clients_array'[i] = clients_array[i]
      BY <2>1, <2>5 DEF TypeOK
    <3>2. files'[clients_array[i].name] = files[clients_array[i].name]
      BY <1>3, <2>1 DEF Registration, is_filename_exist, TypeOK
    <3>3. mode # "broken_off" /\ mode' # "broken_off"
      BY <1>3 DEF Registration
    <3> QED
      BY <3>1, <3>2, <3>3 DEF FileInOrder
  <2> QED
    BY <2>4, <2>5
<1>4. ASSUME NEW a \in Addr, NEW n \in Blocks(a), NEW i \in Slot, Stored(a, n, i)
      PROVE  FileInOrder'
  <2> DEFINE f == clients_array[i].name
  <2>1. SUFFICES ASSUME NEW j \in Slot
                 PROVE  Ordered(clients_array'[j], files'[clients_array'[j].name], mode' = "broken_off")
    BY DEF FileInOrder
  <2>2. CASE j = i
    <3> DEFINE s == SlotAfter(a, n, i)
    <3>1. clients_array'[j] = s /\ mode' # "broken_off"
      BY <1>4, <2>2 DEF Stored, TypeOK
    <3>2. s.name = f /\ s.key = Key[a] /\ s.open
      BY <1>4, SlotAfterFacts DEF Stored
    <3>3. /\ Sequenced(files'[f]) /\ Due(files'[f]) = s.block + 1
          /\ \A k \in DOMAIN files'[f] :
               /\ Key[files'[f][k].from] = Key[a]
               /\ files'[f][k].n <= IF Odd(files'[f][k]) THEN s.block + 1 ELSE s.block
          /\ \A m \in 1..s.block : Kept(files'[f], Key[a], m)
      BY <1>4, StoredFile
    <3> HIDE DEF s, f
    <3> QED
      BY <3>1, <3>2, <3>3 DEF Ordered
  <2>3. CASE j # i
    <3>1. clients_array'[j] = clients_array[j]
      BY <1>4, <2>3 DEF Stored, TypeOK
    <3>2. CASE Taken(j)
      <4>1. clients_array[j].name \in Name \ {f}
        BY <1>4, <2>3, <3>2, StoredFile DEF Taken, TypeOK, Client
      <4>2. files'[clients_array[j].name] = files[clients_array[j].name]
        BY <1>4, <4>1, StoredFile
      <4>3. mode # "broken_off" /\ mode' # "broken_off"
        BY <1>4 DEF Stored
      <4> QED
        <5>1. Ordered(clients_array[j], files[clients_array[j].name], mode = "broken_off")
          BY DEF FileInOrder
        <5> QED
          BY <1>4, <3>1, <4>2, <4>3, <5>1 DEF Ordered
    <3>3. CASE ~Taken(j)
      BY <3>1, <3>3 DEF Taken, ArrayInv, Ordered
    <3> QED
      BY <3>2, <3>3
  <2> QED
    BY <2>2, <2>3
<1>5. CASE Closed
  <2>1. PICK i \in Slot : i = index
    BY <1>5 DEF Closed
  <2>2. /\ clients_array[i] \in Client /\ clients_array[i].open
        /\ clients_array' = [clients_array EXCEPT ![i] = Deleted(i)] /\ files' = files
        /\ mode # "broken_off" /\ mode' # "broken_off"
    BY <1>5, <2>1 DEF Closed
  <2>3. SUFFICES ASSUME NEW j \in Slot
                 PROVE  Ordered(clients_array'[j], files[clients_array'[j].name], FALSE)
    BY <2>2 DEF FileInOrder
  <2>4. Ordered(clients_array[j], files[clients_array[j].name], FALSE)
    BY <2>2 DEF FileInOrder
  <2>5. CASE j # i
    BY <2>2, <2>4, <2>5 DEF TypeOK
  <2>6. CASE j = i
    <3>1. clients_array'[j] = Deleted(j)
      BY <2>2, <2>6 DEF TypeOK
    <3>2. Sequenced(files[clients_array[j].name])
      BY <2>2, <2>4, <2>6 DEF Ordered
    <3> QED
      BY <3>1, <3>2, DeletedFacts DEF Ordered
  <2> QED
    BY <2>5, <2>6
<1> QED
  BY <1>1, <1>2, <1>3, <1>4, <1>5, StepKinds
-----------------------------------------------------------------------------
(* The acknowledgements *)

(* Slot i has the file of which client a was told that k blocks are in it. *)
Holds(i, a, k) ==
  Taken(i) /\ \A j \in 1..k : Kept(files[clients_array[i].name], Key[a], j)

LEMMA HoldsStays ==
  ASSUME TypeOK, TypeOK', ArrayInv, OneSlotPerClient, SessionPeer, WrapInv, FileInOrder,
         [Next]_vars, ~BreakOff,
         NEW i \in Slot, NEW a \in Addr, NEW k \in Nat, Holds(i, a, k)
  PROVE  Holds(i, a, k)'
<1> DEFINE f == clients_array[i].name
<1>1. f \in Name
  BY DEF Holds, Taken, TypeOK, Client
<1>2. ASSUME clients_array'[i].name = f, Taken(i)',
             \A key : \A j : Kept(files[f], key, j) => Kept(files'[f], key, j)
      PROVE  Holds(i, a, k)'
  <2>1. \A j \in 1..k : Kept(files'[f], Key[a], j)
    BY <1>2 DEF Holds
  <2> HIDE DEF f
  <2> QED
    BY <1>2, <2>1 DEF Holds
<1>3. ASSUME clients_array'[i] = clients_array[i], files'[f] = files[f]
      PROVE  Holds(i, a, k)'
  <2>1. clients_array'[i].name = f /\ Taken(i)'
    BY <1>3 DEF Holds, Taken
  <2> QED
    BY <1>2, <1>3, <2>1
<1>4. ASSUME NEW c \in Addr, NEW b \in BOOLEAN, Registration(c, b)
      PROVE  clients_array'[i] = clients_array[i] /\ files'[f] = files[f]
  <2>1. clients_array[client_index] = EmptySlot
    BY <1>4, AddFacts DEF Registration, ArrayInv, Slot
  <2>2. i # client_index
    BY <2>1 DEF EmptySlot, Holds, Taken
  <2>3. clients_array'[i] = clients_array[i]
    BY <1>4, <2>2, AddFacts DEF Registration, TypeOK
  <2>4. files'[f] = files[f]
    BY <1>1, <1>4, <2>2 DEF Registration, is_filename_exist, TypeOK
  <2> QED
    BY <2>3, <2>4
<1>5. ASSUME NEW c \in Addr, NEW n \in Blocks(c), NEW m \in Slot, Stored(c, n, m)
      PROVE  Holds(i, a, k)'
  <2>1. CASE i = m
    <3>1. clients_array'[i] = SlotAfter(c, n, i)
      BY <1>5, <2>1 DEF Stored, TypeOK
    <3>2. clients_array'[i].name = f /\ Taken(i)'
      BY <1>5, <2>1, <3>1, SlotAfterFacts DEF Stored, Taken, Holds
    <3>3. \A key : \A j : Kept(files[f], key, j) => Kept(files'[f], key, j)
      BY <1>5, <2>1, StoredFile
    <3> QED
      BY <1>2, <3>2, <3>3
  <2>2. CASE i # m
    <3>1. clients_array'[i] = clients_array[i]
      BY <1>5, <2>2 DEF Stored, TypeOK
    <3>2. files'[f] = files[f]
      BY <1>1, <1>5, <2>2, StoredFile DEF Holds
    <3> QED
      BY <1>3, <3>1, <3>2
  <2> QED
    BY <2>1, <2>2
<1>6. CASE Closed
  <2>1. files' = files
    BY <1>6 DEF Closed
  <2>2. CASE i # index
    BY <1>3, <1>6, <2>1, <2>2 DEF Closed, TypeOK
  <2>3. CASE i = index
    <3>1. clients_array'[i] = Deleted(i)
      BY <1>6, <2>3 DEF Closed, TypeOK
    <3>2. clients_array'[i].name = f /\ Taken(i)'
      BY <3>1, DeletedFacts DEF Taken, Holds
    <3> QED
      BY <1>2, <2>1, <3>2
  <2> QED
    BY <2>2, <2>3
<1>7. CASE Quiet
  BY <1>3, <1>7 DEF Quiet
<1> QED
  BY <1>3, <1>4, <1>5, <1>6, <1>7, StepKinds

LEMMA AckStep ==
  ASSUME TypeOK, TypeOK', ArrayInv, OneSlotPerClient, SessionPeer, WrapInv, FileInOrder, AckInv,
         [Next]_vars
  PROVE  AckInv'
<1>1. SUFFICES ASSUME mode' # "broken_off", NEW a \in Addr, NEW k \in acks'[a] \ {0}
               PROVE  \E i \in Slot : Holds(i, a, k)'
  BY DEF AckInv, Holds
<1>2. k \in Nat
  BY DEF TypeOK
<1>3. ~BreakOff
  BY <1>1 DEF BreakOff
<1>4. ASSUME mode # "broken_off", k \in acks[a]
      PROVE  \E i \in Slot : Holds(i, a, k)'
  <2>1. PICK i \in Slot : Holds(i, a, k)
    BY <1>4 DEF AckInv, Holds
  <2> QED
    BY <1>2, <1>3, <2>1, HoldsStays
<1>5. CASE Quiet
  BY <1>1, <1>4, <1>5 DEF Quiet, AckedNoMore
<1>6. ASSUME NEW c \in Addr, NEW b \in BOOLEAN, Registration(c, b)
      PROVE  \E i \in Slot : Holds(i, a, k)'
  BY <1>4, <1>6 DEF Registration, AckedNoMore
<1>7. ASSUME NEW c \in Addr, NEW n \in Blocks(c), NEW m \in Slot, Stored(c, n, m)
      PROVE  \E i \in Slot : Holds(i, a, k)'
  <2>1. CASE k \in acks[a]
    BY <1>4, <1>7, <2>1 DEF Stored
  <2>2. CASE k \notin acks[a]
    <3> DEFINE f == clients_array[m].name
    <3>1. c = a /\ k = Wire(n) /\ Size(c, n) # "odd"
      BY <1>1, <1>7, <2>2 DEF Stored, TypeOK
    <3>2. clients_array'[m] = SlotAfter(c, n, m)
      BY <1>7 DEF Stored, TypeOK
    <3>3. clients_array'[m].name = f /\ Taken(m)'
      BY <1>7, <3>2, SlotAfterFacts, TtftpsAssumption DEF Stored, Taken
    <3>4. Wire(n) = SlotAfter(c, n, m).block
      BY <1>7, <3>1, SlotAfterFacts DEF Stored
    <3>5. \A j \in 1..SlotAfter(c, n, m).block : Kept(files'[f], Key[c], j)
      BY <1>7, StoredFile
    <3> HIDE DEF f
    <3> QED
      BY <3>1, <3>3, <3>4, <3>5 DEF Holds
  <2> QED
    BY <2>1, <2>2
<1>8. CASE Closed
  BY <1>1, <1>4, <1>8 DEF Closed
<1> QED
  BY <1>3, <1>5, <1>6, <1>7, <1>8, StepKinds

-----------------------------------------------------------------------------
(* The session *)

LEMMA PeerStep ==
  ASSUME TypeOK, ArrayInv, SessionPeer, [Next]_vars
  PROVE  SessionPeer'
<1>1. SUFFICES ASSUME mode' \in {"session", "closing"}
               PROVE  /\ index' \in Slot
                      /\ clients_array'[index'].key = Key[echoClntAddr']
                      /\ clients_array'[index'].open
  BY DEF SessionPeer
<1>2. CASE mode \in {"session", "closing"} /\ UNCHANGED <<clients_array, index, echoClntAddr>>
  BY <1>2 DEF SessionPeer
<1>3. ASSUME NEW a \in Addr, ClientStep(a)
      PROVE  mode \in {"session", "closing"} /\ UNCHANGED <<clients_array, index, echoClntAddr>>
  BY <1>1, <1>3 DEF ClientStep, SendWRQ, SendData, SendError, SendPacket, server, array
<1>4. ASSUME NEW a \in Addr, OuterLoop(a)
      PROVE  AcceptFile(a)
  BY <1>1, <1>4 DEF OuterLoop, RefuseClient, OverrunArray, RefuseFile, OpenFails,
                    RefuseStranger, ReplyError, Send, WRQ
<1>5. ASSUME NEW a \in Addr, AcceptFile(a)
      PROVE  /\ index' \in Slot
             /\ clients_array'[index'].key = Key[echoClntAddr']
             /\ clients_array'[index'].open
  <2>1. index' = client_index /\ echoClntAddr' = a
    BY <1>5 DEF AcceptFile, WRQ, Receive
  <2>2. /\ client_index \in Slot
        /\ clients_array' = [clients_array EXCEPT
              ![client_index] = [key |-> Key[a], name |-> Upload[a].name, block |-> 0, open |-> TRUE]]
    BY <1>5, AddFacts DEF AcceptFile
  <2> QED
    BY <2>1, <2>2 DEF TypeOK
<1>6. ASSUME NEW a \in Addr, SessionLoop(a)
      PROVE  FullBlock(a) \/ LastBlock(a) \/ OddBlock(a)
  BY <1>1, <1>6 DEF SessionLoop, UnexpectedPacket, UnknownUser, BadBlockNumber, WriteFails,
                    BreakOff, EndSession, ReplyError, Send
<1>7. ASSUME NEW a \in Addr, FullBlock(a) \/ LastBlock(a) \/ OddBlock(a)
      PROVE  /\ index' \in Slot
             /\ clients_array'[index'].key = Key[echoClntAddr']
             /\ clients_array'[index'].open
  <2>1. PICK n \in Blocks(a), i \in Slot : Stored(a, n, i)
    BY <1>7, BlockFacts
  <2>2. clients_array'[i] = SlotAfter(a, n, i)
    BY <2>1 DEF Stored, TypeOK
  <2> QED
    BY <2>1, <2>2, SlotAfterFacts DEF Stored
<1>8. ~CloseFile
  BY <1>1 DEF CloseFile, Close
<1>9. CASE Timeout \/ ReceiveFails \/ Killed
  BY <1>1, <1>2, <1>9 DEF Timeout, Resend, ResendCounting, Abandon, ReceiveFails, Killed, BreakOff, EndSession,
                    ReplyError, Send, array
<1>10. CASE UNCHANGED vars
  BY <1>1, <1>2, <1>10 DEF vars, server, array
<1> QED
  BY <1>2, <1>3, <1>4, <1>5, <1>6, <1>7, <1>8, <1>9, <1>10 DEF Next, ServerStep

-----------------------------------------------------------------------------
(* The invariant *)

LEMMA InitInductive ==
  ASSUME Init
  PROVE  IInv
<1> USE DEF Init
<1>1. Slot \subseteq Nat /\ 0 \in 0..CLIENTS /\ 0 \in 0..Failures
  BY TtftpsAssumption DEF Slot
<1>2. TypeOK
  BY <1>1, TtftpsAssumption DEF TypeOK, Client, EmptySlot, Modes, Serving, Receiving
<1>3. \A i \in Slot : clients_array[i] = EmptySlot /\ ~Taken(i)
  BY DEF EmptySlot, Taken
<1>4. ArrayInv
  BY <1>3, TtftpsAssumption DEF ArrayInv, EmptySlot
<1>5. OneSlotPerClient /\ FileInOrder
  BY <1>3 DEF OneSlotPerClient, FileInOrder, Ordered, EmptySlot
<1>6. WrapInv /\ AckInv /\ SessionPeer
  BY DEF WrapInv, AckInv, SessionPeer
<1> QED
  BY <1>2, <1>4, <1>5, <1>6 DEF IInv

LEMMA StepInductive ==
  ASSUME IInv, [Next]_vars
  PROVE  IInv'
<1>1. TypeOK'
  BY TypeStep DEF IInv
<1>2. ArrayInv' /\ OneSlotPerClient'
  BY <1>1, ArrayStep DEF IInv
<1>3. WrapInv' /\ FileInOrder' /\ AckInv'
  BY <1>1, WrapStep, FileStep, AckStep DEF IInv
<1>4. SessionPeer'
  BY PeerStep DEF IInv
<1> QED
  BY <1>1, <1>2, <1>3, <1>4 DEF IInv

(* The inductive invariant of the upload server holds in every state, for  *)
(* any clients and packets, whatever the network does with them.           *)
THEOREM Inductive == Spec => []IInv
<1>1. Init => IInv
  BY InitInductive
<1>2. IInv /\ [Next]_vars => IInv'
  BY StepInductive
<1> QED
  BY <1>1, <1>2, PTL DEF Spec

(* No client is ever registered twice.                                     *)
THEOREM OneSlotPerClientHolds == Spec => []OneSlotPerClient
<1>1. IInv => OneSlotPerClient
  BY DEF IInv
<1> QED
  BY <1>1, Inductive, PTL

(* Files are in order, of one client, and no block is there twice but one  *)
(* of odd size, which no block of a higher number follows.                 *)
THEOREM FileInOrderHolds == Spec => []FileInOrder
<1>1. IInv => FileInOrder
  BY DEF IInv
<1> QED
  BY <1>1, Inductive, PTL

(* What is acknowledged is in a file as long as the server is not broken   *)
(* off.                                                                    *)
THEOREM AckedIsWrittenHolds == Spec => []AckedIsWritten
<1>1. IInv => AckedIsWritten
  <2>1. ASSUME IInv, NEW i \in Slot, Taken(i)
        PROVE  clients_array[i].name \in Name
    BY <2>1 DEF IInv, TypeOK, Client, Taken
  <2> QED
    BY <2>1 DEF AckedIsWritten, AckInv, IInv
<1> QED
  BY <1>1, Inductive, PTL

(* The timeout of a session, and the end of a file, find the open file of  *)
(* the client the last packet came from.                                   *)
THEOREM SessionPeerHolds == Spec => []SessionPeer
<1>1. IInv => SessionPeer
  BY DEF IInv
<1> QED
  BY <1>1, Inductive, PTL
-----------------------------------------------------------------------------
(* The refinement *)

LEMMA EndedStays ==
  ASSUME Next
  PROVE  mode \in Serving
<1>1. ASSUME NEW a \in Addr, ClientStep(a)
      PROVE  mode \in Serving
  BY <1>1 DEF ClientStep, SendWRQ, SendData, SendError, SendPacket
<1>2. ASSUME NEW a \in Addr, OuterLoop(a) \/ SessionLoop(a)
      PROVE  mode = "outer" \/ mode = "session"
  BY <1>2 DEF OuterLoop, RefuseClient, OverrunArray, RefuseFile, AcceptFile, OpenFails,
              RefuseStranger, WRQ, SessionLoop, UnexpectedPacket, UnknownUser, BadBlockNumber,
              WriteFails, FullBlock, LastBlock, OddBlock, Accept, Data
<1>3. CASE CloseFile \/ Timeout \/ ReceiveFails \/ Killed
  BY <1>3 DEF CloseFile, Close, Timeout, Resend, ResendCounting, Abandon, ReceiveFails, Killed,
              Serving, Receiving
<1> QED
  BY <1>1, <1>2, <1>3 DEF Next, ServerStep, Serving, Receiving

LEMMA StoreInit ==
  ASSUME Init
  PROVE  Store!Init
<1>1. files \in [Name -> Seq(Written)]
  BY TtftpsAssumption DEF Init
<1>2. ASSUME NEW f \in Name
      PROVE  FileState(f) = "none"
  BY TtftpsAssumption DEF Init, EmptySlot, FileState, Opened, Completed
<1>3. mode \in Serving
  BY DEF Init, Serving, Receiving
<1> QED
  BY <1>1, <1>2, <1>3 DEF Store!Init

LEMMA StoreStep ==
  ASSUME IInv, IInv', Next
  PROVE  Store!Next \/ UNCHANGED Store!vars
<1> DEFINE up == mode \in Serving
<1>1. up /\ up' \in BOOLEAN
  BY EndedStays
<1>2. TypeOK /\ TypeOK' /\ ArrayInv /\ OneSlotPerClient /\ SessionPeer /\ WrapInv /\ FileInOrder
  BY DEF IInv
<1>3. ASSUME files' = files, \A f \in Name : FileState(f)' = FileState(f)
      PROVE  Store!Next
  BY <1>1, <1>3 DEF Store!Next, Store!End, Store!Running
<1>4. CASE Quiet
  BY <1>3, <1>4 DEF Quiet, FileState, Opened, Completed
<1>5. CASE BreakOff
  <2>1. \A f \in Name : FileState(f)' = FileState(f)
    BY <1>2, <1>5, BreakOffFacts DEF FileState, Opened, Completed
  <2>2. files' \in [Name -> Seq(Written)] /\ ~up'
    BY <1>2, <1>5, BreakOffFacts DEF Serving, Receiving
  <2>3. ASSUME NEW f \in Name
        PROVE  /\ Store!Prefix(files'[f], files[f])
               /\ FileState(f) # "open" => files'[f] = files[f]
    BY <1>2, <1>5, BreakOffFacts DEF Store!Prefix, FileState
  <2> QED
    BY <1>1, <2>1, <2>2, <2>3 DEF Store!Next, Store!Crash
<1>6. ASSUME NEW a \in Addr, NEW b \in BOOLEAN, Registration(a, b)
      PROVE  Store!Next
  <2> DEFINE g == Upload[a].name
             new == [key |-> Key[a], name |-> g, block |-> 0, open |-> b]
  <2>1. PICK k \in Slot :
          /\ clients_array' = [clients_array EXCEPT ![k] = new]
          /\ clients_array[k] = EmptySlot /\ Key[a] # NoKey
    <3>1. /\ client_index \in Slot
          /\ clients_array' = [clients_array EXCEPT ![client_index] = new]
          /\ \A i \in Slot : clients_array[i].key # Key[a]
      BY <1>2, <1>6, AddFacts DEF Registration
    <3>2. clients_array[client_index] = EmptySlot
      BY <1>2, <3>1 DEF ArrayInv, Slot
    <3>3. Key[a] # NoKey
      BY <3>1, <3>2 DEF EmptySlot
    <3> QED
      BY <3>1, <3>2, <3>3
  <2>2. clients_array'[k] = new /\ \A i \in Slot \ {k} : clients_array'[i] = clients_array[i]
    BY <1>2, <2>1 DEF TypeOK
  <2>3. g \in Name
    BY <1>2, <1>6, AddFacts DEF Registration
  <2>4. ASSUME NEW f \in Name
        PROVE  /\ Opened(f)' <=> Opened(f) \/ (b /\ f = g)
               /\ Completed(f)' <=> Completed(f)
    <3>1. clients_array[k].name # f
      BY <2>1, TtftpsAssumption DEF EmptySlot
    <3>2. clients_array'[k].key # NoKey /\ clients_array'[k].name = g /\ clients_array'[k].open = b
      BY <2>1, <2>2
    <3> QED
      BY <2>2, <3>1, <3>2 DEF Opened, Completed
  <2>5. CASE ~b
    <3>1. \A f \in Name : FileState(f)' = FileState(f)
      BY <2>4, <2>5 DEF FileState
    <3> QED
      BY <1>3, <1>6, <2>5, <3>1 DEF Registration
  <2>6. CASE b
    <3>1. ~Opened(g) /\ ~Completed(g)
      BY <1>6, <2>6 DEF Registration, is_filename_exist, Opened, Completed
    <3>2. FileState(g) = "none" /\ FileState(g)' = "open"
      BY <2>3, <2>4, <2>6, <3>1 DEF FileState
    <3>3. \A f \in Name \ {g} : FileState(f)' = FileState(f)
      BY <2>4 DEF FileState
    <3>4. files' = [files EXCEPT ![g] = <<>>]
      BY <1>6, <2>6 DEF Registration
    <3>5. Store!Create(g)
      BY <1>1, <2>3, <3>2, <3>3, <3>4 DEF Store!Create, Store!Running
    <3> QED
      BY <2>3, <3>5 DEF Store!Next
  <2> QED
    BY <2>5, <2>6
<1>7. ASSUME NEW a \in Addr, NEW n \in Blocks(a), NEW i \in Slot, Stored(a, n, i)
      PROVE  Store!Next
  <2>0. PICK g \in Name : g = clients_array[i].name
    BY <1>7 DEF Stored
  <2>1. /\ Len(files'[g]) = Len(files[g]) + 1
        /\ \A k \in 1..Len(files[g]) : files'[g][k] = files[g][k]
        /\ \A f \in Name \ {g} : files'[f] = files[f]
    BY <1>2, <1>7, <2>0, StoredFile
  <2>2. /\ clients_array'[i] = SlotAfter(a, n, i)
        /\ \A j \in Slot \ {i} : clients_array'[j] = clients_array[j]
    BY <1>2, <1>7 DEF Stored, TypeOK
  <2>3. Len(files[g]) \in Nat
    BY <1>2, <2>1 DEF TypeOK
  <2>4. FileState(g) = "open"
    BY <1>7, <2>0 DEF Stored, FileState, Opened
  <2>5. \A j \in Slot : /\ clients_array'[j].name = clients_array[j].name
                        /\ clients_array'[j].key = clients_array[j].key
                        /\ clients_array'[j].open = clients_array[j].open
    BY <1>7, <2>2, SlotAfterFacts DEF Stored
  <2>6. \A f \in Name : FileState(f)' = FileState(f)
    BY <2>5 DEF FileState, Opened, Completed
  <2>7. files' \in [Name -> Seq(Written)]
    BY <1>7 DEF Stored
  <2>8. Store!Prefix(files[g], files'[g])
    BY <2>1, <2>3 DEF Store!Prefix
  <2>9. Store!Extend(g)
    BY <1>1, <2>1, <2>4, <2>6, <2>7, <2>8 DEF Store!Extend, Store!Running
  <2> QED
    BY <2>9 DEF Store!Next
<1>8. CASE Closed
  <2>1. PICK i \in Slot : i = index
    BY <1>8 DEF Closed
  <2>2. /\ clients_array[i] \in Client /\ clients_array[i].open /\ files' = files
        /\ clients_array'[i] = Deleted(i)
        /\ \A j \in Slot \ {i} : clients_array'[j] = clients_array[j]
    BY <1>2, <1>8, <2>1 DEF Closed, TypeOK
  <2>3. PICK g \in Name : g = clients_array[i].name
    BY <1>2, <2>2 DEF ArrayInv, Client
  <2>4. Taken(i) /\ clients_array[i].name # NoName
    BY <1>2, <2>2 DEF Taken, ArrayInv
  <2>5. \A j \in Slot \ {i} : clients_array[j].open => clients_array[j].name # g
    BY <1>2, <2>3, <2>4 DEF Taken, ArrayInv
  <2>6. FileState(g) = "open"
    BY <2>2, <2>3 DEF FileState, Opened
  <2>7. FileState(g)' = "complete"
    <3>1. ~Opened(g)'
      BY <2>2, <2>5, DeletedFacts DEF Opened
    <3>2. Completed(g)'
      BY <2>2, <2>3, DeletedFacts DEF Completed
    <3> QED
      BY <3>1, <3>2 DEF FileState
  <2>8. \A f \in Name \ {g} : FileState(f)' = FileState(f)
    <3>1. ASSUME NEW f \in Name \ {g}
          PROVE  (Opened(f)' <=> Opened(f)) /\ (Completed(f)' <=> Completed(f))
      BY <2>2, <2>3, DeletedFacts DEF Opened, Completed
    <3> QED
      BY <3>1 DEF FileState
  <2>9. Store!Complete(g)
    <3> DEFINE state == [f \in Name |-> FileState(f)]
    <3>1. state' = [state EXCEPT ![g] = "complete"] /\ state[g] = "open"
      BY <2>6, <2>7, <2>8
    <3> QED
      BY <1>1, <2>2, <3>1 DEF Store!Complete, Store!Running
  <2> QED
    BY <2>9 DEF Store!Next
<1> QED
  BY <1>2, <1>4, <1>5, <1>6, <1>7, <1>8, StepKinds

(* The upload server is a file store that loses nothing but the end of     *)
(* files that are open when it is broken off.                              *)
THEOREM Refinement == Spec => ImplementsFileStore
<1>1. Init => Store!Init
  BY StoreInit
<1>2. IInv /\ IInv' /\ [Next]_vars => [Store!Next]_(Store!vars)
  <2>1. CASE UNCHANGED vars
    BY <2>1 DEF vars, server, array, Store!vars, FileState, Opened, Completed
  <2> QED
    BY <2>1, StoreStep
<1> QED
  BY <1>1, <1>2, Inductive, PTL DEF Spec, ImplementsFileStore, Store!Spec

(* No complete upload is ever changed, neither by a request nor by the end *)
(* of the server.                                                          *)
THEOREM CompleteFilesKept == Spec => Store!CompleteKept
<1> DEFINE state == [g \in Name |-> FileState(g)]
<1>1. ASSUME IInv, Store!Next, NEW f \in Name
      PROVE  Store!Kept(f)
  <2>1. SUFFICES ASSUME state[f] = "complete"
                 PROVE  state'[f] = "complete" /\ files'[f] = files[f]
    BY DEF Store!Kept
  <2>2. ASSUME NEW g \in Name, Store!Create(g)
        PROVE  state'[f] = "complete" /\ files'[f] = files[f]
    <3>1. state[g] = "none" /\ state' = [state EXCEPT ![g] = "open"]
          /\ files' = [files EXCEPT ![g] = <<>>]
      BY <2>2 DEF Store!Create
    <3>2. f # g
      BY <2>1, <3>1
    <3> QED
      BY <1>1, <2>1, <3>1, <3>2 DEF IInv, TypeOK
  <2>3. ASSUME NEW g \in Name, Store!Extend(g) \/ Store!Complete(g)
        PROVE  state'[f] = "complete" /\ files'[f] = files[f]
    BY <2>1, <2>3 DEF Store!Extend, Store!Complete
  <2>4. CASE Store!End
    BY <2>1, <2>4 DEF Store!End
  <2>5. CASE Store!Crash
    BY <2>1, <2>5 DEF Store!Crash
  <2> QED
    BY <1>1, <2>2, <2>3, <2>4, <2>5 DEF Store!Next
<1>2. IInv /\ [Store!Next]_(Store!vars) => [\A f \in Name : Store!Kept(f)]_(Store!vars)
  BY <1>1
<1> QED
  BY <1>2, Inductive, Refinement, PTL DEF ImplementsFileStore, Store!Spec, Store!CompleteKept
-----------------------------------------------------------------------------
(* The length of a session *)

LEMMA NumbersFinite ==
  ASSUME TypeOK
  PROVE  /\ IsFiniteSet(NumbersLeft) /\ Cardinality(NumbersLeft) \in Nat
         /\ Cardinality(NumbersLeft) \in 0..(CLIENTS * (BlockRange - 1))
<1> DEFINE Number == 1..BlockRange - 1
<1>1. IsFiniteSet(Slot) /\ Cardinality(Slot) = CLIENTS
  BY FS_Interval, TtftpsAssumption DEF Slot
<1>2. IsFiniteSet(Number) /\ Cardinality(Number) = BlockRange - 1
  BY FS_Interval, TtftpsAssumption
<1>3. IsFiniteSet(Slot \X Number) /\ Cardinality(Slot \X Number) = CLIENTS * (BlockRange - 1)
  BY <1>1, <1>2, FS_Product
<1>4. NumbersLeft \in SUBSET (Slot \X Number)
  BY DEF NumbersLeft
<1>5. IsFiniteSet(NumbersLeft) /\ Cardinality(NumbersLeft) <= Cardinality(Slot \X Number)
  BY <1>3, <1>4, FS_Subset
<1>6. Cardinality(NumbersLeft) \in Nat
  BY <1>5, FS_CardinalityType
<1>7. CLIENTS * (BlockRange - 1) \in Nat
  BY TtftpsAssumption
<1> QED
  BY <1>3, <1>5, <1>6, <1>7

LEMMA BlockCounted ==
  ASSUME TypeOK, ArrayInv, NEW a \in Addr, FullBlock(a)
  PROVE  TurnsLeft' = TurnsLeft - 1
<1>1. PICK n \in Blocks(a), i \in Slot : Stored(a, n, i) /\ Size(a, n) = "full"
  BY FullBlockFacts
<1>2. PICK k \in 1..BlockRange - 1 : k = clients_array[i].block + 1
  BY <1>1, TtftpsAssumption DEF Stored, Client
<1>3. /\ clients_array'[i].block = k /\ \A j \in Slot \ {i} : clients_array'[j] = clients_array[j]
      /\ resendCounter' = resendCounter
  <2>1. clients_array'[i] = SlotAfter(a, n, i) /\ clients_array[i] \in Client
    BY <1>1 DEF Stored, TypeOK
  <2> QED
    BY <1>1, <1>2, <2>1, SlotAfterFacts DEF Stored, TypeOK
<1>4. \A j \in Slot : clients_array[j].block \in Nat
  BY DEF TypeOK, Client
<1>5. ASSUME NEW j \in Slot, NEW m \in 1..BlockRange - 1
      PROVE  m > clients_array'[j].block <=> m > clients_array[j].block /\ <<j, m>> # <<i, k>>
  <2>1. CASE j = i
    BY <1>2, <1>3, <1>4, <2>1
  <2>2. CASE j # i
    BY <1>3, <2>2
  <2> QED
    BY <2>1, <2>2
<1>6. NumbersLeft' = NumbersLeft \ {<<i, k>>}
  BY <1>5 DEF NumbersLeft
<1>7. <<i, k>> \in NumbersLeft
  BY <1>2, <1>4 DEF NumbersLeft
<1>8. Cardinality(NumbersLeft') = Cardinality(NumbersLeft) - 1
  BY <1>6, <1>7, NumbersFinite, FS_RemoveElement
<1>9. Cardinality(NumbersLeft) \in Nat /\ resendCounter \in Int /\ Failures \in Int
  BY NumbersFinite, TtftpsAssumption DEF TypeOK
<1> QED
  BY <1>3, <1>8, <1>9 DEF TurnsLeft

LEMMA Advance ==
  ASSUME TypeOK, ArrayInv, [Next]_vars, mode = "session", mode' = "session"
  PROVE  /\ TurnsLeft' <= TurnsLeft
         /\ TurnsLeft' = TurnsLeft => UNCHANGED server \/ \E a \in Addr : OddBlock(a)
<1>1. TurnsLeft \in Int
  BY NumbersFinite, TtftpsAssumption DEF TurnsLeft, TypeOK
<1>2. ASSUME UNCHANGED clients_array
      PROVE  NumbersLeft' = NumbersLeft
  BY <1>2 DEF NumbersLeft
<1>3. CASE UNCHANGED server
  BY <1>1, <1>2, <1>3 DEF server, array, TurnsLeft
<1>4. ASSUME NEW a \in Addr, ClientStep(a)
      PROVE  UNCHANGED server
  BY <1>4 DEF ClientStep, SendWRQ, SendData, SendError, SendPacket
<1>5. ASSUME NEW a \in Addr, SessionLoop(a)
      PROVE  FullBlock(a) \/ OddBlock(a)
  BY <1>5 DEF SessionLoop, UnexpectedPacket, UnknownUser, BadBlockNumber, WriteFails, LastBlock,
              BreakOff, EndSession, ReplyError, ReplyAck, Send
<1>6. ASSUME NEW a \in Addr, FullBlock(a)
      PROVE  TurnsLeft' = TurnsLeft - 1
  BY <1>6, BlockCounted
<1>7. ASSUME NEW a \in Addr, OddBlock(a)
      PROVE  TurnsLeft' = TurnsLeft
  BY <1>2, <1>7 DEF OddBlock, array, TurnsLeft
<1>8. CASE Resend
  <2>1. resendCounter' = resendCounter + 1 /\ NumbersLeft' = NumbersLeft
    BY <1>2, <1>8 DEF Resend, ResendCounting, array
  <2>2. TurnsLeft' = TurnsLeft - 1
    BY <2>1, NumbersFinite, TtftpsAssumption DEF TurnsLeft, TypeOK
  <2> QED
    BY <1>1, <2>2
<1>9. ~Abandon /\ ~ReceiveFails /\ ~Killed /\ ~CloseFile /\ \A a \in Addr : ~OuterLoop(a)
  BY DEF Abandon, ReceiveFails, Killed, CloseFile, Close, BreakOff, EndSession, ReplyError, Send,
         OuterLoop, RefuseClient, OverrunArray, RefuseFile, AcceptFile, OpenFails,
         RefuseStranger, WRQ
<1>10. UNCHANGED vars => UNCHANGED server
  BY DEF vars
<1> QED
  BY <1>1, <1>3, <1>4, <1>5, <1>6, <1>7, <1>8, <1>9, <1>10 DEF Next, ServerStep, Timeout

(* Whatever a session receives brings it nearer to its end, or is a block  *)
(* of odd size.                                                            *)
THEOREM SessionAdvancesHolds == Spec => SessionAdvances
<1>1. IInv /\ [Next]_vars =>
        [mode = "session" /\ mode' = "session" =>
           /\ TurnsLeft' <= TurnsLeft
           /\ TurnsLeft' = TurnsLeft => UNCHANGED server \/ \E a \in Addr : OddBlock(a)]_vars
  BY Advance DEF IInv
<1> QED
  BY <1>1, Inductive, PTL DEF Spec, SessionAdvances

(* And the end is never further away than the timeouts and the block       *)
(* numbers there are.                                                      *)
THEOREM SessionBounded ==
  Spec => [](TurnsLeft \in 0..(Failures + CLIENTS * (BlockRange - 1)))
<1>1. IInv => TurnsLeft \in 0..(Failures + CLIENTS * (BlockRange - 1))
  <2>1. SUFFICES ASSUME TypeOK
                 PROVE  TurnsLeft \in 0..(Failures + CLIENTS * (BlockRange - 1))
    BY DEF IInv
  <2> DEFINE most == CLIENTS * (BlockRange - 1)
             left == Cardinality(NumbersLeft)
  <2>2. resendCounter \in Int /\ 0 <= resendCounter /\ resendCounter <= Failures /\ Failures \in Nat
    BY <2>1, TtftpsAssumption DEF TypeOK
  <2>3. most \in Nat
    BY TtftpsAssumption
  <2>4. left \in 0..most
    BY <2>1, NumbersFinite
  <2>5. TurnsLeft = (Failures - resendCounter) + left
    BY DEF TurnsLeft
  <2> HIDE DEF most, left
  <2>6. TurnsLeft \in 0..(Failures + most)
    BY <2>2, <2>3, <2>4, <2>5
  <2> QED
    BY <2>6 DEF most
<1> QED
  BY <1>1, Inductive, PTL
=============================================================================
