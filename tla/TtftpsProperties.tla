-------------------------- MODULE TtftpsProperties --------------------------
(* What must hold of the TFTP upload server *)
EXTENDS Ttftps

(* No client is registered twice, so that the five calls of                *)
(* is_client_exist in one turn all mean the same slot, although slots are  *)
(* emptied, never reused, and filled before a request is checked.          *)
OneSlotPerClient ==
  \A i, j \in Slot :
    clients_array[i].key = clients_array[j].key /\ clients_array[i].key # NoKey => i = j

(* What the slots say of a file: an upload goes on, or is over.            *)
Opened(f) == \E i \in Slot : clients_array[i].open /\ clients_array[i].name = f
Completed(f) ==
  \E i \in Slot :
    clients_array[i].name = f /\ clients_array[i].key = NoKey /\ ~clients_array[i].open

(* A block whose packet is neither "last block" nor "not last block"       *)
Odd(b) == Size(b.from, b.n) = "odd"

(* The number the server expects after these blocks                        *)
Due(blocks) ==
  IF blocks = <<>> THEN 1
  ELSE LET b == blocks[Len(blocks)] IN IF Odd(b) THEN b.n ELSE b.n + 1

(* In order, from 1 on, and every number once, but for the odd blocks: the *)
(* block after one has its number again.                                   *)
Sequenced(blocks) ==
  \A k \in DOMAIN blocks :
    blocks[k].n = IF k = 1 THEN 1
                  ELSE IF Odd(blocks[k - 1]) THEN blocks[k - 1].n ELSE blocks[k - 1].n + 1

(* The block j of the clients of a key, counted and acknowledged           *)
Kept(blocks, key, j) ==
  \E m \in DOMAIN blocks :
    blocks[m].n = j /\ Key[blocks[m].from] = key /\ ~Odd(blocks[m])

(* The blocks of the file of a slot s: of its client, in sequence, as far  *)
(* as block_number counts, unless some were lost.                          *)
Ordered(s, blocks, lost) ==
  /\ s.open => \A k \in DOMAIN blocks :
       /\ Key[blocks[k].from] = s.key
       /\ blocks[k].n <= IF Odd(blocks[k]) THEN s.block + 1 ELSE s.block
  /\ s.open /\ ~lost =>
       Due(blocks) = s.block + 1 /\ \A j \in 1..s.block : Kept(blocks, s.key, j)
  /\ s.open \/ (s.key = NoKey /\ s.name # NoName) => Sequenced(blocks)

(* A file the server has taken holds the blocks of one client in order,    *)
(* whatever was lost, repeated or overtaken, through sessions that were    *)
(* broken off and taken up by another's, and when it is complete as well.  *)
(* No block is there twice but one of odd size (508 to 511 bytes of data): *)
(* ttftps.c:455 writes it every time it arrives, and no block of a higher  *)
(* number comes after it.                                                  *)
FileInOrder ==
  \A i \in Slot :
    LET s == clients_array[i] IN Ordered(s, files[s.name], mode = "broken_off")

(* What a client was told has arrived is in a file, from it, and so is all *)
(* that went before; an acknowledged block is never lost again by a later  *)
(* request.                                                                *)
AckedIsWritten ==
  mode # "broken_off" =>
    \A a \in Addr : \A k \in acks[a] \ {0} :
      \E f \in Name : \A j \in 1..k : Kept(files[f], Key[a], j)

(* While a session waits, and when its last block's file is to be closed,  *)
(* the slot main looked up last is still that of the client the last       *)
(* packet came from, and its file is open: what the timeout's ACK and the  *)
(* four calls of fclose are meant for.                                     *)
SessionPeer ==
  mode \in {"session", "closing"} =>
    /\ index \in Slot
    /\ clients_array[index].key = Key[echoClntAddr]
    /\ clients_array[index].open

FileState(f) ==
  IF Opened(f) THEN "open" ELSE IF Completed(f) THEN "complete" ELSE "none"

(* No request, from whomever, empties a file that the server has begun to  *)
(* write, and nothing ever changes one that is complete, not even the end  *)
(* of the server.                                                          *)
Store == INSTANCE FileStore WITH
  Block <- Written,
  content <- files,
  state <- [f \in Name |-> FileState(f)],
  up <- mode \in Serving

ImplementsFileStore == Store!Spec

(* The server does not stay with one client: a session comes to its end    *)
(* when packets stop coming, by number_of_failures timeouts at the latest. *)
(* Only a block of odd size, which may be repeated for ever, keeps it.     *)
SessionEnds == (mode = "session") ~> (mode \notin {"session", "closing"} \/ OddBlockAtHand)

(* The block numbers that the slots can still count                        *)
NumbersLeft == {p \in Slot \X (1..BlockRange - 1) : p[2] > clients_array[p[1]].block}

(* The turns that are left for a session: timeouts, and blocks             *)
TurnsLeft == (Failures - resendCounter) + Cardinality(NumbersLeft)

(* A session that goes on has come nearer to its end, whoever sent what:   *)
(* no packet, repeated ones included, gives it a turn for nothing but the  *)
(* blocks of odd size, and nothing gives turns back.                       *)
SessionAdvances ==
  [][mode = "session" /\ mode' = "session" =>
       /\ TurnsLeft' <= TurnsLeft
       /\ TurnsLeft' = TurnsLeft => UNCHANGED server \/ \E a \in Addr : OddBlock(a)]_vars

-----------------------------------------------------------------------------
(* The inductive invariant *)

(* A slot with a file of this server                                       *)
Taken(i) ==
  /\ clients_array[i].name # NoName
  /\ clients_array[i].open \/ clients_array[i].key = NoKey

(* Slots beyond client_index are empty, only a registered client has a     *)
(* file, the numbers of its blocks fit a packet, and no two slots have the *)
(* same file.                                                              *)
ArrayInv ==
  /\ \A i \in Slot :
       /\ i >= client_index => clients_array[i] = EmptySlot
       /\ clients_array[i].block < BlockRange
       /\ clients_array[i].open =>
            clients_array[i].key # NoKey /\ clients_array[i].name # NoName
  /\ \A i, j \in Slot :
       Taken(i) /\ Taken(j) /\ clients_array[i].name = clients_array[j].name => i = j

(* A client that is told of the last number that fits, and of no end of    *)
(* its file, waits for ever, the server for a number no packet can have.   *)
Stuck(k) ==
  \E i \in Slot : /\ clients_array[i].key = k /\ clients_array[i].open
                  /\ clients_array[i].block = BlockRange - 1
                  /\ ~(mode = "closing" /\ i = index)

(* So a block beyond that number is never taken for a block of low number. *)
WrapInv ==
  /\ \A a \in Addr : BlockRange - 1 \in acks[a] =>
       Stuck(Key[a]) \/ Upload[a].full + 1 <= BlockRange - 1
  /\ \A p \in packets : p.type = "DATA" /\ p.n >= BlockRange => Stuck(Key[p.from])

(* The file that AckedIsWritten speaks of is one that the server knows by  *)
(* its name.                                                               *)
AckInv ==
  mode # "broken_off" =>
    \A a \in Addr : \A k \in acks[a] \ {0} :
      \E i \in Slot :
        Taken(i) /\ \A j \in 1..k : Kept(files[clients_array[i].name], Key[a], j)

IInv ==
  /\ TypeOK /\ ArrayInv /\ OneSlotPerClient
  /\ FileInOrder /\ WrapInv /\ AckInv /\ SessionPeer

-----------------------------------------------------------------------------
(* What comments of the code say, and the code does not                    *)

(* "last block" (ttftps.c:467): with the last block of a file in, the      *)
(* server is done with it.                                                 *)
LastBlockEndsSession ==
  [][\A a \in Addr : \A n \in Blocks(a) :
       n \notin 1..Upload[a].full /\ files' # files /\ Data(a, n) => mode' # "session"]_vars

(* "timeout resending ACK" (ttftps.c:546): on a timeout the server repeats *)
(* the acknowledgement it sent last.                                       *)
ResendsLastAck == [][Resend /\ mode' = "session" => sent' = sent]_vars

(* "Check if filename exists on server side" (ttftps.c:128): a name that   *)
(* is taken there is refused, so that no upload changes the file.          *)
ExistingFileKept ==
  \A f \in Name : Directory[f] # <<>> => files[f] = Directory[f]
=============================================================================
