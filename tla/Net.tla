-------------------------------- MODULE Net --------------------------------
(***************************************************************************)
(* A UDP packet on its way out (net/udp.c, net/ip.c, net/arp.c,            *)
(* net/ethernet.c), the driver of the RTL8139 card (drivers/rtl8139.c) and *)
(* what comes in.  What a socket does with what it gets is in Waits.       *)
(*                                                                         *)
(* A task that sends is not preempted, but the card interrupts it.  The    *)
(* card, the wire and the hosts on it are external.  Frame contents are    *)
(* left out: a frame that goes out is a request for the gateway's address, *)
(* a reply to somebody's request, or data.                                 *)
(*                                                                         *)
(* Four things that the driver is not ready for happen only when the       *)
(* constant Races says so, so that one can see what each of them breaks.   *)
(***************************************************************************)
EXTENDS Naturals, Sequences, FiniteSets

CONSTANTS
  RxSize,    \* RX_BUF_SIZE, in bytes
  Lengths,   \* lengths of packets that come in
  MaxWrites, \* bound: calls of udp_write
  MaxAlien,  \* bound: packets from other hosts than the gateway
  Buffers,   \* where kmalloc may put a send buffer
  Races      \* "reply": an interrupt sends between the test of send_buffer and
             \* its assignment; "wrap": one sends while tx_cur is past the last
             \* descriptor; "exact": a packet that ends where the ring ends;
             \* "burst": a packet before the one before it is handled

NetAligned(n) == ((n + 3) \div 4) * 4

ASSUME NetAssumption ==
  /\ RxSize \in Nat \ {0} /\ RxSize % 4 = 0
  /\ Lengths \subseteq Nat \ {0} /\ \A n \in Lengths : NetAligned(n + 4) < RxSize
  /\ MaxWrites \in Nat /\ MaxAlien \in Nat
  /\ Races \subseteq {"reply", "wrap", "exact", "burst"}

NoBuffer == "null"
Kinds == {"answer", "asks_us", "asks_other", "udp"} \* of packets that come in

ASSUME NetBuffers == NoBuffer \notin Buffers /\ IsFiniteSet(Buffers) /\ Cardinality(Buffers) > 1

VARIABLES
  sender,  \* of the task in ip_send_packet: at, left (arp_sent), frame, and
           \* buf: what phys_addr points to in rtl8139_send_packet
  arp,     \* the ARP table: whose address each entry holds, and curr
           \* (its size is written and never read)
  dev,     \* struct rtl8139_dev: send_buffer, tx_cur, and current_packet_ptr;
           \* heap: the buffers that are allocated
  card,    \* tx: buffers it has to send, with their frames and descriptors; next:
           \* the descriptor it sends next; rx: packets in the ring; head: where
           \* the next goes; status: the interrupt status register
  wire,    \* answers that the gateway owes; alien: packets of others, so far
  writes   \* number of calls of udp_write

netvars == <<sender, arp, dev, card, wire, writes>>

NetTypeOK ==
  /\ sender \in [at : {"away", "resolving", "testing", "filling", "loading", "wrapping"},
                 left : 0 .. 3, frame : {"none", "request", "data"},
                 buf : Buffers \union {NoBuffer}]
  /\ arp.table \in [0 .. 1 -> {"broadcast", "gateway", "other", "none"}]
  /\ arp.curr = 0
  /\ dev.send_buffer \in Buffers \union {NoBuffer} /\ dev.heap \subseteq Buffers
  /\ dev.tx_cur \in 0 .. 4 /\ dev.ptr \in 0 .. RxSize
  /\ card.tx \in Seq([buf : Buffers, frame : {"request", "reply", "data"}, desc : 0 .. 3])
  /\ card.next \in 0 .. 3 /\ card.head \in 0 .. RxSize - 1
  /\ card.rx \in Seq([at : 0 .. RxSize - 1, length : Lengths, kind : Kinds])
  /\ card.status \subseteq {"TOK", "ROK"}
  /\ wire \in [answers : Nat, alien : 0 .. MaxAlien] /\ writes \in 0 .. MaxWrites

\* arp_init and rtl8139_init.  Entry 1 stands for all the entries after entry 0.
NetInit ==
  /\ sender = [at |-> "away", left |-> 0, frame |-> "none", buf |-> NoBuffer]
  /\ arp = [table |-> [i \in 0 .. 1 |-> IF i = 0 THEN "broadcast" ELSE "none"], curr |-> 0]
  /\ dev = [send_buffer |-> NoBuffer, tx_cur |-> 0, ptr |-> 0, heap |-> {}]
  /\ card = [tx |-> <<>>, next |-> 0, rx |-> <<>>, head |-> 0, status |-> {}]
  /\ wire = [answers |-> 0, alien |-> 0]
  /\ writes = 0

(***************************************************************************)
(* Sending                                                                 *)
(***************************************************************************)
\* arp_lookup
Knows(host) == \E i \in DOMAIN arp.table : arp.table[i] = host

\* udp_write and udp_send_packet: ip_send_packet begins.
Write ==
  /\ sender.at = "away" /\ writes < MaxWrites
  /\ sender' = [sender EXCEPT !.at = "resolving", !.left = 3, !.frame = "none"]
  /\ writes' = writes + 1
  /\ UNCHANGED <<arp, dev, card, wire>>

\* The loop of ip_send_packet: the address is known, or a request is made while
\* any is left; then it only spins.
Resolve ==
  /\ sender.at = "resolving"
  /\ \/ /\ Knows("gateway")
        /\ sender' = [sender EXCEPT !.at = "testing", !.frame = "data"]
     \/ /\ ~Knows("gateway") /\ sender.left > 0
        /\ sender' = [sender EXCEPT !.at = "testing", !.left = @ - 1, !.frame = "request"]
  /\ UNCHANGED <<arp, dev, card, wire, writes>>

Returned == [sender EXCEPT !.at = IF sender.frame = "data" THEN "away" ELSE "resolving"]

\* ethernet_send_packet and the test in rtl8139_send_packet: nothing is sent, and
\* nobody is told, while the card has a packet to send.
Test ==
  /\ sender.at = "testing"
  /\ sender' = IF dev.send_buffer # NoBuffer THEN Returned ELSE [sender EXCEPT !.at = "filling"]
  /\ UNCHANGED <<arp, dev, card, wire, writes>>

\* send_buffer is allocated; its physical address is taken, and the data copied.
Allocated(d) == CHOOSE b \in Buffers : b \notin d.heap
Buffered(d) == [d EXCEPT !.send_buffer = Allocated(d), !.heap = @ \union {Allocated(d)}]

Fill ==
  /\ sender.at = "filling" /\ dev.heap # Buffers
  /\ dev' = Buffered(dev)
  /\ sender' = [sender EXCEPT !.at = "loading", !.buf = Allocated(dev)]
  /\ UNCHANGED <<arp, card, wire, writes>>

\* The two outl: the card is told where the frame is, in a descriptor's registers.
\* Past the last descriptor, TSAD_array and TSD_array name none of them.
Loaded(c, b, frame, desc) ==
  IF desc > 3 THEN c
  ELSE [c EXCEPT !.tx = Append(@, [buf |-> b, frame |-> frame, desc |-> desc])]

\* tx_cur++ comes with the second outl.
Load ==
  /\ sender.at = "loading"
  /\ card' = Loaded(card, sender.buf, sender.frame, dev.tx_cur)
  /\ dev' = [dev EXCEPT !.tx_cur = @ + 1]
  /\ sender' = [sender EXCEPT !.at = "wrapping", !.buf = NoBuffer]
  /\ UNCHANGED <<arp, wire, writes>>

\* if (tx_cur > 3) tx_cur = 0: after the card was told, which may have sent by now.
Wrapped(n) == IF n > 3 THEN 0 ELSE n

Wrap ==
  /\ sender.at = "wrapping"
  /\ dev' = [dev EXCEPT !.tx_cur = Wrapped(@)]
  /\ sender' = Returned
  /\ UNCHANGED <<arp, card, wire, writes>>

\* The same in an interrupt, which nothing interrupts.
Filled(d, c, frame) ==
  [dev  |-> [Buffered(d) EXCEPT !.tx_cur = Wrapped(@ + 1)],
   card |-> Loaded(c, Allocated(d), frame, d.tx_cur)]

(***************************************************************************)
(* The interrupt                                                           *)
(***************************************************************************)
\* With a bug: the end of the ring is not seen.
NextPacketOn(ptr, length) == NetAligned(ptr + length + 4)

\* The end of receive_packet.
NextPacket(ptr, length) ==
  LET p == NetAligned(ptr + length + 4) IN IF p > RxSize THEN p - RxSize ELSE p

\* With a bug: only a request teaches.
LearntAsked(kind) ==
  IF kind \in {"udp", "answer"} THEN arp
  ELSE [arp EXCEPT !.table[arp.curr] = "other"]

\* arp_handle_packet: whoever sent it, its address goes to entry arp_table_curr,
\* which stays 0.
Learnt(kind) ==
  IF kind = "udp" THEN arp
  ELSE [arp EXCEPT !.table[arp.curr] = IF kind = "answer" THEN "gateway" ELSE "other",
                   !.curr = IF @ >= 512 THEN 0 ELSE @]

\* ... and a request that is not for our address is replied to, if nothing else
\* is being sent.
Sends(d, kind) == kind = "asks_other" /\ d.send_buffer = NoBuffer

Replied(r, kind) == IF Sends(r.dev, kind) THEN Filled(r.dev, r.card, "reply") ELSE r

\* What sending finds unready: send_buffer, which a task has found free and is
\* going to assign, or tx_cur, which a task is going to wrap.
Unready == {x \in {"reply"} : sender.at = "filling"} \union {x \in {"wrap"} : dev.tx_cur > 3}

\* With a bug: what was sent is freed and not forgotten.
FreedKept(d) == [d EXCEPT !.heap = @ \ {d.send_buffer}]

Freed(d) == [d EXCEPT !.heap = @ \ {d.send_buffer}, !.send_buffer = NoBuffer]

\* rtl8139_handler and receive_packet.  One packet is taken from the ring, and
\* both bits are cleared, however many packets wait.  (A bit that the card sets
\* while the handler runs is cleared too: that it does so is left out.)  A packet
\* that is not where the driver looks for it is taken for one of any kind and length.
Interrupt ==
  /\ card.status # {}
  /\ dev.heap # Buffers
  /\ LET d == IF "TOK" \in card.status THEN Freed(dev) ELSE dev
         c == [card EXCEPT !.status = {}]
         there == card.rx # <<>> /\ Head(card.rx).at = dev.ptr
     IN  IF "ROK" \notin card.status
         THEN dev' = d /\ card' = c /\ UNCHANGED arp
         ELSE \E n \in Lengths, k \in Kinds :
                /\ there => n = Head(card.rx).length /\ k = Head(card.rx).kind
                /\ Sends(d, k) => Unready \subseteq Races
                /\ LET r == Replied([dev |-> d, card |-> c], k) IN
                   /\ dev' = [r.dev EXCEPT !.ptr = NextPacket(@, n)]
                   /\ card' = [r.card EXCEPT !.rx = IF @ = <<>> THEN @ ELSE Tail(@)]
                /\ arp' = Learnt(k)
  /\ UNCHANGED <<sender, wire, writes>>

(***************************************************************************)
(* The card and the wire                                                   *)
(***************************************************************************)
\* The card sends what its next descriptor holds.
Transmit ==
  /\ card.tx # <<>>
  /\ card' = [card EXCEPT !.tx = Tail(@), !.next = (@ + 1) % 4, !.status = @ \union {"TOK"}]
  /\ wire' = [wire EXCEPT !.answers = IF Head(card.tx).frame = "request" THEN @ + 1 ELSE @]
  /\ UNCHANGED <<sender, arp, dev, writes>>

\* A packet comes, and the card puts it into the ring.
Put(kind) ==
  \E n \in Lengths :
    LET end == NetAligned(card.head + n + 4) IN
    /\ Len(card.rx) < IF "burst" \in Races THEN 2 ELSE 1
    /\ end # RxSize \/ "exact" \in Races
    /\ card' = [card EXCEPT !.rx = Append(@, [at |-> card.head, length |-> n, kind |-> kind]),
                            !.head = end % RxSize, !.status = @ \union {"ROK"}]

Answer ==
  /\ wire.answers > 0
  /\ Put("answer")
  /\ wire' = [wire EXCEPT !.answers = @ - 1]
  /\ UNCHANGED <<sender, arp, dev, writes>>

Arrive(kind) ==
  /\ wire.alien < MaxAlien
  /\ Put(kind)
  /\ wire' = [wire EXCEPT !.alien = @ + 1]
  /\ UNCHANGED <<sender, arp, dev, writes>>

NetNext ==
  \/ Write \/ Resolve \/ Test \/ Fill \/ Load \/ Wrap
  \/ Interrupt \/ Transmit \/ Answer
  \/ \E kind \in Kinds \ {"answer"} : Arrive(kind)

\* The task runs on, interrupts are delivered, the card sends, the gateway answers.
NetFairness ==
  /\ WF_netvars(Resolve) /\ WF_netvars(Test)
  /\ WF_netvars(Fill) /\ WF_netvars(Load) /\ WF_netvars(Wrap)
  /\ WF_netvars(Interrupt) /\ WF_netvars(Transmit) /\ WF_netvars(Answer)

NetSpec == NetInit /\ [][NetNext]_netvars /\ NetFairness

(***************************************************************************)
(* Properties                                                              *)
(***************************************************************************)
\* Driver and card agree between any two steps of a task that sends and whatever
\* interrupts come between them, as long as none sends where the constant Races
\* names a window.  What the card is to send lies in the one buffer that the driver
\* holds, which is allocated, and in the descriptor that the card sends next; the
\* buffer is held for no longer than until the card has sent, and no other is
\* forgotten; tx_cur is the descriptor after those that wait, and only the task that
\* is about to wrap it leaves it past the last; and the driver looks for a packet
\* where the card put it, or will put it.
CardInStep ==
  /\ dev.heap = {dev.send_buffer} \ {NoBuffer}
  /\ Len(card.tx) <= 1
  /\ card.tx # <<>> => /\ Head(card.tx).buf = dev.send_buffer
                       /\ Head(card.tx).desc = card.next
  /\ dev.send_buffer # NoBuffer =>
       sender.at = "loading" \/ card.tx # <<>> \/ "TOK" \in card.status
  /\ dev.tx_cur % 4 = (card.next + Len(card.tx)) % 4
  /\ dev.tx_cur > 3 => sender.at = "wrapping"
  /\ dev.ptr = IF card.rx = <<>> THEN card.head ELSE Head(card.rx).at

\* The gateway's address was overwritten by another host's, and nobody asks for
\* it again.
Forsaken ==
  /\ sender.left = 0 /\ ~Knows("gateway") /\ Knows("other")
  /\ wire.answers = 0
  /\ \A i \in DOMAIN card.tx : card.tx[i].frame # "request"
  /\ \A i \in DOMAIN card.rx : card.rx[i].kind # "answer"

\* A write ends when the card sends and the gateway answers, though requests are
\* dropped while the card is busy; only when another host's address takes the
\* gateway's place, which every ARP packet does, it may spin for ever.
WriteReturns == sender.at # "away" ~> sender.at = "away" \/ Forsaken
=============================================================================
