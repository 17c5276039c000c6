------------------------------ MODULE NullProxy ------------------------------
(***************************************************************************)
(* org.little.proxy.Null: the NULL proxy relays the bytes of an accepted   *)
(* channel (the front) to a channel it opens to a fixed host (the back)    *)
(* and those of the back to the front.  Both channels of a connection live *)
(* on one Netty event loop, so the handlers of a connection run one at a   *)
(* time; connections share the list of statistics, commonProxy's           *)
(* listChannel, whose methods are synchronized.                            *)
(*                                                                         *)
(* AUTO_READ is off: a channel is read once for each call of read(), and   *)
(* only a channel with a read() outstanding notices that its peer closed   *)
(* or reset it.  A chunk of data is its number in the stream of its peer.  *)
(***************************************************************************)
EXTENDS Integers, Sequences

CONSTANTS Conns,     \* connections that may be accepted
          limit,     \* bound: limit[c] chunks are sent by each peer of c
          Null

ASSUME LimitAssumption == limit \in [Conns -> Nat]

ASSUME NullAssumption == Null \notin Nat

Sides == {"front", "back"}
Opp(s) == IF s = "front" THEN "back" ELSE "front"

VARIABLES
    ch,      \* ch[c][s]: state of the channel (see TypeOK)
    rd,      \* rd[c][s]: a read() is outstanding
    wr,      \* wr[c][s]: the chunk being written to the channel, 0 if none
    closing, \* closing[c][s]: closeOnFlush waits for wr[c][s]
    sent,    \* sent[c][s]: chunks the peer of the channel has sent
    got,     \* got[c][s]: chunks read from the channel
    dlv,     \* dlv[c][s]: chunks read from the channel and written to the other
    peer,    \* peer[c][s]: "up", "fin" once it closed, "rst" once it reset
    stat,    \* stat[c][s]: stat_channel of the handler, an index of heap
    heap,    \* every statChannel object ever created
    list     \* the slots of listChannel, indices of heap

chVars   == <<ch, rd, wr, closing>>
dataVars == <<got, dlv>>
peerVars == <<sent, peer>>
statVars == <<stat, heap, list>>
vars     == <<chVars, dataVars, peerVars, statVars>>

-----------------------------------------------------------------------------
(***************************************************************************)
(* listChannel and statChannel.  The id of a channel is the pair <<c, s>>. *)
(* ls is a record of the heap, the slots and the handlers' references, so  *)
(* that the calls a handler makes can be composed.                         *)
(***************************************************************************)
newStat == [id |-> Null, empty |-> TRUE, front |-> TRUE, in |-> 0, out |-> 0, nb |-> Null]

Here == [stat |-> stat, heap |-> heap, list |-> list]

FirstOf(S) == CHOOSE i \in S : \A j \in S : i <= j

(* create: the first empty slot, or a new one at the end. *)
create(ls, c, s) ==
    LET free == {i \in DOMAIN ls.list : ls.heap[ls.list[i]].empty}
        o    == IF free = {} THEN Len(ls.heap) + 1 ELSE ls.list[FirstOf(free)]
        h    == IF free = {} THEN Append(ls.heap, newStat) ELSE ls.heap
        l    == IF free = {} THEN Append(ls.list, o) ELSE ls.list
    IN  [stat |-> [ls.stat EXCEPT ![c][s] = o],
         heap |-> [h EXCEPT ![o] = [h[o] EXCEPT !.id = <<c, s>>, !.empty = FALSE]],
         list |-> l]

(* The neighbours of a connection and their roles; the front is set again. *)
neighbours(ls, c) ==
    LET f == ls.stat[c]["front"]
        b == ls.stat[c]["back"]
        x == [ls.heap[b] EXCEPT !.nb = f, !.front = FALSE]
        y == [ls.heap[f] EXCEPT !.id = <<c, "front">>, !.empty = FALSE, !.nb = b, !.front = TRUE]
    IN  [ls EXCEPT !.heap = [ls.heap EXCEPT ![b] = x, ![f] = y]]

(* Mutants: the cleared object stays in its slot; the slot is set to null. *)
clearSlot_keep(ls, i) == [ls EXCEPT !.heap[ls.list[i]] = newStat]
clearSlot_null(ls, i) == [ls EXCEPT !.heap[ls.list[i]] = newStat, !.list[i] = Null]

(* The slot at i gets a new statChannel, the old one is cleared. *)
clearSlot(ls, i) ==
    [ls EXCEPT !.heap = Append([ls.heap EXCEPT ![ls.list[i]] = newStat], newStat),
               !.list[i] = Len(ls.heap) + 1]

(* Mutant: the loop over the slots ends one short. *)
removeFirst_short(ls, slots) ==
    IF slots \ {Len(ls.list)} = {} THEN ls ELSE clearSlot(ls, FirstOf(slots))

removeFirst(ls, slots) ==
    IF slots = {} THEN ls ELSE clearSlot(ls, FirstOf(slots))

removeId(ls, id) ==
    removeFirst(ls, {i \in DOMAIN ls.list : /\ ls.heap[ls.list[i]].id = id
                                            /\ ~ls.heap[ls.list[i]].empty})

(* remove(stat_channel); stat_channel=null *)
removeStat(ls, c, s) ==
    LET o == ls.stat[c][s]
    IN  [removeFirst(ls, {i \in DOMAIN ls.list : ls.list[i] = o /\ ~ls.heap[o].empty})
            EXCEPT !.stat[c][s] = Null]

(* addIn, which counts for the neighbour as well. *)
addIn(ls, o) ==
    LET nb == ls.heap[o].nb
        h  == [ls.heap EXCEPT ![o].in = ls.heap[o].in + 1]
    IN  [ls EXCEPT !.heap = IF nb = Null THEN h ELSE [h EXCEPT ![nb].out = h[nb].out + 1]]

Become(ls) == stat' = ls.stat /\ heap' = ls.heap /\ list' = ls.list

-----------------------------------------------------------------------------
Both(v) == [s \in Sides |-> v]

Init ==
    /\ ch = [c \in Conns |-> Both("none")]
    /\ rd = [c \in Conns |-> Both(FALSE)]
    /\ wr = [c \in Conns |-> Both(0)]
    /\ closing = [c \in Conns |-> Both(FALSE)]
    /\ sent = [c \in Conns |-> Both(0)]
    /\ got = [c \in Conns |-> Both(0)]
    /\ dlv = [c \in Conns |-> Both(<< >>)]
    /\ peer = [c \in Conns |-> Both("up")]
    /\ stat = [c \in Conns |-> Both(Null)]
    /\ heap = << >>
    /\ list = << >>

(***************************************************************************)
(* Netty closes a channel: a write in progress fails, so its listener runs *)
(* in the handler of the other side, which drops its statistics.  The call *)
(* of channelInactive follows as an event of its own.                      *)
(***************************************************************************)
CloseChannel(ls, c, s) ==
    /\ ch' = [ch EXCEPT ![c][s] = "closed"]
    /\ rd' = [rd EXCEPT ![c][s] = FALSE]
    /\ wr' = [wr EXCEPT ![c][s] = 0]
    /\ closing' = [closing EXCEPT ![c][s] = FALSE]
    /\ Become(IF wr[c][s] # 0 THEN removeStat(ls, c, Opp(s)) ELSE ls)

(* Mutant: a channel with a pending write is left alone. *)
closeOnFlush_idle(ls, c, s) ==
    /\ ch' = [ch EXCEPT ![c][Opp(s)] = "gone",
                        ![c][s] = IF @ = "open" /\ wr[c][s] = 0 THEN "closed" ELSE @]
    /\ rd' = [rd EXCEPT ![c][s] = @ /\ ch[c][s] = "open" /\ wr[c][s] # 0]
    /\ UNCHANGED <<wr, closing>>
    /\ Become(removeStat(removeId(ls, <<c, s>>), c, Opp(s)))

(***************************************************************************)
(* closeOnFlush(ch), called by channelInactive of the other side, which is *)
(* then done with: an active channel is closed behind its pending write    *)
(* and its statistics are removed by id.                                   *)
(***************************************************************************)
closeOnFlush(ls, c, s) ==
    /\ ch' = [ch EXCEPT ![c][Opp(s)] = "gone",
                        ![c][s] = IF @ = "open" /\ wr[c][s] = 0 THEN "closed" ELSE @]
    /\ closing' = [closing EXCEPT ![c][s] = ch[c][s] = "open" /\ wr[c][s] # 0]
    /\ rd' = [rd EXCEPT ![c][s] = @ /\ ch[c][s] = "open" /\ wr[c][s] # 0]
    /\ UNCHANGED wr
    /\ Become(removeStat(removeId(ls, <<c, s>>), c, Opp(s)))

-----------------------------------------------------------------------------
(***************************************************************************)
(* The handlers.                                                           *)
(***************************************************************************)

(* Mutant: the front is read before the back is connected. *)
accept_reads(c) ==
    /\ ch[c]["front"] = "none"
    /\ ch' = [ch EXCEPT ![c] = [front |-> "open", back |-> "connecting"]]
    /\ Become(create(Here, c, "front"))
    /\ rd' = [rd EXCEPT ![c]["front"] = TRUE]
    /\ UNCHANGED <<wr, closing, dataVars, peerVars>>

(* NullProxyFrontendHandler.channelActive: register and start to connect. *)
accept(c) ==
    /\ ch[c]["front"] = "none"
    /\ ch' = [ch EXCEPT ![c] = [front |-> "open", back |-> "connecting"]]
    /\ Become(create(Here, c, "front"))
    /\ UNCHANGED <<rd, wr, closing, dataVars, peerVars>>

(***************************************************************************)
(* The connection is complete: the listener reads the front, then          *)
(* NullProxyBackendHandler.channelActive registers the back, makes the two *)
(* statistics neighbours and reads the back.                               *)
(***************************************************************************)
connected(c) ==
    /\ ch[c]["back"] = "connecting"
    /\ ch' = [ch EXCEPT ![c]["back"] = "open"]
    /\ rd' = [rd EXCEPT ![c] = Both(TRUE)]
    /\ Become(neighbours(create(Here, c, "back"), c))
    /\ UNCHANGED <<wr, closing, dataVars, peerVars>>

(* There is no peer or the attempt timed out: the listener closes the front. *)
connect_failed(c) ==
    /\ ch[c]["back"] = "connecting"
    /\ ch' = [ch EXCEPT ![c] = [front |-> "closed", back |-> "gone"]]
    /\ peer' = [peer EXCEPT ![c]["back"] = "rst"]
    /\ Become(removeStat(Here, c, "front"))
    /\ UNCHANGED <<rd, wr, closing, dataVars, sent>>

(* Mutant: AUTO_READ is on. *)
channelRead_auto(c, s) ==
    LET l1 == addIn(Here, stat[c][s])
    IN  /\ ch[c][s] = "open" /\ rd[c][s]
        /\ got[c][s] < sent[c][s]
        /\ got' = [got EXCEPT ![c][s] = @ + 1]
        /\ \/ /\ ch[c][Opp(s)] = "open"
              /\ wr' = [wr EXCEPT ![c][Opp(s)] = got'[c][s]]
              /\ Become(l1)
           \/ /\ ch[c][Opp(s)] # "open"
              /\ Become(IF s = "back" THEN removeStat(l1, c, s) ELSE l1)
              /\ UNCHANGED wr
        /\ UNCHANGED <<ch, rd, closing, dlv, peerVars>>

(***************************************************************************)
(* channelRead of a side with the next chunk.  The frontend handler drops  *)
(* the chunk when the back is not active; the backend handler writes       *)
(* anyway, and the write to a closed channel fails at once.                *)
(***************************************************************************)
channelRead(c, s) ==
    LET l1 == addIn(Here, stat[c][s])
    IN  /\ ch[c][s] = "open" /\ rd[c][s]
        /\ got[c][s] < sent[c][s]
        /\ got' = [got EXCEPT ![c][s] = @ + 1]
        /\ rd' = [rd EXCEPT ![c][s] = FALSE]
        /\ \/ /\ ch[c][Opp(s)] = "open"
              /\ wr' = [wr EXCEPT ![c][Opp(s)] = got'[c][s]]
              /\ Become(l1)
           \/ /\ ch[c][Opp(s)] # "open"
              /\ Become(IF s = "back" THEN removeStat(l1, c, s) ELSE l1)
              /\ UNCHANGED wr
        /\ UNCHANGED <<ch, closing, dlv, peerVars>>

(* Mutant: a finished write stays queued. *)
written_requeue(c, s) ==
    /\ wr[c][s] # 0
    /\ dlv' = [dlv EXCEPT ![c][Opp(s)] = Append(@, wr[c][s])]
    /\ rd' = [rd EXCEPT ![c] = [t \in Sides |-> IF t = s THEN @[t] /\ ~closing[c][s]
                                                ELSE ch[c][t] = "open"]]
    /\ ch' = [ch EXCEPT ![c][s] = IF closing[c][s] THEN "closed" ELSE @]
    /\ closing' = [closing EXCEPT ![c][s] = FALSE]
    /\ UNCHANGED <<wr, got, peerVars, statVars>>

(* The listener of a write to side s that succeeded reads the other side. *)
written(c, s) ==
    /\ wr[c][s] # 0
    /\ dlv' = [dlv EXCEPT ![c][Opp(s)] = Append(@, wr[c][s])]
    /\ wr' = [wr EXCEPT ![c][s] = 0]
    /\ rd' = [rd EXCEPT ![c] = [t \in Sides |-> IF t = s THEN @[t] /\ ~closing[c][s]
                                                ELSE ch[c][t] = "open"]]
    /\ ch' = [ch EXCEPT ![c][s] = IF closing[c][s] THEN "closed" ELSE @]
    /\ closing' = [closing EXCEPT ![c][s] = FALSE]
    /\ UNCHANGED <<got, peerVars, statVars>>

(* A write to side s failed: its listener closes s. *)
write_failed(c, s) ==
    /\ wr[c][s] # 0 /\ peer[c][s] # "up"
    /\ CloseChannel(Here, c, s)
    /\ UNCHANGED <<dataVars, peerVars>>

(* An outstanding read meets the end of the stream. *)
end_of_stream(c, s) ==
    /\ ch[c][s] = "open" /\ rd[c][s]
    /\ peer[c][s] = "fin" /\ got[c][s] = sent[c][s]
    /\ CloseChannel(Here, c, s)
    /\ UNCHANGED <<dataVars, peerVars>>

(***************************************************************************)
(* exceptionCaught: an outstanding read meets a reset.  The handler drops  *)
(* its statistics, once by reference and once by id, and the channel is    *)
(* closed.                                                                 *)
(***************************************************************************)
exceptionCaught(c, s) ==
    /\ ch[c][s] = "open" /\ rd[c][s] /\ peer[c][s] = "rst"
    /\ CloseChannel(removeStat(removeId(Here, <<c, s>>), c, s), c, s)
    /\ UNCHANGED <<dataVars, peerVars>>

(***************************************************************************)
(* channelInactive: the other side is closed behind its pending write, and *)
(* the statistics of both are removed.                                     *)
(***************************************************************************)
channelInactive(c, s) ==
    /\ ch[c][s] = "closed"
    /\ closeOnFlush(Here, c, Opp(s))
    /\ UNCHANGED <<dataVars, peerVars>>

-----------------------------------------------------------------------------
(* The peers. *)
peer_send(c, s) ==
    /\ ch[c][s] \notin {"none", "connecting"}
    /\ peer[c][s] = "up" /\ sent[c][s] < limit[c]
    /\ sent' = [sent EXCEPT ![c][s] = @ + 1]
    /\ UNCHANGED <<chVars, dataVars, peer, statVars>>

peer_leaves(c, s, how) ==
    /\ ch[c][s] \notin {"none", "connecting"}
    /\ peer[c][s] = "up"
    /\ peer' = [peer EXCEPT ![c][s] = how]
    /\ UNCHANGED <<chVars, dataVars, sent, statVars>>

Handler(c) ==
    \/ connected(c) \/ connect_failed(c)
    \/ \E s \in Sides :
        \/ channelRead(c, s) \/ written(c, s) \/ write_failed(c, s)
        \/ end_of_stream(c, s) \/ exceptionCaught(c, s) \/ channelInactive(c, s)

Next ==
    \E c \in Conns :
        \/ accept(c)
        \/ Handler(c)
        \/ \E s \in Sides : peer_send(c, s) \/ \E how \in {"fin", "rst"} : peer_leaves(c, s, how)

(***************************************************************************)
(* An event loop serves its channels, a connection attempt ends (at the    *)
(* latest by CONNECT_TIMEOUT_MILLIS), a write ends.                        *)
(***************************************************************************)
Spec == Init /\ [][Next]_vars /\ \A c \in Conns : WF_vars(Handler(c))

-----------------------------------------------------------------------------
Registered(c, s) == \E i \in DOMAIN list : /\ heap[list[i]].id = <<c, s>>
                                            /\ ~heap[list[i]].empty

TypeOK ==
    /\ ch \in [Conns -> [Sides -> {"none", "connecting", "open", "closed", "gone"}]]
    /\ rd \in [Conns -> [Sides -> BOOLEAN]]
    /\ wr \in [Conns -> [Sides -> Nat]]
    /\ closing \in [Conns -> [Sides -> BOOLEAN]]
    /\ sent \in [Conns -> [Sides -> Nat]]
    /\ got \in [Conns -> [Sides -> Nat]]
    /\ dlv \in [Conns -> [Sides -> Seq(Nat)]]
    /\ peer \in [Conns -> [Sides -> {"up", "fin", "rst"}]]
    /\ stat \in [Conns -> [Sides -> DOMAIN heap \cup {Null}]]
    /\ heap \in Seq([id : (Conns \X Sides) \cup {Null}, empty : BOOLEAN, front : BOOLEAN,
                     in : Nat, out : Nat, nb : DOMAIN heap \cup {Null}])
    /\ list \in Seq(DOMAIN heap)

(***************************************************************************)
(* The other peer gets the chunks of a peer in order and without a gap,    *)
(* whatever is dropped when a channel closes under the relay.              *)
(***************************************************************************)
RelayedInOrder ==
    \A c \in Conns, s \in Sides : \A k \in DOMAIN dlv[c][s] : dlv[c][s][k] = k

(***************************************************************************)
(* A peer that sends and then closes loses nothing: once its channel is    *)
(* closed, the other peer, if it stayed and nothing it sent failed to      *)
(* reach the closing peer, has been sent everything.                       *)
(***************************************************************************)
FlushedBeforeClose ==
    \A c \in Conns, s \in Sides :
        /\ peer[c][s] = "fin" /\ peer[c][Opp(s)] = "up"
        /\ ch[c][s] \in {"closed", "gone"}
        /\ Len(dlv[c][Opp(s)]) = got[c][Opp(s)]
        => Len(dlv[c][s]) = sent[c][s]

(***************************************************************************)
(* A handler whose channel can still be read has its statistics            *)
(* (channelRead dereferences stat_channel without a test), and the         *)
(* frontend has its own when the backend's channelActive dereferences it.  *)
(***************************************************************************)
StatPresent ==
    \A c \in Conns :
        /\ ch[c]["back"] = "connecting" => stat[c]["front"] # Null
        /\ \A s \in Sides : rd[c][s] => stat[c][s] # Null

(***************************************************************************)
(* While both channels of a connection are open and neither is about to    *)
(* close, both are in the list, each in its own slot and with its own      *)
(* role, and the counters of the neighbours agree with the data relayed.   *)
(***************************************************************************)
ListedWhileOpen ==
    \A c \in Conns : ch[c] = Both("open") /\ closing[c] = Both(FALSE) =>
        \A s \in Sides :
            LET o == stat[c][s]
            IN  /\ \E i \in DOMAIN list : list[i] = o
                /\ heap[o] = [id |-> <<c, s>>, empty |-> FALSE, front |-> s = "front",
                              in |-> got[c][s], out |-> got[c][Opp(s)], nb |-> stat[c][Opp(s)]]

(***************************************************************************)
(* When both channels of a connection are gone, no entry of the list is    *)
(* theirs: the statistics of closed connections do not pile up.            *)
(***************************************************************************)
NothingLeftListed ==
    \A c \in Conns : ch[c] = Both("gone") => \A s \in Sides : ~Registered(c, s)

(***************************************************************************)
(* When a peer leaves, both channels of the connection get closed and      *)
(* leave the list.                                                         *)
(***************************************************************************)
BothSidesClose ==
    \A c \in Conns : (\E s \in Sides : peer[c][s] # "up" /\ ch[c][s] # "none")
                        ~> (ch[c] = Both("gone") /\ \A s \in Sides : ~Registered(c, s))
=============================================================================
