--------------------------- MODULE NullProxyProofs ---------------------------
(***************************************************************************)
(* Proofs about NullProxy, for every set of connections and every number   *)
(* of chunks.                                                              *)
(***************************************************************************)
EXTENDS StatListProofs

-----------------------------------------------------------------------------
(***************************************************************************)
(* The inductive invariant: the channels and the data of a connection.     *)
(***************************************************************************)
Down == {"closed", "gone"}

ChType ==
    /\ ch \in [Conns -> [Sides -> {"none", "connecting", "open", "closed", "gone"}]]
    /\ rd \in [Conns -> [Sides -> BOOLEAN]]
    /\ wr \in [Conns -> [Sides -> Nat]]
    /\ closing \in [Conns -> [Sides -> BOOLEAN]]
    /\ sent \in [Conns -> [Sides -> Nat]]
    /\ got \in [Conns -> [Sides -> Nat]]
    /\ dlv \in [Conns -> [Sides -> Seq(Nat)]]
    /\ peer \in [Conns -> [Sides -> {"up", "fin", "rst"}]]

(* Both channels are new, or the back is connecting, or both were opened.  *)
(* Only an open channel is read or written; closeOnFlush waits for a write *)
(* after the other side has gone.                                          *)
Phase(c, s) ==
    /\ ch[c][s] = "none" => ch[c][Opp(s)] = "none"
    /\ ch[c][s] = "connecting" => s = "back" /\ ch[c][Opp(s)] = "open"
    /\ rd[c][s] => ch[c][s] = "open" /\ ch[c][Opp(s)] # "connecting"
    /\ wr[c][s] # 0 => ch[c][s] = "open" /\ ch[c][Opp(s)] # "connecting"
    /\ closing[c][s] => ch[c][s] = "open" /\ wr[c][s] # 0 /\ ch[c][Opp(s)] = "gone"
    /\ ch[c][s] \in {"none", "connecting"} \/ ch[c][Opp(s)] = "connecting" =>
          got[c][s] = 0 /\ dlv[c][s] = << >>
    /\ ch[c][s] \in {"none", "connecting"} => sent[c][s] = 0 /\ peer[c][s] = "up"

(* At most one chunk of a stream is under way, the one after those that    *)
(* were delivered; a channel is read only when none is.                    *)
Relay(c, s) ==
    /\ \A k \in DOMAIN dlv[c][s] : dlv[c][s][k] = k
    /\ rd[c][s] => wr[c][Opp(s)] = 0 /\ got[c][s] = Len(dlv[c][s])
    /\ wr[c][Opp(s)] # 0 => wr[c][Opp(s)] = got[c][s] /\ got[c][s] = Len(dlv[c][s]) + 1
    /\ Len(dlv[c][s]) <= got[c][s]
    /\ got[c][s] <= sent[c][s]

(* The channel of a peer that stays is closed after that of a peer that    *)
(* left.                                                                   *)
Order(c, s) ==
    ch[c][s] \in Down /\ peer[c][s] = "up" =>
        ch[c][Opp(s)] \in Down /\ peer[c][Opp(s)] # "up"

Flushed(c, s) ==
    /\ peer[c][s] = "fin" /\ peer[c][Opp(s)] = "up"
    /\ ch[c][s] \in Down
    /\ Len(dlv[c][Opp(s)]) = got[c][Opp(s)]
    => Len(dlv[c][s]) = sent[c][s]

Channels ==
    /\ ChType
    /\ \A c \in Conns, s \in Sides : Phase(c, s) /\ Relay(c, s) /\ Order(c, s) /\ Flushed(c, s)

-----------------------------------------------------------------------------
(***************************************************************************)
(* The inductive invariant: the statistics.                                *)
(***************************************************************************)
Statistics(c) ==
    /\ ch[c]["front"] = "none" => stat[c]["front"] = Null
    /\ ch[c]["back"] \in {"none", "connecting"} => stat[c]["back"] = Null
    /\ ch[c]["back"] = "connecting" =>
          stat[c]["front"] # Null /\ heap[stat[c]["front"]] = Entry(c, "front", 0, 0, Null)
    /\ \A s \in Sides :
          /\ rd[c][s] \/ (ch[c][s] = "open" /\ wr[c][Opp(s)] # 0) => stat[c][s] # Null
          /\ ch[c][s] = "gone" => ~Reg(Here, c, s) /\ ~Reg(Here, c, Opp(s))
          /\ ch[c] = Both("open") =>
                /\ stat[c][s] # Null
                /\ heap[stat[c][s]] = Entry(c, s, got[c][s], got[c][Opp(s)], stat[c][Opp(s)])

IInv ==
    /\ Channels
    /\ WF(Here)
    /\ \A c \in Conns : Statistics(c)

-----------------------------------------------------------------------------
(***************************************************************************)
(* The channels.                                                           *)
(***************************************************************************)

Conn(c, s) == Phase(c, s) /\ Relay(c, s) /\ Order(c, s) /\ Flushed(c, s)

(* What a connection is in depends on its own channels only. *)
Same(d) ==
    /\ ch'[d] = ch[d] /\ rd'[d] = rd[d] /\ wr'[d] = wr[d] /\ closing'[d] = closing[d]
    /\ sent'[d] = sent[d] /\ got'[d] = got[d] /\ dlv'[d] = dlv[d] /\ peer'[d] = peer[d]

(* A step that touches one connection needs to be looked at there only. *)
LEMMA Elsewhere ==
    ASSUME Channels, ChType', NEW c \in Conns, \A d \in Conns \ {c} : Same(d),
           \A s \in Sides : Conn(c, s)'
    PROVE  Channels'
<1> SUFFICES ASSUME NEW d \in Conns \ {c}, NEW s \in Sides PROVE Conn(d, s)'
  BY DEF Channels, Conn
<1>1. Conn(d, s) /\ Same(d)
  BY DEF Channels, Conn
<1>2. Phase(d, s)'
  BY <1>1 DEF Conn, Phase, Same
<1>3. Relay(d, s)'
  BY <1>1 DEF Conn, Relay, Same
<1>4. Order(d, s)' /\ Flushed(d, s)'
  BY <1>1 DEF Conn, Order, Flushed, Same
<1> QED
  BY <1>2, <1>3, <1>4 DEF Conn

(* The start of a connection. *)
LEMMA AcceptChannels == ASSUME Channels, NEW c \in Conns, accept(c) PROVE Channels'
<1>t. ChType
  BY DEF Channels
<1>0. /\ ch[c]["front"] = "none" /\ ch' = [ch EXCEPT ![c] = [front |-> "open", back |-> "connecting"]]
      /\ UNCHANGED <<rd, wr, closing, sent, got, dlv, peer>>
  BY DEF accept, dataVars, peerVars
<1>1. /\ ch'[c]["front"] = "open" /\ ch'[c]["back"] = "connecting"
      /\ ch'[c] \in [Sides -> {"none", "connecting", "open", "closed", "gone"}]
      /\ \A d \in Conns \ {c} : ch'[d] = ch[d]
  BY <1>0, <1>t DEF ChType, Sides
<1>2. ChType'
  BY <1>0, <1>1, <1>t DEF ChType
<1>3. \A d \in Conns \ {c} : Same(d)
  BY <1>0, <1>1 DEF Same
<1>4. ASSUME NEW s \in Sides PROVE Conn(c, s)'
  <2>1. Phase(c, s) /\ Relay(c, s) /\ Phase(c, Opp(s)) /\ Relay(c, Opp(s))
    BY ZenonT(60), Opposite DEF Channels
  <2>2. Phase(c, s)'
    BY ZenonT(60), <1>0, <1>1, <2>1, Opposite DEF Phase, Sides
  <2>3. Relay(c, s)'
    BY <1>0, <2>1 DEF Relay
  <2>4. Order(c, s)' /\ Flushed(c, s)'
    BY <1>1, Opposite DEF Order, Flushed, Sides, Down
  <2> QED
    BY <2>2, <2>3, <2>4 DEF Conn
<1> QED
  BY <1>2, <1>3, <1>4, Elsewhere

(* The back is connected. *)
LEMMA ConnectedChannels == ASSUME Channels, NEW c \in Conns, connected(c) PROVE Channels'
<1>t. ChType
  BY DEF Channels
<1>0. /\ ch[c]["back"] = "connecting" /\ ch' = [ch EXCEPT ![c]["back"] = "open"]
      /\ rd' = [rd EXCEPT ![c] = Both(TRUE)]
      /\ UNCHANGED <<wr, closing, sent, got, dlv, peer>>
  BY DEF connected, dataVars, peerVars
<1>f. ch[c]["front"] = "open"
  BY <1>0 DEF Channels, Phase, Sides, Opp
<1>1. /\ \A s \in Sides : ch'[c][s] = "open" /\ rd'[c][s]
      /\ \A d \in Conns \ {c} : ch'[d] = ch[d] /\ rd'[d] = rd[d]
  BY <1>0, <1>f, <1>t DEF ChType, Sides, Both
<1>2. ChType'
  BY ZenonT(60), <1>0, <1>t DEF ChType, Both, Sides
<1>3. \A d \in Conns \ {c} : Same(d)
  BY <1>0, <1>1 DEF Same
<1>4. ASSUME NEW s \in Sides PROVE Conn(c, s)'
  <2>1. Phase(c, s) /\ Relay(c, s) /\ Phase(c, Opp(s)) /\ Relay(c, Opp(s))
    BY ZenonT(60), Opposite DEF Channels
  <2>2. /\ wr[c][s] = 0 /\ wr[c][Opp(s)] = 0 /\ ~closing[c][s]
        /\ got[c][s] = 0 /\ dlv[c][s] = << >>
    BY <1>0, <1>1, <2>1, Opposite DEF Phase, Sides
  <2>3. Phase(c, s)'
    BY ZenonT(60), <1>0, <1>1, <2>1, <2>2, Opposite DEF Phase, Sides
  <2>4. Relay(c, s)'
    BY <1>0, <2>1, <2>2 DEF Relay
  <2>5. Order(c, s)' /\ Flushed(c, s)'
    BY <1>1, Opposite DEF Order, Flushed, Down
  <2> QED
    BY <2>3, <2>4, <2>5 DEF Conn
<1> QED
  BY <1>2, <1>3, <1>4, Elsewhere

(* The back cannot be connected. *)
LEMMA FailedChannels == ASSUME Channels, NEW c \in Conns, connect_failed(c) PROVE Channels'
<1>t. ChType
  BY DEF Channels
<1>0. /\ ch[c]["back"] = "connecting" /\ ch' = [ch EXCEPT ![c] = [front |-> "closed", back |-> "gone"]]
      /\ peer' = [peer EXCEPT ![c]["back"] = "rst"]
      /\ UNCHANGED <<rd, wr, closing, sent, got, dlv>>
  BY DEF connect_failed, dataVars
<1>1. /\ ch'[c]["front"] = "closed" /\ ch'[c]["back"] = "gone" /\ peer'[c]["back"] = "rst"
      /\ \A d \in Conns \ {c} : ch'[d] = ch[d] /\ peer'[d] = peer[d]
      /\ ch'[c] \in [Sides -> {"none", "connecting", "open", "closed", "gone"}]
  BY <1>0, <1>t DEF ChType, Sides
<1>2. ChType'
  BY ZenonT(60), <1>0, <1>1, <1>t DEF ChType, Sides
<1>3. \A d \in Conns \ {c} : Same(d)
  BY <1>0, <1>1 DEF Same
<1>4. ASSUME NEW s \in Sides PROVE Conn(c, s)'
  <2>1. Phase(c, s) /\ Relay(c, s) /\ Phase(c, Opp(s)) /\ Relay(c, Opp(s))
    BY Opposite DEF Channels
  <2>2. ~rd[c][s] /\ wr[c][s] = 0 /\ wr[c][Opp(s)] = 0 /\ ~closing[c][s]
    BY ZenonT(60), <1>0, <2>1, Opposite DEF Phase, Sides
  <2>3. Phase(c, s)'
    BY ZenonT(60), <1>0, <1>1, <2>1, <2>2, Opposite DEF Phase, Sides
  <2>4. Relay(c, s)'
    BY <1>0, <2>1, <2>2 DEF Relay
  <2>5. Order(c, s)' /\ Flushed(c, s)'
    BY <1>1, Opposite DEF Order, Flushed, Sides, Down
  <2> QED
    BY <2>3, <2>4, <2>5 DEF Conn
<1> QED
  BY <1>2, <1>3, <1>4, Elsewhere

(* A chunk is read: it is written to the other channel, or dropped when    *)
(* that is closed.                                                         *)
LEMMA ReadChannels ==
    ASSUME Channels, NEW c \in Conns, NEW s \in Sides, channelRead(c, s) PROVE Channels'
<1>t. ChType
  BY DEF Channels
<1> DEFINE u == Opp(s)
<1>u. u \in Sides /\ u # s /\ Opp(u) = s /\ \A t \in Sides : t = s \/ t = u
  BY Opposite
<1> HIDE DEF u
<1>0. /\ ch[c][s] = "open" /\ rd[c][s] /\ got[c][s] < sent[c][s]
      /\ got' = [got EXCEPT ![c][s] = @ + 1] /\ rd' = [rd EXCEPT ![c][s] = FALSE]
      /\ \/ ch[c][u] = "open" /\ wr' = [wr EXCEPT ![c][u] = got'[c][s]]
         \/ ch[c][u] # "open" /\ wr' = wr
      /\ UNCHANGED <<ch, closing, sent, dlv, peer>>
  BY DEF channelRead, peerVars, u
<1>1. /\ got'[c][s] = got[c][s] + 1 /\ got'[c][u] = got[c][u]
      /\ ~rd'[c][s] /\ rd'[c][u] = rd[c][u]
      /\ \A d \in Conns \ {c} : got'[d] = got[d] /\ rd'[d] = rd[d] /\ wr'[d] = wr[d]
      /\ wr'[c][s] = wr[c][s]
      /\ wr'[c][u] = IF ch[c][u] = "open" THEN got[c][s] + 1 ELSE wr[c][u]
  BY <1>u, <1>0, <1>t DEF ChType
<1>2. ChType'
  <2>1. got[c][s] + 1 \in Nat
    BY <1>t DEF ChType
  <2>2. got' \in [Conns -> [Sides -> Nat]] /\ rd' \in [Conns -> [Sides -> BOOLEAN]]
    BY <1>0, <2>1, <1>t DEF ChType
  <2>3. wr' \in [Conns -> [Sides -> Nat]]
    <3>1. CASE wr' = wr
      BY <3>1, <1>t DEF ChType
    <3>2. CASE wr' = [wr EXCEPT ![c][u] = got[c][s] + 1]
      BY ZenonT(60), <1>u, <3>2, <2>1, <1>t DEF ChType
    <3> QED
      BY <1>0, <1>1, <3>1, <3>2
  <2> QED
    BY ZenonT(60), <1>0, <2>2, <2>3, <1>t DEF ChType
<1>3. \A d \in Conns \ {c} : Same(d)
  BY <1>0, <1>1 DEF Same
<1>4. Conn(c, s) /\ Conn(c, u)
  BY <1>u DEF Conn, Channels
<1>5. Phase(c, s)' /\ Phase(c, u)'
  <2>1. ch[c][u] \notin {"none", "connecting"} /\ ~closing[c][u]
    BY ZenonT(60), <1>u, <1>0, <1>4 DEF Conn, Phase, u, Sides
  <2>2. Phase(c, s)'
    BY ZenonT(60), <1>0, <1>1, <1>4, <2>1 DEF Conn, Phase, u
  <2>3. Phase(c, u)'
    BY ZenonT(60), <1>u, <1>0, <1>1, <1>4, <2>1 DEF Conn, Phase
  <2> QED
    BY ZenonT(60), <2>2, <2>3
<1>6. Relay(c, s)' /\ Relay(c, u)'
  BY SMTT(30), <1>u, <1>0, <1>1, <1>2, <1>4, <1>t DEF Conn, Phase, Relay, u, ChType
<1>7. Order(c, s)' /\ Order(c, u)'
  BY ZenonT(60), <1>u, <1>0, <1>4 DEF Conn, Order, u
<1>8. Flushed(c, s)' /\ Flushed(c, u)'
  BY <1>u, <1>0, <1>1, <1>4, <1>t DEF Conn, Relay, Flushed, u, Down, ChType
<1>9. \A t \in Sides : Conn(c, t)'
  BY <1>u, <1>5, <1>6, <1>7, <1>8 DEF Conn
<1> QED
  BY <1>2, <1>3, <1>9, Elsewhere

(* A stream with one more chunk. *)
LEMMA Appended ==
    ASSUME NEW d \in Seq(Nat), NEW x
    PROVE  /\ Len(Append(d, x)) = Len(d) + 1
           /\ \A k \in DOMAIN Append(d, x) : k \in DOMAIN d \/ k = Len(d) + 1
           /\ \A k \in DOMAIN d : Append(d, x)[k] = d[k]
           /\ Append(d, x)[Len(d) + 1] = x
  OBVIOUS

(* A write has ended. *)
LEMMA WrittenChannels ==
    ASSUME Channels, NEW c \in Conns, NEW s \in Sides, written(c, s) PROVE Channels'
<1>t. ChType
  BY DEF Channels
<1> DEFINE u == Opp(s)
<1>u. u \in Sides /\ u # s /\ Opp(u) = s /\ \A t \in Sides : t = s \/ t = u
  BY Opposite
<1> HIDE DEF u
<1>0. /\ wr[c][s] # 0
      /\ dlv' = [dlv EXCEPT ![c][u] = Append(@, wr[c][s])] /\ wr' = [wr EXCEPT ![c][s] = 0]
      /\ ch' = [ch EXCEPT ![c][s] = IF closing[c][s] THEN "closed" ELSE @]
      /\ closing' = [closing EXCEPT ![c][s] = FALSE]
      /\ rd' = [rd EXCEPT ![c] = [t \in Sides |-> IF t = s THEN rd[c][t] /\ ~closing[c][s]
                                                  ELSE ch[c][t] = "open"]]
  BY <1>t DEF written, u, ChType
<1>n. UNCHANGED <<got, sent, peer>>
  BY DEF written, peerVars
<1>1. /\ dlv'[c][u] = Append(dlv[c][u], wr[c][s]) /\ dlv'[c][s] = dlv[c][s]
      /\ wr'[c][s] = 0 /\ wr'[c][u] = wr[c][u]
      /\ ~closing'[c][s] /\ closing'[c][u] = closing[c][u]
      /\ ch'[c][s] = (IF closing[c][s] THEN "closed" ELSE ch[c][s]) /\ ch'[c][u] = ch[c][u]
      /\ rd'[c][s] = (rd[c][s] /\ ~closing[c][s]) /\ rd'[c][u] = (ch[c][u] = "open")
      /\ \A d \in Conns \ {c} : /\ dlv'[d] = dlv[d] /\ wr'[d] = wr[d] /\ closing'[d] = closing[d]
                                /\ ch'[d] = ch[d] /\ rd'[d] = rd[d]
  BY <1>u, <1>0, <1>t DEF ChType
<1>2. ChType'
  <2>1. Append(dlv[c][u], wr[c][s]) \in Seq(Nat)
    BY <1>u, <1>t DEF ChType
  <2>2. dlv' \in [Conns -> [Sides -> Seq(Nat)]]
    BY <1>u, <1>0, <2>1, <1>t DEF ChType
  <2>3. wr' \in [Conns -> [Sides -> Nat]] /\ closing' \in [Conns -> [Sides -> BOOLEAN]]
    BY <1>0, <1>t DEF ChType
  <2>4. rd' \in [Conns -> [Sides -> BOOLEAN]]
    BY ZenonT(60), <1>0, <1>t DEF ChType
  <2>5. ch' \in [Conns -> [Sides -> {"none", "connecting", "open", "closed", "gone"}]]
    BY <1>0, <1>t DEF ChType
  <2> QED
    BY <1>n, <2>2, <2>3, <2>4, <2>5, <1>t DEF ChType
<1>3. \A d \in Conns \ {c} : Same(d)
  BY ZenonT(60), <1>n, <1>1 DEF Same
<1>4. Conn(c, s) /\ Conn(c, u)
  BY <1>u DEF Conn, Channels
<1>5. /\ ch[c][s] = "open" /\ ch[c][u] \notin {"none", "connecting"} /\ ~closing[c][u]
      /\ wr[c][s] = got[c][u] /\ got[c][u] = Len(dlv[c][u]) + 1
      /\ closing[c][s] => ch[c][u] \in Down /\ peer[c][u] # "up"
  BY <1>u, <1>0, <1>4 DEF Conn, Phase, Relay, Order, u, Sides, Down
<1>6. Phase(c, s)' /\ Phase(c, u)'
  <2>1. Phase(c, s)'
    BY ZenonT(60), <1>n, <1>1, <1>4, <1>5 DEF Conn, Phase, u
  <2>2. Phase(c, u)'
    BY ZenonT(60), <1>u, <1>n, <1>1, <1>4, <1>5 DEF Conn, Phase
  <2> QED
    BY <2>1, <2>2
<1>7. Relay(c, s)'
  BY ZenonT(60), <1>n, <1>1, <1>4 DEF Conn, Relay, u
<1>8. Relay(c, u)'
  <2>1. dlv[c][u] \in Seq(Nat)
    BY <1>u, <1>t DEF ChType
  <2>2. /\ Len(dlv'[c][u]) = got[c][u]
        /\ \A k \in DOMAIN dlv'[c][u] : k \in DOMAIN dlv[c][u] \/ k = got[c][u]
        /\ \A k \in DOMAIN dlv[c][u] : dlv'[c][u][k] = dlv[c][u][k]
        /\ dlv'[c][u][got[c][u]] = got[c][u]
    <3>1. dlv'[c][u] = Append(dlv[c][u], wr[c][s]) /\ wr[c][s] = got[c][u]
      BY <1>1, <1>5
    <3>2. got[c][u] = Len(dlv[c][u]) + 1
      BY <1>5
    <3> DEFINE a == Append(dlv[c][u], got[c][u])
    <3>3. /\ Len(a) = Len(dlv[c][u]) + 1
          /\ \A k \in DOMAIN a : k \in DOMAIN dlv[c][u] \/ k = Len(dlv[c][u]) + 1
          /\ \A k \in DOMAIN dlv[c][u] : a[k] = dlv[c][u][k]
          /\ a[Len(dlv[c][u]) + 1] = got[c][u]
      BY ZenonT(60), <2>1, Appended
    <3>4. dlv'[c][u] = a
      BY ZenonT(60), <3>1
    <3> HIDE DEF a
    <3> QED
      BY <3>2, <3>3, <3>4
  <2>3. got[c][u] \in Nat /\ got[c][u] <= sent[c][u] /\ \A k \in DOMAIN dlv[c][u] : dlv[c][u][k] = k
    BY <1>u, <1>t, <1>4 DEF Conn, Relay, ChType
  <2>4. got'[c][u] = got[c][u] /\ sent'[c][u] = sent[c][u] /\ wr'[c][Opp(u)] = 0
    BY ZenonT(60), <1>u, <1>n, <1>1
  <2> QED
    BY SMTT(30), <2>2, <2>3, <2>4 DEF Relay
<1>9. Order(c, s)' /\ Order(c, u)'
  BY ZenonT(60), <1>u, <1>n, <1>1, <1>4, <1>5 DEF Conn, Order, u, Down
<1>10. Flushed(c, s)' /\ Flushed(c, u)'
  <2>1. Flushed(c, s)'
    BY ZenonT(60), <1>n, <1>1, <1>5 DEF Flushed, u, Down
  <2>2. Flushed(c, u)'
    BY <1>u, <1>n, <1>1, <1>4, <1>5, <1>t DEF Conn, Relay, Flushed, ChType
  <2> QED
    BY <2>1, <2>2
<1>11. \A t \in Sides : Conn(c, t)'
  BY ZenonT(60), <1>u, <1>6, <1>7, <1>8, <1>9, <1>10 DEF Conn
<1> QED
  BY <1>2, <1>3, <1>11, Elsewhere

(* A channel whose peer left is closed: by a write that failed, a reset,   *)
(* or the end of the stream.                                               *)
Closes(c, s) ==
    /\ ch' = [ch EXCEPT ![c][s] = "closed"] /\ rd' = [rd EXCEPT ![c][s] = FALSE]
    /\ wr' = [wr EXCEPT ![c][s] = 0] /\ closing' = [closing EXCEPT ![c][s] = FALSE]
    /\ UNCHANGED <<sent, got, dlv, peer>>

(* A channel is closed by its peer, or because a write to it failed. *)
LEMMA CloseChannels ==
    ASSUME Channels, NEW c \in Conns, NEW s \in Sides, Closes(c, s),
           wr[c][s] # 0 \/ rd[c][s], peer[c][s] # "up",
           peer[c][s] = "rst" \/ wr[c][s] # 0 \/ (rd[c][s] /\ got[c][s] = sent[c][s])
    PROVE  Channels'
<1>t. ChType
  BY DEF Channels
<1> DEFINE u == Opp(s)
<1>u. u \in Sides /\ u # s /\ Opp(u) = s /\ \A t \in Sides : t = s \/ t = u
  BY Opposite
<1> HIDE DEF u
<1>1. /\ ch'[c][s] = "closed" /\ ch'[c][u] = ch[c][u]
      /\ ~rd'[c][s] /\ rd'[c][u] = rd[c][u]
      /\ wr'[c][s] = 0 /\ wr'[c][u] = wr[c][u]
      /\ ~closing'[c][s] /\ closing'[c][u] = closing[c][u]
      /\ \A d \in Conns \ {c} : /\ ch'[d] = ch[d] /\ rd'[d] = rd[d] /\ wr'[d] = wr[d]
                                /\ closing'[d] = closing[d]
  BY <1>u, <1>t DEF ChType, Closes
<1>2. ChType'
  BY <1>t DEF ChType, Closes
<1>3. \A d \in Conns \ {c} : Same(d)
  BY <1>1 DEF Same, Closes
<1>4. Conn(c, s) /\ Conn(c, u)
  BY ZenonT(60), <1>u DEF Conn, Channels
<1>5. ch[c][s] = "open" /\ ch[c][u] \notin {"none", "connecting"} /\ ~closing[c][u]
  BY <1>u, <1>4 DEF Conn, Phase, u, Sides
<1>6. Phase(c, s)' /\ Phase(c, u)'
  <2>1. Phase(c, s)'
    BY ZenonT(60), <1>1, <1>4, <1>5 DEF Conn, Phase, u, Closes
  <2>2. Phase(c, u)'
    BY ZenonT(60), <1>u, <1>1, <1>4, <1>5 DEF Conn, Phase, Closes
  <2> QED
    BY ZenonT(60), <2>1, <2>2
<1>7. Relay(c, s)' /\ Relay(c, u)'
  BY <1>u, <1>1, <1>4 DEF Conn, Relay, u, Closes
<1>8. Order(c, s)' /\ Order(c, u)'
  BY ZenonT(60), <1>u, <1>1, <1>4 DEF Conn, Order, u, Down, Closes
<1>9. Flushed(c, s)' /\ Flushed(c, u)'
  BY SMTT(30), <1>u, <1>1, <1>4, <1>t DEF Conn, Relay, Flushed, u, Closes, ChType
<1>10. \A t \in Sides : Conn(c, t)'
  BY ZenonT(60), <1>u, <1>6, <1>7, <1>8, <1>9 DEF Conn
<1> QED
  BY <1>2, <1>3, <1>10, Elsewhere

(* channelInactive closes the other side, behind its pending write. *)
LEMMA InactiveChannels ==
    ASSUME Channels, NEW c \in Conns, NEW s \in Sides, channelInactive(c, s) PROVE Channels'
<1>t. ChType
  BY DEF Channels
<1> DEFINE u == Opp(s)
<1>u. u \in Sides /\ u # s /\ Opp(u) = s /\ \A t \in Sides : t = s \/ t = u
  BY Opposite
<1> HIDE DEF u
<1>0. /\ ch[c][s] = "closed"
      /\ ch' = [ch EXCEPT ![c][s] = "gone",
                          ![c][u] = IF @ = "open" /\ wr[c][u] = 0 THEN "closed" ELSE @]
      /\ closing' = [closing EXCEPT ![c][u] = ch[c][u] = "open" /\ wr[c][u] # 0]
      /\ rd' = [rd EXCEPT ![c][u] = @ /\ ch[c][u] = "open" /\ wr[c][u] # 0]
  BY <1>u DEF channelInactive, closeOnFlush, u
<1>n. UNCHANGED <<wr, sent, got, dlv, peer>>
  BY DEF channelInactive, closeOnFlush, peerVars, dataVars
<1>1. /\ ch'[c][s] = "gone"
      /\ ch'[c][u] = IF ch[c][u] = "open" /\ wr[c][u] = 0 THEN "closed" ELSE ch[c][u]
      /\ closing'[c][s] = closing[c][s]
      /\ closing'[c][u] = (ch[c][u] = "open" /\ wr[c][u] # 0)
      /\ rd'[c][s] = rd[c][s] /\ rd'[c][u] = (rd[c][u] /\ ch[c][u] = "open" /\ wr[c][u] # 0)
      /\ \A d \in Conns \ {c} : ch'[d] = ch[d] /\ closing'[d] = closing[d] /\ rd'[d] = rd[d]
  BY <1>u, <1>0, <1>t DEF ChType
<1>2. ChType'
  <2>1. ch' \in [Conns -> [Sides -> {"none", "connecting", "open", "closed", "gone"}]]
    BY <1>u, <1>0, <1>t DEF ChType
  <2>2. closing' \in [Conns -> [Sides -> BOOLEAN]] /\ rd' \in [Conns -> [Sides -> BOOLEAN]]
    BY <1>u, <1>0, <1>t DEF ChType
  <2> QED
    BY <1>n, <2>1, <2>2, <1>t DEF ChType
<1>3. \A d \in Conns \ {c} : Same(d)
  BY ZenonT(60), <1>n, <1>1 DEF Same
<1>4. Conn(c, s) /\ Conn(c, u)
  BY <1>u DEF Conn, Channels
<1>5. /\ ch[c][u] \notin {"none", "connecting"} /\ ~closing[c][s] /\ ~rd[c][s]
      /\ ch[c][u] = "open" => peer[c][s] # "up"
  BY <1>u, <1>0, <1>4 DEF Conn, Phase, Order, u, Down
<1>6. Phase(c, s)' /\ Phase(c, u)'
  <2>1. Phase(c, s)'
    BY ZenonT(60), <1>0, <1>n, <1>1, <1>4, <1>5 DEF Conn, Phase, u
  <2>2. Phase(c, u)'
    BY ZenonT(60), <1>u, <1>n, <1>1, <1>4, <1>5 DEF Conn, Phase
  <2> QED
    BY <2>1, <2>2
<1>7. Relay(c, s)' /\ Relay(c, u)'
  BY ZenonT(60), <1>u, <1>n, <1>1, <1>4 DEF Conn, Relay, u
<1>8. Order(c, s)' /\ Order(c, u)'
  BY ZenonT(60), <1>u, <1>0, <1>n, <1>1, <1>4, <1>5 DEF Conn, Order, u, Down
<1>9. Flushed(c, s)' /\ Flushed(c, u)'
  BY ZenonT(60), <1>u, <1>0, <1>n, <1>1, <1>4, <1>5 DEF Conn, Order, Flushed, u, Down
<1>10. \A t \in Sides : Conn(c, t)'
  BY <1>u, <1>6, <1>7, <1>8, <1>9 DEF Conn
<1> QED
  BY <1>2, <1>3, <1>10, Elsewhere

(* A peer sends or leaves. *)
LEMMA PeerChannels ==
    ASSUME Channels, NEW c \in Conns, NEW s \in Sides,
           peer_send(c, s) \/ \E how \in {"fin", "rst"} : peer_leaves(c, s, how)
    PROVE  Channels'
<1>t. ChType
  BY DEF Channels
<1> DEFINE u == Opp(s)
<1>u. u \in Sides /\ u # s /\ Opp(u) = s /\ \A t \in Sides : t = s \/ t = u
  BY Opposite
<1> HIDE DEF u
<1>0. ch[c][s] \notin {"none", "connecting"} /\ peer[c][s] = "up"
  BY DEF peer_send, peer_leaves
<1>n. UNCHANGED <<ch, rd, wr, closing, got, dlv>>
  BY DEF peer_send, peer_leaves, chVars, dataVars
<1>4. Conn(c, s) /\ Conn(c, u)
  BY <1>u DEF Conn, Channels
<1>1. CASE peer_send(c, s)
  <2>1. sent' = [sent EXCEPT ![c][s] = @ + 1] /\ peer' = peer
    BY <1>1 DEF peer_send
  <2>2. /\ sent'[c][s] = sent[c][s] + 1 /\ sent'[c][u] = sent[c][u]
        /\ \A d \in Conns \ {c} : sent'[d] = sent[d]
    BY <1>u, <2>1, <1>t DEF ChType
  <2>3. ChType'
    BY <1>n, <2>1, <1>t DEF ChType
  <2>4. \A d \in Conns \ {c} : Same(d)
    BY ZenonT(60), <1>n, <2>1, <2>2 DEF Same
  <2>5. Phase(c, s)' /\ Phase(c, u)'
    BY ZenonT(60), <1>u, <1>0, <1>n, <1>4, <2>1, <2>2 DEF Conn, Phase, u
  <2>6. Relay(c, s)' /\ Relay(c, u)'
    BY <1>u, <1>n, <1>4, <2>2, <1>t DEF Conn, Relay, u, ChType
  <2>7. Order(c, s)' /\ Order(c, u)'
    BY ZenonT(60), <1>u, <1>n, <1>4, <2>1 DEF Conn, Order, u
  <2>8. Flushed(c, s)' /\ Flushed(c, u)'
    BY <1>u, <1>0, <1>n, <1>4, <2>1, <2>2 DEF Conn, Flushed, u
  <2>9. \A t \in Sides : Conn(c, t)'
    BY <1>u, <2>5, <2>6, <2>7, <2>8 DEF Conn
  <2> QED
    BY <2>3, <2>4, <2>9, Elsewhere
<1>2. ASSUME NEW how \in {"fin", "rst"}, peer_leaves(c, s, how) PROVE Channels'
  <2>1. peer' = [peer EXCEPT ![c][s] = how] /\ sent' = sent
    BY <1>2 DEF peer_leaves
  <2>2. /\ peer'[c][s] = how /\ peer'[c][u] = peer[c][u]
        /\ \A d \in Conns \ {c} : peer'[d] = peer[d]
    BY <1>u, <2>1, <1>t DEF ChType
  <2>3. ChType'
    BY ZenonT(60), <1>n, <2>1, <1>t DEF ChType
  <2>4. \A d \in Conns \ {c} : Same(d)
    BY ZenonT(60), <1>n, <2>1, <2>2 DEF Same
  <2>5. Phase(c, s)' /\ Phase(c, u)'
    BY ZenonT(60), <1>u, <1>0, <1>n, <1>4, <2>1, <2>2 DEF Conn, Phase, u
  <2>6. Relay(c, s)' /\ Relay(c, u)'
    BY ZenonT(60), <1>u, <1>n, <1>4, <2>1 DEF Conn, Relay, u
  <2>7. Order(c, s)' /\ Order(c, u)'
    BY ZenonT(60), <1>u, <1>n, <1>4, <2>2 DEF Conn, Order, u
  <2>8. Flushed(c, s)' /\ Flushed(c, u)'
    BY <1>u, <1>0, <1>n, <1>4, <2>1, <2>2 DEF Conn, Order, Flushed, u
  <2>9. \A t \in Sides : Conn(c, t)'
    BY <1>u, <2>5, <2>6, <2>7, <2>8 DEF Conn
  <2> QED
    BY <2>3, <2>4, <2>9, Elsewhere
<1> QED
  BY <1>1, <1>2

(* Every step keeps the invariant of the channels. *)
LEMMA ChannelStep == ASSUME Channels, [Next]_vars PROVE Channels'
<1>1. ASSUME NEW c \in Conns, NEW s \in Sides, write_failed(c, s) PROVE Channels'
  BY ZenonT(60), <1>1, CloseChannels DEF write_failed, CloseChannel, Closes, dataVars, peerVars
<1>2. ASSUME NEW c \in Conns, NEW s \in Sides, end_of_stream(c, s) PROVE Channels'
  BY ZenonT(60), <1>2, CloseChannels DEF end_of_stream, CloseChannel, Closes, dataVars, peerVars
<1>3. ASSUME NEW c \in Conns, NEW s \in Sides, exceptionCaught(c, s) PROVE Channels'
  BY ZenonT(60), <1>3, CloseChannels DEF exceptionCaught, CloseChannel, Closes, dataVars, peerVars
<1>4. ASSUME NEW c \in Conns, Handler(c) PROVE Channels'
  BY ZenonT(60), <1>1, <1>2, <1>3, <1>4, ConnectedChannels, FailedChannels, ReadChannels, WrittenChannels,
     InactiveChannels DEF Handler
<1>5. CASE UNCHANGED vars
  <2>1. UNCHANGED <<ch, rd, wr, closing, sent, got, dlv, peer>>
    BY <1>5 DEF vars, chVars, dataVars, peerVars
  <2> QED
    BY <2>1 DEF Channels, ChType, Phase, Relay, Order, Flushed
<1> QED
  BY <1>4, <1>5, AcceptChannels, PeerChannels DEF Next

(* The channels at the start. *)
LEMMA ChannelInit == Init => Channels
<1> SUFFICES ASSUME Init PROVE Channels
  OBVIOUS
<1>1. ChType
  BY DEF Init, ChType, Both
<1>2. ASSUME NEW c \in Conns, NEW s \in Sides
      PROVE  Phase(c, s) /\ Relay(c, s) /\ Order(c, s) /\ Flushed(c, s)
  BY Opposite DEF Init, Both, Phase, Relay, Order, Flushed, Down
<1> QED
  BY <1>1, <1>2 DEF Channels

-----------------------------------------------------------------------------
(***************************************************************************)
(* The statistics of the connections.                                      *)
(***************************************************************************)

(* A handler concerns its own connection only. *)
Apart(d) == ch'[d] = ch[d] /\ rd'[d] = rd[d] /\ wr'[d] = wr[d] /\ got'[d] = got[d]

StatInv == WF(Here) /\ \A d \in Conns : Statistics(d)

(* A step of one connection that keeps the entries of the others keeps *)
(* their statistics.                                                    *)
LEMMA Others ==
    ASSUME StatInv, NEW c \in Conns, NEW r, WF(r), Become(r), Statistics(c)',
           \A d \in Conns \ {c}, t \in Sides : Kept(Here, r, d, t),
           \A d \in Conns \ {c} : Apart(d)
    PROVE  StatInv'
<1>1. Here' = r /\ stat' = r.stat /\ heap' = r.heap
  <2>1. r \in [stat : [Conns -> [Sides -> Nat \cup {Null}]], heap : Seq(Stats), list : Seq(Nat)]
    BY DEF WF, ListType
  <2> QED
    BY ZenonT(60), <2>1 DEF Become, Here
<1>2. WF(Here)'
  BY ZenonT(60), <1>1
<1>3. ASSUME NEW d \in Conns \ {c} PROVE Statistics(d)'
  <2>s. "front" \in Sides /\ "back" \in Sides
    BY DEF Sides
  <2>0. Statistics(d) /\ Apart(d)
    BY DEF StatInv
  <2>1. \A t \in Sides : /\ stat'[d][t] = stat[d][t]
                         /\ Reg(Here', d, t) <=> Reg(Here, d, t)
                         /\ Reg(Here, d, t) => heap'[stat[d][t]] = heap[stat[d][t]]
    BY ZenonT(60), <1>1 DEF Kept, Here
  <2>2. \A t \in Sides : \A i, o, b :
           stat[d][t] # Null /\ heap[stat[d][t]] = Entry(d, t, i, o, b) => Reg(Here, d, t)
    BY SMTT(30) DEF Reg, Here, Entry
  <2>3. /\ ch'[d]["front"] = "none" => stat'[d]["front"] = Null
        /\ ch'[d]["back"] \in {"none", "connecting"} => stat'[d]["back"] = Null
    BY ZenonT(60), <2>s, <2>0, <2>1 DEF Statistics, Apart
  <2>4. ch'[d]["back"] = "connecting" =>
           stat'[d]["front"] # Null /\ heap'[stat'[d]["front"]] = Entry(d, "front", 0, 0, Null)
    BY SMTT(30), <2>s, <2>0, <2>1, <2>2 DEF Statistics, Apart
  <2>5. ASSUME NEW t \in Sides
        PROVE  /\ rd'[d][t] \/ (ch'[d][t] = "open" /\ wr'[d][Opp(t)] # 0) => stat'[d][t] # Null
               /\ ch'[d][t] = "gone" => ~Reg(Here', d, t) /\ ~Reg(Here', d, Opp(t))
               /\ ch'[d] = Both("open") =>
                     /\ stat'[d][t] # Null
                     /\ heap'[stat'[d][t]] =
                           Entry(d, t, got'[d][t], got'[d][Opp(t)], stat'[d][Opp(t)])
    <3>1. rd'[d][t] \/ (ch'[d][t] = "open" /\ wr'[d][Opp(t)] # 0) => stat'[d][t] # Null
      BY ZenonT(60), <2>0, <2>1 DEF Statistics, Apart
    <3>2. ch'[d][t] = "gone" => ~Reg(Here', d, t) /\ ~Reg(Here', d, Opp(t))
      BY SMTT(30), <2>0, <2>1, Opposite DEF Statistics, Apart
    <3>3. ASSUME ch'[d] = Both("open")
          PROVE  /\ stat'[d][t] # Null
                 /\ heap'[stat'[d][t]] =
                       Entry(d, t, got'[d][t], got'[d][Opp(t)], stat'[d][Opp(t)])
      <4>1. /\ stat[d][t] # Null
            /\ heap[stat[d][t]] = Entry(d, t, got[d][t], got[d][Opp(t)], stat[d][Opp(t)])
        BY ZenonT(60), <2>0, <3>3 DEF Statistics, Apart
      <4>2. stat'[d][Opp(t)] = stat[d][Opp(t)] /\ got'[d] = got[d]
        BY ZenonT(60), <2>0, <2>1, Opposite DEF Apart
      <4> QED
        BY SMTT(30), <2>1, <2>2, <4>1, <4>2
    <3> QED
      BY ZenonT(60), <3>1, <3>2, <3>3
  <2> QED
    BY ZenonT(60), <2>3, <2>4, <2>5 DEF Statistics
<1> QED
  BY <1>2, <1>3 DEF StatInv

(* A connection whose channels are not both open has no counters to agree. *)
LEMMA Settled ==
    ASSUME NEW c \in Conns, NEW r, WF(r), Become(r),
           \A t \in Sides : ch'[c][t] \notin {"none", "connecting"},
           \E t \in Sides : ch'[c][t] # "open",
           \A t \in Sides : rd'[c][t] \/ (ch'[c][t] = "open" /\ wr'[c][Opp(t)] # 0) =>
                               r.stat[c][t] # Null,
           \A t \in Sides : ch'[c][t] = "gone" => ~Reg(r, c, t) /\ ~Reg(r, c, Opp(t))
    PROVE  Statistics(c)'
<1>1. Here' = r /\ stat' = r.stat /\ heap' = r.heap
  <2>1. r \in [stat : [Conns -> [Sides -> Nat \cup {Null}]], heap : Seq(Stats), list : Seq(Nat)]
    BY DEF WF, ListType
  <2> QED
    BY ZenonT(60), <2>1 DEF Become, Here
<1>2. "front" \in Sides /\ "back" \in Sides
  BY DEF Sides
<1>3. ch'[c] # Both("open")
  BY DEF Both
<1> QED
  BY <1>1, <1>2, <1>3 DEF Statistics

(* The channels of a connection that has been accepted. *)
LEMMA Connected ==
    ASSUME Channels, NEW c \in Conns, NEW s \in Sides,
           rd[c][s] \/ wr[c][s] # 0 \/ ch[c][s] \in Down
    PROVE  \A t \in Sides : ch[c][t] \notin {"none", "connecting"}
<1>1. Conn(c, s) /\ Conn(c, Opp(s))
  BY Opposite DEF Channels, Conn
<1>2. Opp(s) \in Sides /\ Opp(Opp(s)) = s /\ \A t \in Sides : t = s \/ t = Opp(s)
  BY ZenonT(60), Opposite
<1>3. ch[c][s] \notin {"none", "connecting"} /\ ch[c][Opp(s)] \notin {"none", "connecting"}
  BY ZenonT(60), <1>1, <1>2 DEF Conn, Phase, Down
<1> QED
  BY <1>2, <1>3

(* accept registers the front. *)
LEMMA AcceptStat ==
    ASSUME Channels, StatInv, NEW c \in Conns, accept(c) PROVE StatInv'
<1> DEFINE r == create(Here, c, "front")
<1>s. "front" \in Sides /\ "back" \in Sides /\ Opp("front") = "back" /\ Opp("back") = "front"
  BY DEF Sides, Opp
<1>0. WF(Here) /\ Statistics(c)
  BY DEF StatInv
<1>1. /\ ch[c]["front"] = "none" /\ ch' = [ch EXCEPT ![c] = [front |-> "open", back |-> "connecting"]]
      /\ Become(r) /\ rd' = rd /\ wr' = wr /\ got' = got
  BY DEF accept, dataVars
<1> HIDE DEF r
<1>t. ChType
  BY DEF Channels
<1>2. /\ ch'[c]["front"] = "open" /\ ch'[c]["back"] = "connecting"
      /\ \A d \in Conns \ {c} : ch'[d] = ch[d]
  BY ZenonT(60), <1>1, <1>t DEF ChType
<1>3. \A t \in Sides : ~rd[c][t] /\ wr[c][t] = 0
  <2>1. ch[c]["back"] = "none"
    BY SMTT(30), <1>1, <1>s DEF Channels, Phase
  <2> QED
    BY ZenonT(60), <2>1, <1>1, <1>s DEF Channels, Phase, Sides
<1>4. Here.stat[c]["front"] = Null /\ Here.stat[c]["back"] = Null
  <2>1. ch[c]["back"] = "none"
    BY <1>1, <1>s DEF Channels, Phase
  <2> QED
    BY ZenonT(60), <2>1, <1>0, <1>1 DEF Statistics, Here
<1>5. /\ WF(r) /\ r.stat[c]["front"] # Null /\ r.heap[r.stat[c]["front"]] = Fresh(c, "front")
      /\ \A d \in Conns, t \in Sides : d # c \/ t # "front" => Kept(Here, r, d, t)
  BY <1>0, <1>4, <1>s, Create DEF r
<1>6. r.stat[c]["back"] = Null
  BY <1>4, <1>5, <1>s DEF Kept
<1>7. stat' = r.stat /\ heap' = r.heap
  BY <1>1 DEF Become
<1>8. heap'[stat'[c]["front"]] = Entry(c, "front", 0, 0, Null)
  BY ZenonT(60), <1>5, <1>7, <1>s, FreshObject
<1>9. Statistics(c)'
  <2>1. ASSUME NEW t \in Sides
        PROVE  /\ ~rd'[c][t] /\ wr'[c][Opp(t)] = 0 /\ ch'[c][t] # "gone"
               /\ ch'[c] # Both("open")
    BY <1>1, <1>2, <1>3, <1>s, Opposite DEF Both, Sides
  <2> QED
    BY ZenonT(60), <2>1, <1>2, <1>5, <1>6, <1>7, <1>8 DEF Statistics
<1> QED
  BY <1>1, <1>2, <1>5, <1>9, Others DEF Apart

(* connected registers the back and makes the two neighbours. *)
LEMMA ConnectedStat ==
    ASSUME Channels, StatInv, NEW c \in Conns, connected(c) PROVE StatInv'
<1> DEFINE q == create(Here, c, "back")
           r == neighbours(q, c)
<1>s. "front" \in Sides /\ "back" \in Sides /\ Opp("front") = "back" /\ Opp("back") = "front"
  BY DEF Sides, Opp
<1>0. WF(Here) /\ Statistics(c)
  BY DEF StatInv
<1>1. /\ ch[c]["back"] = "connecting" /\ ch' = [ch EXCEPT ![c]["back"] = "open"]
      /\ Become(r) /\ rd' = [rd EXCEPT ![c] = Both(TRUE)] /\ wr' = wr /\ got' = got
  BY DEF connected, dataVars
<1> HIDE DEF q, r
<1>t. ChType
  BY DEF Channels
<1>2. ch[c]["front"] = "open" /\ got[c]["front"] = 0 /\ got[c]["back"] = 0
  <2>1. Phase(c, "front") /\ Phase(c, "back")
    BY <1>s DEF Channels
  <2> QED
    BY <2>1, <1>1, <1>s DEF Phase
<1>3. /\ ch'[c]["front"] = "open" /\ ch'[c]["back"] = "open"
      /\ \A d \in Conns \ {c} : ch'[d] = ch[d] /\ rd'[d] = rd[d]
  <2>1. /\ ch'[c]["front"] = "open" /\ ch'[c]["back"] = "open"
        /\ \A d \in Conns \ {c} : ch'[d] = ch[d]
    BY <1>1, <1>2, <1>s, <1>t DEF ChType
  <2>2. \A d \in Conns \ {c} : rd'[d] = rd[d]
    BY <1>1, <1>t DEF ChType
  <2> QED
    BY <2>1, <2>2
<1>4. /\ Here.stat[c]["back"] = Null /\ Here.stat[c]["front"] # Null
      /\ Here.heap[Here.stat[c]["front"]] = Entry(c, "front", 0, 0, Null)
  BY ZenonT(60), <1>0, <1>1 DEF Statistics, Here
<1>5. /\ WF(q) /\ q.stat[c]["back"] # Null /\ q.heap[q.stat[c]["back"]] = Fresh(c, "back")
      /\ \A d \in Conns, t \in Sides : d # c \/ t # "back" => Kept(Here, q, d, t)
  BY <1>0, <1>4, <1>s, Create DEF q
<1>6. q.stat[c]["front"] # Null /\ q.heap[q.stat[c]["front"]] = Fresh(c, "front")
  <2>1. Reg(Here, c, "front")
    BY <1>4 DEF Reg, Entry
  <2>2. Kept(Here, q, c, "front")
    BY ZenonT(60), <1>5, <1>s
  <2> QED
    BY ZenonT(60), <2>1, <2>2, <1>4, <1>s, FreshObject DEF Kept
<1>7. /\ WF(r) /\ r.stat = q.stat
      /\ r.heap[q.stat[c]["front"]] = Entry(c, "front", 0, 0, q.stat[c]["back"])
      /\ r.heap[q.stat[c]["back"]] = Entry(c, "back", 0, 0, q.stat[c]["front"])
      /\ \A d \in Conns \ {c}, t \in Sides : Kept(q, r, d, t)
  <2>1. \A t \in Sides : q.stat[c][t] # Null /\ q.heap[q.stat[c][t]] = Fresh(c, t)
    BY ZenonT(60), <1>5, <1>6 DEF Sides
  <2> QED
    BY ZenonT(60), <1>5, <2>1, Neighbours DEF r
<1>8. \A d \in Conns \ {c}, t \in Sides : Kept(Here, r, d, t)
  BY <1>5, <1>7 DEF Kept
<1>9. stat' = r.stat /\ heap' = r.heap
  BY ZenonT(60), <1>1 DEF Become
<1>10. Statistics(c)'
  <2>1. /\ stat'[c]["front"] # Null /\ stat'[c]["back"] # Null
        /\ heap'[stat'[c]["front"]] = Entry(c, "front", got'[c]["front"], got'[c]["back"], stat'[c]["back"])
        /\ heap'[stat'[c]["back"]] = Entry(c, "back", got'[c]["back"], got'[c]["front"], stat'[c]["front"])
    BY ZenonT(60), <1>1, <1>2, <1>5, <1>6, <1>7, <1>9
  <2>2. \A t \in Sides : ch'[c][t] # "gone" /\ stat'[c][t] # Null
    BY <1>3, <2>1 DEF Sides
  <2>3. \A t \in Sides : heap'[stat'[c][t]] = Entry(c, t, got'[c][t], got'[c][Opp(t)], stat'[c][Opp(t)])
    BY ZenonT(60), <2>1, <1>s DEF Sides
  <2> QED
    BY ZenonT(60), <1>3, <2>2, <2>3 DEF Statistics
<1> QED
  BY ZenonT(60), <1>1, <1>3, <1>7, <1>8, <1>10, Others DEF Apart

(* connect_failed takes the front off the list. *)
LEMMA FailedStat ==
    ASSUME Channels, StatInv, NEW c \in Conns, connect_failed(c) PROVE StatInv'
<1> DEFINE r == removeStat(Here, c, "front")
<1>s. "front" \in Sides /\ "back" \in Sides /\ Opp("front") = "back" /\ Opp("back") = "front"
  BY DEF Sides, Opp
<1>0. WF(Here) /\ Statistics(c)
  BY DEF StatInv
<1>1. /\ ch[c]["back"] = "connecting" /\ ch' = [ch EXCEPT ![c] = [front |-> "closed", back |-> "gone"]]
      /\ Become(r) /\ rd' = rd /\ wr' = wr /\ got' = got
  BY DEF connect_failed, dataVars
<1> HIDE DEF r
<1>t. ChType
  BY DEF Channels
<1>2. /\ ch'[c]["front"] = "closed" /\ ch'[c]["back"] = "gone"
      /\ \A d \in Conns \ {c} : ch'[d] = ch[d]
  BY ZenonT(60), <1>1, <1>t DEF ChType
<1>3. ~rd[c]["front"] /\ ~rd[c]["back"]
  BY SMTT(30), <1>1, <1>s DEF Channels, Phase
<1>4. Here.stat[c]["back"] = Null
  BY <1>0, <1>1 DEF Statistics, Here
<1>5. /\ WF(r) /\ r.stat[c]["front"] = Null
      /\ \A d \in Conns, t \in Sides : d # c \/ t # "front" => Kept(Here, r, d, t)
  BY <1>0, <1>s, RemoveStat DEF r
<1>6. r.stat[c]["back"] = Null
  BY ZenonT(60), <1>4, <1>5, <1>s DEF Kept
<1>7. Statistics(c)'
  <2>1. \A t \in Sides : /\ ch'[c][t] \in Down /\ ~rd'[c][t]
                         /\ ~Reg(r, c, t) /\ ~Reg(r, c, Opp(t))
    BY <1>1, <1>2, <1>3, <1>5, <1>6, <1>s DEF Sides, Down, Reg
  <2> QED
    BY ZenonT(60), <2>1, <1>1, <1>5, <1>s, Settled DEF Down
<1> QED
  BY <1>1, <1>2, <1>5, <1>7, Others DEF Apart

(* channelRead counts the chunk; a backend that cannot forward it leaves   *)
(* the list.                                                               *)
LEMMA ReadStat ==
    ASSUME Channels, StatInv, NEW c \in Conns, NEW s \in Sides, channelRead(c, s) PROVE StatInv'
<1> DEFINE u == Opp(s)
           q == addIn(Here, stat[c][s])
           r == IF s = "back" THEN removeStat(q, c, s) ELSE q
<1>u. u \in Sides /\ u # s /\ Opp(u) = s /\ Opp(s) = u /\ \A t \in Sides : t = s \/ t = u
  BY Opposite
<1>0. WF(Here) /\ Statistics(c)
  BY DEF StatInv
<1>1. /\ ch[c][s] = "open" /\ rd[c][s] /\ ch' = ch
      /\ got' = [got EXCEPT ![c][s] = @ + 1] /\ rd' = [rd EXCEPT ![c][s] = FALSE]
  BY DEF channelRead
<1>c. \/ ch[c][u] = "open" /\ wr' = [wr EXCEPT ![c][u] = got'[c][s]] /\ Become(q)
      \/ ch[c][u] # "open" /\ wr' = wr /\ Become(r)
  BY DEF channelRead
<1> HIDE DEF u, q, r
<1>t. ChType
  BY DEF Channels
<1>2. /\ got'[c][s] = got[c][s] + 1 /\ got'[c][u] = got[c][u]
      /\ ~rd'[c][s] /\ rd'[c][u] = rd[c][u]
      /\ \A d \in Conns \ {c} : got'[d] = got[d] /\ rd'[d] = rd[d]
  BY ZenonT(60), <1>u, <1>1, <1>t DEF ChType
<1>3. Here.stat[c][s] # Null /\ Here.stat = stat /\ Here.heap = heap
  BY ZenonT(60), <1>0, <1>1 DEF Statistics, Here
<1>4. /\ WF(q) /\ q.stat = Here.stat
      /\ \A d \in Conns, t \in Sides : Reg(q, d, t) <=> Reg(Here, d, t)
      /\ \A d \in Conns \ {c}, t \in Sides : Kept(Here, q, d, t)
      /\ \A x, y \in Nat :
            /\ Here.stat[c][u] # Null
            /\ Here.heap[Here.stat[c][s]] = Entry(c, s, x, y, Here.stat[c][u])
            /\ Here.heap[Here.stat[c][u]] = Entry(c, u, y, x, Here.stat[c][s])
            => /\ q.heap[Here.stat[c][s]] = Entry(c, s, x + 1, y, Here.stat[c][u])
               /\ q.heap[Here.stat[c][u]] = Entry(c, u, y, x + 1, Here.stat[c][s])
  <2>1. q = addIn(Here, Here.stat[c][s])
    BY ZenonT(60), <1>3 DEF q
  <2>2. /\ WF(q) /\ q.stat = Here.stat
        /\ \A d \in Conns, t \in Sides : Reg(q, d, t) <=> Reg(Here, d, t)
        /\ \A d \in Conns \ {c}, t \in Sides : Kept(Here, q, d, t)
    BY ZenonT(60), <2>1, <1>0, <1>3, AddInKeeps
  <2>3. ASSUME NEW x \in Nat, NEW y \in Nat, Here.stat[c][u] # Null,
               Here.heap[Here.stat[c][s]] = Entry(c, s, x, y, Here.stat[c][u]),
               Here.heap[Here.stat[c][u]] = Entry(c, u, y, x, Here.stat[c][s])
        PROVE  /\ q.heap[Here.stat[c][s]] = Entry(c, s, x + 1, y, Here.stat[c][u])
               /\ q.heap[Here.stat[c][u]] = Entry(c, u, y, x + 1, Here.stat[c][s])
    BY ZenonT(60), <2>1, <2>3, <1>0, <1>3, AddInEntries DEF u
  <2> QED
    BY ZenonT(60), <2>2, <2>3
<1>5. \A t \in Sides : ch[c][t] \notin {"none", "connecting"}
  BY ZenonT(60), <1>1, Connected
<1>6. CASE ch[c][u] = "open" /\ wr' = [wr EXCEPT ![c][u] = got'[c][s]] /\ Become(q)
  <2>1. /\ wr'[c][s] = wr[c][s]
        /\ \A d \in Conns \ {c} : wr'[d] = wr[d]
    BY ZenonT(60), <1>6, <1>u, <1>t DEF ChType
  <2>2. stat' = stat /\ heap' = q.heap
    BY <1>3, <1>4, <1>6 DEF Become
  <2>3. ch[c] = Both("open")
    BY ZenonT(60), <1>1, <1>6, <1>u, <1>t DEF ChType, Both
  <2>4. /\ stat[c][s] # Null /\ stat[c][u] # Null
        /\ heap[stat[c][s]] = Entry(c, s, got[c][s], got[c][u], stat[c][u])
        /\ heap[stat[c][u]] = Entry(c, u, got[c][u], got[c][s], stat[c][s])
    BY ZenonT(60), <1>0, <1>u, <2>3 DEF Statistics
  <2>5. /\ heap'[stat[c][s]] = Entry(c, s, got'[c][s], got'[c][u], stat[c][u])
        /\ heap'[stat[c][u]] = Entry(c, u, got'[c][u], got'[c][s], stat[c][s])
    <3>1. got[c][s] \in Nat /\ got[c][u] \in Nat
      BY SMTT(30), <1>u, <1>t DEF ChType
    <3> QED
      BY ZenonT(60), <3>1, <2>2, <2>4, <1>2, <1>3, <1>4
  <2>6. Statistics(c)'
    <3>1. \A t \in Sides : ch'[c][t] = "open" /\ stat'[c][t] # Null
      BY ZenonT(60), <1>1, <1>6, <1>u, <2>2, <2>4
    <3>2. \A t \in Sides :
             heap'[stat'[c][t]] = Entry(c, t, got'[c][t], got'[c][Opp(t)], stat'[c][Opp(t)])
      BY <1>u, <2>2, <2>5
    <3>3. "front" \in Sides /\ "back" \in Sides
      BY DEF Sides
    <3> QED
      BY <3>1, <3>2, <3>3 DEF Statistics
  <2> QED
    BY ZenonT(60), <1>1, <1>2, <1>4, <1>6, <2>1, <2>6, Others DEF Apart
<1>7. CASE ch[c][u] # "open" /\ wr' = wr /\ Become(r)
  <2>1. /\ WF(r) /\ r.stat[c][u] = stat[c][u]
        /\ \A d \in Conns \ {c}, t \in Sides : Kept(Here, r, d, t)
        /\ Reg(r, c, u) <=> Reg(Here, c, u)
        /\ Reg(r, c, s) => Reg(Here, c, s)
    <3>1. CASE s = "back"
      <4>1. /\ WF(r) /\ r.stat[c][s] = Null
            /\ \A d \in Conns, t \in Sides : d # c \/ t # s => Kept(q, r, d, t)
        BY ZenonT(60), <3>1, <1>4, RemoveStat DEF r
      <4>2. \A d \in Conns \ {c}, t \in Sides : Kept(Here, r, d, t)
        BY SMTT(30), <4>1, <1>4 DEF Kept
      <4>3. Kept(q, r, c, u) /\ ~Reg(r, c, s)
        BY ZenonT(60), <4>1, <1>u DEF Reg
      <4> QED
        BY ZenonT(60), <4>1, <4>2, <4>3, <1>3, <1>4, <1>u DEF Kept
    <3>2. CASE s # "back"
      BY SMTT(30), <3>2, <1>3, <1>4, <1>u DEF r
    <3> QED
      BY ZenonT(60), <3>1, <3>2
  <2>2. wr[c][u] = 0
    BY ZenonT(60), <1>7, <1>u DEF Channels, Phase
  <2>3. rd[c][u] \/ (ch[c][u] = "open" /\ wr[c][s] # 0) => stat[c][u] # Null
    BY ZenonT(60), <1>0, <1>u DEF Statistics
  <2>4. ch[c][u] = "gone" => ~Reg(Here, c, u) /\ ~Reg(Here, c, s)
    BY ZenonT(60), <1>0, <1>u DEF Statistics
  <2>5. Statistics(c)'
    <3>1. \A t \in Sides : rd'[c][t] \/ (ch'[c][t] = "open" /\ wr'[c][Opp(t)] # 0) => r.stat[c][t] # Null
      BY ZenonT(60), <1>u, <1>1, <1>2, <1>7, <2>1, <2>2, <2>3
    <3>2. \A t \in Sides : ch'[c][t] = "gone" => ~Reg(r, c, t) /\ ~Reg(r, c, Opp(t))
      BY <1>u, <1>1, <2>1, <2>4
    <3>3. \E t \in Sides : ch'[c][t] # "open"
      BY <1>u, <1>1, <1>7
    <3>4. \A t \in Sides : ch'[c][t] \notin {"none", "connecting"}
      BY <1>1, <1>5
    <3> QED
      BY ZenonT(60), <3>1, <3>2, <3>3, <3>4, <2>1, <1>7, Settled
  <2> QED
    BY ZenonT(60), <1>1, <1>2, <1>7, <2>1, <2>5, Others DEF Apart
<1> QED
  BY <1>c, <1>6, <1>7

(* written and the steps of the peers change no statistics. *)
LEMMA WrittenStat ==
    ASSUME Channels, StatInv, NEW c \in Conns, NEW s \in Sides, written(c, s) PROVE StatInv'
<1> DEFINE u == Opp(s)
<1>u. u \in Sides /\ u # s /\ Opp(u) = s /\ Opp(s) = u /\ \A t \in Sides : t = s \/ t = u
  BY Opposite
<1>0. WF(Here) /\ Statistics(c)
  BY DEF StatInv
<1>1. /\ wr[c][s] # 0 /\ wr' = [wr EXCEPT ![c][s] = 0] /\ got' = got
      /\ rd' = [rd EXCEPT ![c] = [t \in Sides |-> IF t = s THEN @[t] /\ ~closing[c][s]
                                                  ELSE ch[c][t] = "open"]]
      /\ ch' = [ch EXCEPT ![c][s] = IF closing[c][s] THEN "closed" ELSE @]
      /\ UNCHANGED <<stat, heap, list>>
  BY ZenonT(60) DEF written, statVars
<1> HIDE DEF u
<1>t. ChType
  BY DEF Channels
<1>2. /\ wr'[c][s] = 0 /\ wr'[c][u] = wr[c][u]
      /\ ch'[c][u] = ch[c][u] /\ ch'[c][s] = IF closing[c][s] THEN "closed" ELSE ch[c][s]
      /\ rd'[c][s] = (rd[c][s] /\ ~closing[c][s]) /\ rd'[c][u] = (ch[c][u] = "open")
  BY <1>u, <1>1, <1>t DEF ChType
<1>3. \A d \in Conns \ {c} : wr'[d] = wr[d] /\ ch'[d] = ch[d] /\ rd'[d] = rd[d]
  BY <1>1, <1>t DEF ChType
<1>4. \A t \in Sides : ch[c][t] \notin {"none", "connecting"}
  BY <1>1, Connected
<1>5. ch[c][s] = "open"
  BY ZenonT(60), <1>1 DEF Channels, Phase
<1>6. Statistics(c)'
  <2>1. /\ rd[c][s] \/ (ch[c][s] = "open" /\ wr[c][u] # 0) => stat[c][s] # Null
        /\ ch[c][u] = "open" => stat[c][u] # Null
        /\ ch[c][u] = "gone" => ~Reg(Here, c, u) /\ ~Reg(Here, c, s)
    BY <1>0, <1>1, <1>u DEF Statistics
  <2>2. Here' = Here
    BY ZenonT(60), <1>1 DEF Here
  <2>3. ASSUME NEW t \in Sides
        PROVE  /\ ch'[c][t] \notin {"none", "connecting"}
               /\ rd'[c][t] \/ (ch'[c][t] = "open" /\ wr'[c][Opp(t)] # 0) => stat'[c][t] # Null
               /\ ch'[c][t] = "gone" => ~Reg(Here', c, t) /\ ~Reg(Here', c, Opp(t))
    <3>1. CASE t = s
      <4>1. ch'[c][s] \notin {"none", "connecting", "gone"}
        BY <1>2, <1>5
      <4>2. rd'[c][s] \/ (ch'[c][s] = "open" /\ wr'[c][u] # 0) => stat'[c][s] # Null
        BY ZenonT(60), <1>1, <1>2, <1>5, <2>1
      <4> QED
        BY ZenonT(60), <3>1, <4>1, <4>2, <1>u
    <3>2. CASE t = u
      BY ZenonT(60), <3>2, <1>u, <1>1, <1>2, <1>4, <2>1, <2>2
    <3> QED
      BY ZenonT(60), <3>1, <3>2, <1>u
  <2>4. ASSUME ch'[c] = Both("open"), NEW t \in Sides
        PROVE  /\ stat'[c][t] # Null
               /\ heap'[stat'[c][t]] = Entry(c, t, got'[c][t], got'[c][Opp(t)], stat'[c][Opp(t)])
    <3>1. ch[c] = Both("open")
      <4>1. ch'[c][s] = "open" /\ ch'[c][u] = "open"
        BY ZenonT(60), <2>4, <1>u DEF Both
      <4>2. ch[c][u] = "open"
        BY <4>1, <1>2
      <4> QED
        BY ZenonT(60), <4>2, <1>5, <1>u, <1>t DEF ChType, Both
    <3> QED
      BY <3>1, <1>0, <1>1 DEF Statistics
  <2>5. "front" \in Sides /\ "back" \in Sides
    BY DEF Sides
  <2> QED
    BY ZenonT(60), <2>3, <2>4, <2>5 DEF Statistics
<1>7. Become(Here)
  BY <1>1 DEF Become, Here
<1>8. \A d \in Conns, t \in Sides : Kept(Here, Here, d, t)
  BY DEF Kept
<1> QED
  BY ZenonT(60), <1>0, <1>1, <1>3, <1>6, <1>7, <1>8, Others DEF Apart

(* A channel is closed; ls is the list after the handler's own removals. *)
LEMMA CloseStat ==
    ASSUME Channels, StatInv, NEW c \in Conns, NEW s \in Sides,
           rd[c][s] \/ wr[c][s] # 0, NEW ls, WF(ls), CloseChannel(ls, c, s), got' = got,
           \A d \in Conns, t \in Sides : d # c \/ t # s => Kept(Here, ls, d, t),
           Reg(ls, c, s) => Reg(Here, c, s)
    PROVE  StatInv'
<1> DEFINE u == Opp(s)
           r == IF wr[c][s] # 0 THEN removeStat(ls, c, u) ELSE ls
<1>u. u \in Sides /\ u # s /\ Opp(u) = s /\ Opp(s) = u /\ \A t \in Sides : t = s \/ t = u
  BY Opposite
<1>0. WF(Here) /\ Statistics(c)
  BY DEF StatInv
<1>1. /\ ch' = [ch EXCEPT ![c][s] = "closed"] /\ rd' = [rd EXCEPT ![c][s] = FALSE]
      /\ wr' = [wr EXCEPT ![c][s] = 0] /\ Become(r)
  BY ZenonT(60) DEF CloseChannel
<1> HIDE DEF u, r
<1>t. ChType
  BY DEF Channels
<1>2. /\ ch'[c][s] = "closed" /\ ch'[c][u] = ch[c][u]
      /\ ~rd'[c][s] /\ rd'[c][u] = rd[c][u] /\ wr'[c][s] = 0
  BY <1>u, <1>1, <1>t DEF ChType
<1>3. \A d \in Conns \ {c} : wr'[d] = wr[d] /\ ch'[d] = ch[d] /\ rd'[d] = rd[d]
  BY <1>1, <1>t DEF ChType
<1>4. \A t \in Sides : ch[c][t] \notin {"none", "connecting"}
  BY Connected
<1>k. Kept(Here, ls, c, u) /\ \A d \in Conns \ {c}, t \in Sides : Kept(Here, ls, d, t)
  BY ZenonT(60), <1>u
<1>5. /\ WF(r) /\ \A d \in Conns \ {c}, t \in Sides : Kept(Here, r, d, t)
      /\ \A t \in Sides : Reg(r, c, t) => Reg(Here, c, t)
      /\ wr[c][s] = 0 => r.stat[c][u] = stat[c][u]
  <2>1. CASE wr[c][s] # 0
    <3>1. /\ WF(r) /\ r.stat[c][u] = Null
          /\ \A d \in Conns, t \in Sides : d # c \/ t # u => Kept(ls, r, d, t)
      BY ZenonT(60), <2>1, <1>u, RemoveStat DEF r
    <3>2. ASSUME NEW d \in Conns \ {c}, NEW t \in Sides PROVE Kept(Here, r, d, t)
      <4>1. Kept(Here, ls, d, t) /\ Kept(ls, r, d, t)
        BY ZenonT(60), <3>1, <1>k
      <4> QED
        BY ZenonT(60), <4>1 DEF Kept
    <3>3. ~Reg(r, c, u) /\ (Reg(r, c, s) <=> Reg(ls, c, s))
      BY ZenonT(60), <3>1, <1>u DEF Kept, Reg
    <3> QED
      BY ZenonT(60), <2>1, <3>1, <3>2, <3>3, <1>u
  <2>2. CASE wr[c][s] = 0
    <3>1. r = ls
      BY ZenonT(60), <2>2 DEF r
    <3>2. \A t \in Sides : Reg(ls, c, t) => Reg(Here, c, t)
      <4>1. Reg(ls, c, u) <=> Reg(Here, c, u)
        BY ZenonT(60), <1>k DEF Kept
      <4> QED
        BY ZenonT(60), <4>1, <1>u
    <3>3. ls.stat[c][u] = stat[c][u]
      BY ZenonT(60), <1>k DEF Kept, Here
    <3> QED
      BY ZenonT(60), <3>1, <3>2, <3>3, <1>k
  <2> QED
    BY ZenonT(60), <2>1, <2>2
<1>6. Statistics(c)'
  <2>1. /\ rd[c][u] => stat[c][u] # Null
        /\ ch[c][u] = "gone" => ~Reg(Here, c, u) /\ ~Reg(Here, c, s)
    BY ZenonT(60), <1>0, <1>u DEF Statistics
  <2>2. rd[c][u] => wr[c][s] = 0
    BY ZenonT(60), <1>u DEF Channels, Relay
  <2>3. \A t \in Sides : rd'[c][t] \/ (ch'[c][t] = "open" /\ wr'[c][Opp(t)] # 0) => r.stat[c][t] # Null
    BY ZenonT(60), <1>u, <1>2, <1>5, <2>1, <2>2
  <2>4. \A t \in Sides : ch'[c][t] = "gone" => ~Reg(r, c, t) /\ ~Reg(r, c, Opp(t))
    BY ZenonT(60), <1>u, <1>2, <1>5, <2>1
  <2>5. /\ \A t \in Sides : ch'[c][t] \notin {"none", "connecting"}
        /\ \E t \in Sides : ch'[c][t] # "open"
    BY <1>u, <1>2, <1>4
  <2> QED
    BY ZenonT(60), <2>3, <2>4, <2>5, <1>1, <1>5, Settled
<1> QED
  BY ZenonT(60), <1>1, <1>3, <1>5, <1>6, Others DEF Apart

(* The three ways a channel is closed. *)
LEMMA ClosingStat ==
    ASSUME Channels, StatInv, NEW c \in Conns, NEW s \in Sides,
           write_failed(c, s) \/ end_of_stream(c, s) \/ exceptionCaught(c, s)
    PROVE  StatInv'
<1>0. WF(Here)
  BY ZenonT(60) DEF StatInv
<1>1. CASE write_failed(c, s) \/ end_of_stream(c, s)
  <2>1. /\ rd[c][s] \/ wr[c][s] # 0
        /\ CloseChannel(Here, c, s) /\ got' = got
    BY <1>1 DEF write_failed, end_of_stream, dataVars
  <2>2. \A d \in Conns, t \in Sides : Kept(Here, Here, d, t)
    BY ZenonT(60) DEF Kept
  <2> QED
    BY ZenonT(60), <1>0, <2>1, <2>2, CloseStat
<1>2. CASE exceptionCaught(c, s)
  <2> DEFINE q == removeId(Here, <<c, s>>)
             r == removeStat(q, c, s)
  <2>1. rd[c][s] /\ CloseChannel(r, c, s) /\ got' = got
    BY <1>2 DEF exceptionCaught, dataVars
  <2>2. /\ WF(q) /\ \A d \in Conns, t \in Sides : d # c \/ t # s => Kept(Here, q, d, t)
    BY ZenonT(60), <1>0, RemoveId
  <2> HIDE DEF q
  <2>3. /\ WF(r) /\ r.stat[c][s] = Null
        /\ \A d \in Conns, t \in Sides : d # c \/ t # s => Kept(q, r, d, t)
    BY ZenonT(60), <2>2, RemoveStat
  <2> HIDE DEF r
  <2>4. ~Reg(r, c, s)
    BY ZenonT(60), <2>3 DEF Reg
  <2>5. ASSUME NEW d \in Conns, NEW t \in Sides, d # c \/ t # s PROVE Kept(Here, r, d, t)
    <3>1. Kept(Here, q, d, t) /\ Kept(q, r, d, t)
      BY ZenonT(60), <2>2, <2>3, <2>5
    <3> QED
      BY ZenonT(60), <3>1 DEF Kept
  <2> QED
    BY ZenonT(60), <2>1, <2>3, <2>4, <2>5, CloseStat
<1> QED
  BY <1>1, <1>2

(* channelInactive takes both sides off the list. *)
LEMMA InactiveStat ==
    ASSUME Channels, StatInv, NEW c \in Conns, NEW s \in Sides, channelInactive(c, s)
    PROVE  StatInv'
<1> DEFINE u == Opp(s)
           q == removeId(Here, <<c, u>>)
           r == removeStat(q, c, s)
<1>u. u \in Sides /\ u # s /\ Opp(u) = s /\ Opp(s) = u /\ \A t \in Sides : t = s \/ t = u
  BY Opposite
<1>0. WF(Here) /\ Statistics(c)
  BY DEF StatInv
<1>1. /\ ch[c][s] = "closed"
      /\ ch' = [ch EXCEPT ![c][s] = "gone",
                          ![c][u] = IF @ = "open" /\ wr[c][u] = 0 THEN "closed" ELSE @]
      /\ rd' = [rd EXCEPT ![c][u] = @ /\ ch[c][u] = "open" /\ wr[c][u] # 0]
      /\ wr' = wr /\ got' = got /\ Become(r)
  BY <1>u DEF channelInactive, closeOnFlush, dataVars
<1>2. /\ WF(q) /\ q.stat = stat /\ ~Reg(q, c, u)
      /\ \A d \in Conns, t \in Sides : d # c \/ t # u => Kept(Here, q, d, t)
  BY SMTT(30), <1>0, <1>u, RemoveId DEF Here
<1> HIDE DEF q
<1>3. /\ WF(r) /\ r.stat[c][s] = Null
      /\ \A d \in Conns, t \in Sides : d # c \/ t # s => Kept(q, r, d, t)
  BY <1>2, RemoveStat
<1> HIDE DEF u, r
<1>4. /\ \A d \in Conns \ {c}, t \in Sides : Kept(Here, r, d, t)
      /\ ~Reg(r, c, s) /\ ~Reg(r, c, u) /\ r.stat[c][u] = stat[c][u]
  <2>1. \A d \in Conns \ {c}, t \in Sides : Kept(Here, r, d, t)
    BY <1>2, <1>3 DEF Kept
  <2>2. Kept(q, r, c, u)
    BY ZenonT(60), <1>3, <1>u
  <2> QED
    BY ZenonT(60), <2>1, <2>2, <1>2, <1>3 DEF Kept, Reg
<1>t. ChType
  BY DEF Channels
<1>5. /\ ch'[c][s] = "gone"
      /\ ch'[c][u] = IF ch[c][u] = "open" /\ wr[c][u] = 0 THEN "closed" ELSE ch[c][u]
      /\ rd'[c][s] = rd[c][s] /\ rd'[c][u] = (rd[c][u] /\ ch[c][u] = "open" /\ wr[c][u] # 0)
  BY ZenonT(60), <1>u, <1>1, <1>t DEF ChType
<1>6. \A d \in Conns \ {c} : ch'[d] = ch[d] /\ rd'[d] = rd[d]
  BY <1>1, <1>t DEF ChType
<1>7. \A t \in Sides : ch[c][t] \notin {"none", "connecting"}
  BY <1>1, Connected DEF Down
<1>8. Statistics(c)'
  <2>1. ~rd[c][s] /\ wr[c][s] = 0
    BY ZenonT(60), <1>1 DEF Channels, Phase
  <2>2. rd[c][u] => stat[c][u] # Null
    BY <1>0, <1>u DEF Statistics
  <2>3. \A t \in Sides : rd'[c][t] \/ (ch'[c][t] = "open" /\ wr'[c][Opp(t)] # 0) => r.stat[c][t] # Null
    BY ZenonT(60), <1>u, <1>1, <1>4, <1>5, <2>1, <2>2
  <2>4. \A t \in Sides : ~Reg(r, c, t) /\ ~Reg(r, c, Opp(t))
    BY ZenonT(60), <1>u, <1>4
  <2>5. /\ \A t \in Sides : ch'[c][t] \notin {"none", "connecting"}
        /\ \E t \in Sides : ch'[c][t] # "open"
    BY <1>u, <1>5, <1>7
  <2> QED
    BY ZenonT(60), <2>3, <2>4, <2>5, <1>1, <1>3, Settled
<1> QED
  BY ZenonT(60), <1>1, <1>3, <1>4, <1>6, <1>8, Others DEF Apart

(* Every step keeps the invariant of the statistics. *)
LEMMA StatStep == ASSUME Channels, StatInv, [Next]_vars PROVE StatInv'
<1>1. ASSUME NEW c \in Conns, Handler(c) PROVE StatInv'
  BY <1>1, ConnectedStat, FailedStat, ReadStat, WrittenStat, ClosingStat, InactiveStat DEF Handler
<1>2. ASSUME UNCHANGED <<ch, rd, wr, got, stat, heap, list>> PROVE StatInv'
  <2>1. Here' = Here
    BY <1>2 DEF Here
  <2>2. WF(Here)'
    BY SMTT(30), <2>1 DEF StatInv
  <2>3. ASSUME NEW d \in Conns PROVE Statistics(d)'
    BY ZenonT(60), <1>2, <2>1 DEF StatInv, Statistics
  <2> QED
    BY <2>2, <2>3 DEF StatInv
<1>3. ASSUME NEW c \in Conns, NEW s \in Sides,
             peer_send(c, s) \/ \E how \in {"fin", "rst"} : peer_leaves(c, s, how)
      PROVE  StatInv'
  BY <1>2, <1>3 DEF peer_send, peer_leaves, chVars, dataVars, statVars
<1>4. CASE UNCHANGED vars
  BY <1>2, <1>4 DEF vars, chVars, dataVars, statVars
<1> QED
  BY ZenonT(60), <1>1, <1>3, <1>4, AcceptStat DEF Next

(* The list at the start. *)
LEMMA StatInit == Init => StatInv
<1> SUFFICES ASSUME Init PROVE StatInv
  OBVIOUS
<1>1. /\ Here = [stat |-> [c \in Conns |-> Both(Null)], heap |-> << >>, list |-> << >>]
      /\ Here.stat = [c \in Conns |-> Both(Null)] /\ Len(Here.heap) = 0 /\ Len(Here.list) = 0
  BY DEF Init, Here
<1>2. \A c \in Conns, s \in Sides : Here.stat[c][s] = Null
  BY ZenonT(60), <1>1 DEF Both
<1>3. ListType(Here)
  <2>1. Here \in [stat : [Conns -> [Sides -> Nat \cup {Null}]], heap : Seq(Stats), list : Seq(Nat)]
    BY SMTT(30), <1>1 DEF Both
  <2> QED
    BY SMTT(30), <1>1, <1>2, <2>1 DEF ListType, Ref
<1>4. OwnSlots(Here) /\ UsedListed(Here) /\ FreeIsNew(Here) /\ OwnStat(Here)
  BY SMTT(30), <1>1, <1>2 DEF OwnSlots, UsedListed, FreeIsNew, OwnStat
<1>5. ASSUME NEW c \in Conns PROVE Statistics(c)
  <2>1. "front" \in Sides /\ "back" \in Sides
    BY DEF Sides
  <2>2. \A s \in Sides : ch[c][s] = "none" /\ ~rd[c][s] /\ wr[c][s] = 0 /\ stat[c][s] = Null
    BY ZenonT(60) DEF Init, Both
  <2>3. ch[c] # Both("open")
    BY <2>1, <2>2 DEF Both
  <2> QED
    BY <2>1, <2>2, <2>3 DEF Statistics
<1> QED
  BY ZenonT(60), <1>3, <1>4, <1>5 DEF StatInv, WF

-----------------------------------------------------------------------------
(***************************************************************************)
(* The inductive invariant, and what follows from it.                      *)
(***************************************************************************)
THEOREM Invariance == Spec => []IInv
<1>1. Init => IInv
  BY ChannelInit, StatInit DEF IInv, StatInv
<1>2. IInv /\ [Next]_vars => IInv'
  <2> SUFFICES ASSUME IInv, [Next]_vars PROVE IInv'
    OBVIOUS
  <2>1. Channels /\ StatInv
    BY DEF IInv, StatInv
  <2>2. Channels' /\ StatInv'
    BY <2>1, ChannelStep, StatStep
  <2> QED
    BY <2>2 DEF IInv, StatInv
<1> QED
  BY <1>1, <1>2, PTL DEF Spec

(* Type correctness of the channels, the streams and the list. *)
THEOREM TypeCorrect == Spec => []TypeOK
<1>1. IInv => TypeOK
  <2> SUFFICES ASSUME IInv PROVE TypeOK
    OBVIOUS
  <2> DEFINE n == Len(heap)
             T == [id : (Conns \X Sides) \cup {Null}, empty : BOOLEAN, front : BOOLEAN,
                   in : Nat, out : Nat, nb : 1 .. n \cup {Null}]
  <2>1. ChType /\ ListType(Here)
    BY DEF IInv, Channels, WF
  <2>2. /\ stat \in [Conns -> [Sides -> Nat \cup {Null}]] /\ heap \in Seq(Stats) /\ list \in Seq(Nat)
        /\ \A c \in Conns, s \in Sides : stat[c][s] \in Ref(n)
        /\ \A o \in 1 .. n : heap[o].nb \in Ref(n)
        /\ \A i \in 1 .. Len(list) : list[i] \in 1 .. n
    BY <2>1 DEF ListType, Here
  <2>3. DOMAIN heap = 1 .. n /\ n \in Nat
    BY <2>2
  <2>4. stat \in [Conns -> [Sides -> 1 .. n \cup {Null}]]
    BY <2>2 DEF Ref
  <2>5. heap \in Seq(T)
    <3>1. ASSUME NEW o \in 1 .. n PROVE heap[o] \in T
      <4>1. heap[o] \in Stats /\ heap[o].nb \in 1 .. n \cup {Null}
        BY <2>2 DEF Ref
      <4> QED
        BY <4>1 DEF Stats
    <3> HIDE DEF T
    <3> QED
      BY <3>1, <2>2, <2>3
  <2>6. list \in Seq(1 .. n)
    BY SMTT(30), <2>2
  <2> QED
    BY ZenonT(60), <2>1, <2>3, <2>4, <2>5, <2>6 DEF ChType, TypeOK
<1> QED
  BY <1>1, Invariance, PTL

(***************************************************************************)
(* The relay never reorders, repeats or skips a chunk: what a peer gets is *)
(* a prefix of what the other one sent, for every number of chunks and     *)
(* wherever the channels close.                                            *)
(***************************************************************************)
THEOREM InOrder == Spec => []RelayedInOrder
<1>1. IInv => RelayedInOrder
  BY ZenonT(60) DEF IInv, Channels, Relay, RelayedInOrder
<1> QED
  BY <1>1, Invariance, PTL

(***************************************************************************)
(* A peer that sends and then closes loses nothing.                        *)
(***************************************************************************)
THEOREM NothingLost == Spec => []FlushedBeforeClose
<1>1. IInv => FlushedBeforeClose
  BY DEF IInv, Channels, Flushed, Down, FlushedBeforeClose
<1> QED
  BY <1>1, Invariance, PTL

(***************************************************************************)
(* No handler dereferences a stat_channel that is null.                    *)
(***************************************************************************)
THEOREM NoNullStat == Spec => []StatPresent
<1>1. IInv => StatPresent
  BY ZenonT(60) DEF IInv, Statistics, StatPresent
<1> QED
  BY <1>1, Invariance, PTL

(***************************************************************************)
(* The entries of an open connection are in the list, and their counters   *)
(* agree with the data relayed, whatever other connections do to the list. *)
(***************************************************************************)
THEOREM ListedExactly == Spec => []ListedWhileOpen
<1>1. IInv => ListedWhileOpen
  <2> SUFFICES ASSUME IInv, NEW c \in Conns, ch[c] = Both("open"), NEW s \in Sides
               PROVE  /\ \E i \in DOMAIN list : list[i] = stat[c][s]
                      /\ heap[stat[c][s]] = [id |-> <<c, s>>, empty |-> FALSE, front |-> s = "front",
                            in |-> got[c][s], out |-> got[c][Opp(s)], nb |-> stat[c][Opp(s)]]
    BY ZenonT(60) DEF ListedWhileOpen
  <2>1. /\ stat[c][s] # Null
        /\ heap[stat[c][s]] = Entry(c, s, got[c][s], got[c][Opp(s)], stat[c][Opp(s)])
    BY ZenonT(60) DEF IInv, Statistics
  <2>2. Reg(Here, c, s)
    BY SMTT(30), <2>1 DEF Reg, Here, Entry
  <2>3. Listed(Here, Here.stat[c][s])
    BY ZenonT(60), <2>2, Registration DEF IInv
  <2>4. DOMAIN list = 1 .. Len(list) /\ Here.list = list /\ Here.stat = stat
    BY DEF IInv, WF, ListType, Here
  <2>5. \E i \in DOMAIN list : list[i] = stat[c][s]
    BY ZenonT(60), <2>3, <2>4 DEF Listed
  <2> QED
    BY <2>1, <2>5, Zenon DEF Entry
<1> QED
  BY <1>1, Invariance, PTL

(***************************************************************************)
(* The list keeps no entry of a connection that is gone.                   *)
(***************************************************************************)
THEOREM ListedNoLonger == Spec => []NothingLeftListed
<1>1. IInv => NothingLeftListed
  <2> SUFFICES ASSUME IInv, NEW c \in Conns, ch[c] = Both("gone"), NEW s \in Sides, Registered(c, s)
               PROVE  FALSE
    BY ZenonT(60) DEF NothingLeftListed
  <2>1. ~Reg(Here, c, s)
    BY DEF IInv, Statistics, Both
  <2>2. PICK i \in DOMAIN list : heap[list[i]].id = <<c, s>> /\ ~heap[list[i]].empty
    BY DEF Registered
  <2>3. ListType(Here) /\ UsedListed(Here)
    BY ZenonT(60) DEF IInv, WF
  <2>4. list[i] \in 1 .. Len(heap) /\ list[i] # Null
    BY SMTT(30), <2>3, NullAssumption DEF ListType, Here
  <2>5. PICK d \in Conns, t \in Sides : heap[list[i]].id = <<d, t>> /\ stat[d][t] = list[i]
    BY ZenonT(60), <2>2, <2>3, <2>4 DEF UsedListed, Here
  <2>6. stat[c][s] = list[i]
    BY <2>2, <2>5
  <2> QED
    BY <2>1, <2>2, <2>4, <2>6 DEF Reg, Here
<1> QED
  BY <1>1, Invariance, PTL
=============================================================================
