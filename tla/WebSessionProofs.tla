-------------------------- MODULE WebSessionProofs --------------------------
(***************************************************************************)
(* Theorems about WebSession, for any proxies, addresses and policy and    *)
(* any number of faults, wrong tokens and ticks: a tab whose connections   *)
(* fit into the free allowance is never refused as too soon.               *)
(***************************************************************************)
EXTENDS WebSession, FiniteSetTheorems, TLAPS

Own   == Slots \ {"neighbour"}
Kinds == {"none", "queue", "probe", "login", "stream", "other", "gone"}
Slot  == [kind : Kinds, pc : {"idle", "sent", "clocked", "checked", "answered"}, tok : Tokens,
          at : Nat, snap : Nat, ans : {"none", "ok"} \cup Refused]

-----------------------------------------------------------------------------
(* Whom the server counts a request for.                                   *)

\* Behind proxies the server knows, a client is the address it calls from.
LEMMA ClientIsAddress ==
  ASSUME NeighbourIsApart, net \in Networks, NEW a \in {net.mine, net.theirs}
  PROVE  ClientId(a) = a
<1> DEFINE route == net.route
           peer  == IF route = <<>> THEN a ELSE Last(route)
           chain == IF route = <<>> THEN <<>> ELSE <<a>> \o Front(route)
           I     == {i \in 1..Len(chain) : chain[i] \notin Trusted}
           nearest == IF I # {} THEN Max(I) ELSE 0
<1>0. route \in Seq(Addresses) /\ a \notin Trusted /\ a \in Addresses
      /\ \A i \in DOMAIN route : route[i] \in Trusted
  BY WebSessionAssumption DEF NeighbourIsApart
<1>1. ClientId(a) = IF peer \notin Trusted \/ nearest = 0 THEN peer ELSE chain[nearest]
  BY DEF ClientId, SelectLastInSeq
<1>2. CASE route = <<>>
  BY <1>0, <1>1, <1>2
<1>3. CASE route # <<>>
  <2>1. peer \in Trusted
    BY <1>0, <1>3 DEF Last
  <2>2. Front(route) \in Seq(Addresses) /\ \A i \in 1..Len(Front(route)) : Front(route)[i] \in Trusted
    BY <1>0, <1>3 DEF Front
  <2>3. chain \in Seq(Addresses) /\ Len(chain) = Len(Front(route)) + 1 /\ chain[1] = a
        /\ \A i \in 2..Len(chain) : chain[i] = Front(route)[i - 1]
    BY <1>0, <1>3, <2>2
  <2>4. I = {1}
    BY <1>0, <2>2, <2>3
  <2>5. nearest = 1
    BY <2>4 DEF Max
  <2> HIDE DEF nearest, peer, chain
  <2> QED BY <1>1, <2>1, <2>3, <2>5
<1> QED BY <1>2, <1>3

-----------------------------------------------------------------------------
(* The inductive invariant.                                                *)

\* A tab sends the right token or none, and only a token gets as far as the throttle.
Carries(r) ==
  /\ r.tok \in {"none", "right"}
  /\ r.pc \in {"clocked", "checked"} => r.tok = "right"
  /\ r.tok = "right" => r.ans \in {"none", "ok"}
  /\ r.ans # "throttled"

TabInv ==
  /\ slots \in [Slots -> Slot] /\ clock \in Nat /\ queue \in Nat /\ net \in Networks
  /\ cookie \in {"none", "right"} /\ form \in BOOLEAN
  /\ stream # "connecting" => slots["stream"].pc = "idle"
  /\ \A s \in Own : Carries(slots[s])
  /\ cookie = "right" =>
       ~form /\ \A s \in Own : /\ slots[s].kind # "login"
                               /\ slots[s].kind \in {"queue", "probe", "stream"} => slots[s].tok = "right"
  /\ cookie = "none" => slots["stream"].tok = "none"

\* Checked and not yet compared: what has been counted and will take its count back.
Checked == {s \in Own : slots[s].pc = "checked"}

\* A bucket that counts no more than is free gates nothing after the moment it was last used.
Open(b) ==
  /\ b.count \in Nat /\ b.first \in Nat /\ b.last \in Nat
  /\ b.count <= Free => b.next \in Nat /\ b.next <= b.last

BucketInv ==
  /\ net.mine \in DOMAIN buckets
  /\ Open(buckets[net.mine])
  /\ buckets[net.mine].count <= Cardinality(Checked)

SessionInv == TabInv /\ BucketInv

\* The connections, the event stream's among them, are one more than the free allowance at most.
FitsAllowance == IsFiniteSet(Fetches) /\ Cardinality(Fetches) <= Free

LEMMA OwnFinite ==
  ASSUME FitsAllowance
  PROVE  /\ IsFiniteSet(Own)
         /\ Cardinality(Own) = Cardinality(Fetches) + 1
         /\ Cardinality(Fetches) \in Nat
<1>1. Own = Fetches \cup {"stream"} /\ "stream" \notin Fetches
  BY WebSessionAssumption DEF Own, Slots
<1> QED BY <1>1, FS_AddElement, FS_CardinalityType DEF FitsAllowance

\* While one of the page's requests is yet to be checked, the others do not exceed the allowance.
LEMMA RoomForOne ==
  ASSUME FitsAllowance, NEW s \in Own, slots[s].pc # "checked"
  PROVE  /\ IsFiniteSet(Checked) /\ Cardinality(Checked) \in Nat
         /\ Cardinality(Checked) <= Free
         /\ Cardinality(Checked \cup {s}) = Cardinality(Checked) + 1
<1>1. IsFiniteSet(Own \ {s}) /\ Cardinality(Own \ {s}) = Cardinality(Fetches)
  BY OwnFinite, FS_RemoveElement
<1>2. Checked \subseteq Own \ {s} /\ s \notin Checked
  BY DEF Checked
<1>3. IsFiniteSet(Checked) /\ Cardinality(Checked) <= Cardinality(Own \ {s})
  BY <1>1, <1>2, FS_Subset
<1>4. Free \in Nat
  BY WebSessionAssumption
<1>5. Cardinality(Checked) \in Nat
  BY <1>3, FS_CardinalityType
<1>6. Cardinality(Checked \cup {s}) = Cardinality(Checked) + 1
  BY <1>2, <1>3, FS_AddElement
<1>7. Cardinality(Checked) <= Free
  BY <1>1, <1>3, <1>4, <1>5, OwnFinite DEF FitsAllowance
<1> QED BY <1>3, <1>5, <1>6, <1>7

LEMMA CheckedFinite ==
  ASSUME FitsAllowance PROVE IsFiniteSet(Checked) /\ Cardinality(Checked) \in Nat
<1>1. Checked \subseteq Own
  BY DEF Checked
<1> QED BY <1>1, OwnFinite, FS_Subset, FS_CardinalityType

-----------------------------------------------------------------------------
(* The throttle.                                                           *)

\* A request checked in an open bucket with room is let through, and leaves the bucket open.
LEMMA OpenLetsThrough ==
  ASSUME NEW b, NEW at \in Nat, Open(b), b.count <= Free,
         NEW now, now = EffectiveNow(b, at), NEW w, w = Windowed(b, now)
  PROVE  /\ ~(now < w.next)
         /\ Open(Reserve(w, now)) /\ Reserve(w, now).count <= b.count + 1
<1>0. Free \in Nat /\ Window \in Nat
  BY WebSessionAssumption
<1>1. now \in Nat /\ (b.count # 0 => b.last <= now)
  BY DEF Open, EffectiveNow, Larger
<1>2. /\ w.count \in Nat /\ w.first \in Nat /\ w.next \in Nat /\ w.next <= now
      /\ w.count <= b.count
  BY <1>0, <1>1 DEF Open, Windowed
<1>3. w.count + 1 <= Free => SpacingFor(w.count + 1) = 0
  BY <1>0, <1>2 DEF SpacingFor
<1> DEFINE n == now + SpacingFor(w.count + 1)
<1>4. w.count + 1 <= Free => n \in Nat /\ n <= now
  BY <1>1, <1>3
<1> HIDE DEF n
<1>5. Reserve(w, now) = [count |-> w.count + 1, first |-> w.first, next |-> n, last |-> now]
  BY DEF Reserve, n
<1> QED BY <1>1, <1>2, <1>4, <1>5 DEF Open

\* A step that touches neither the bucket nor what is checked.
LEMMA SameCount ==
  ASSUME BucketInv, buckets' = buckets, net' = net,
         \A s \in Own : slots'[s].pc = "checked" <=> slots[s].pc = "checked"
  PROVE  BucketInv'
<1>1. Checked' = Checked
  BY DEF Checked
<1> QED BY <1>1 DEF BucketInv, Open

\* A request that has been sent and gets further, or is done with.
LEMMA MovesOn ==
  ASSUME TabInv, NEW s \in Own, slots[s].pc # "idle",
         slots' \in [Slots -> Slot], \A r \in Own \ {s} : slots'[r] = slots[r],
         UNCHANGED tab, clock' \in Nat, queue' \in Nat, net' = net,
         Carries(slots'[s]),
         slots'[s] = Idle \/ (slots'[s].kind = slots[s].kind /\ slots'[s].tok = slots[s].tok)
  PROVE  TabInv'
<1> USE DEF tab
<1>0. "stream" \in Slots /\ s \in Slots
  BY DEF Slots, Own
<1>1. s = "stream" => stream = "connecting"
  BY DEF TabInv
<1>2. \A r \in Own : Carries(slots'[r])
  BY DEF TabInv, Carries
<1>3. stream' # "connecting" => slots'["stream"].pc = "idle"
  BY <1>1 DEF TabInv, Own, Slots
<1>4. cookie' = "none" => slots'["stream"].tok = "none"
  BY DEF TabInv, Own, Slots, Idle
<1>5. cookie' = "right" => ~form' /\ \A r \in Own : slots'[r].kind # "login"
        /\ (slots'[r].kind \in {"queue", "probe", "stream"} => slots'[r].tok = "right")
  BY DEF TabInv, Idle
<1> QED BY <1>2, <1>3, <1>4, <1>5 DEF TabInv

\* What the server does for the tab.
LEMMA ServesTab ==
  ASSUME FitsAllowance, NeighbourIsApart, SessionInv, NEW s \in Own, ServerNext(s)
  PROVE  SessionInv'
<1> USE DEF server, tab, Own, SessionInv
<1>0. /\ slots \in [Slots -> Slot] /\ s \in Slots /\ s # "neighbour" /\ slots[s] \in Slot
      /\ net \in Networks /\ net.mine \in DOMAIN buckets
  BY DEF TabInv, BucketInv
<1>1. Source(s) = net.mine
  BY <1>0, ClientIsAddress DEF Source
<1>2. CASE ReadsClock(s)
  <2>1. slots[s].pc = "sent" /\ UNCHANGED <<server, tab, buckets, clock, net>>
    BY <1>2 DEF ReadsClock
  <2>2. slots' \in [Slots -> Slot] /\ \A r \in Own \ {s} : slots'[r] = slots[r]
    BY <1>0, <1>2 DEF ReadsClock, Answered, Slot, Kinds, Refused, Tokens, TabInv, Idle
  <2>3. /\ slots'[s].kind = slots[s].kind \/ slots'[s] = Idle
        /\ slots'[s].tok = slots[s].tok \/ slots'[s] = Idle
        /\ slots[s].tok = "none" => slots'[s].ans \in {"none", "missing"}
                                    /\ slots'[s].pc \in {"answered", "idle"}
        /\ slots[s].tok # "none" => slots'[s].ans = slots[s].ans /\ slots'[s].pc = "clocked"
    BY <1>0, <1>2 DEF ReadsClock, Answered, Slot, Idle
  <2>4. TabInv'
    <3>1. Carries(slots'[s])
      BY <1>0, <2>1, <2>3 DEF TabInv, Carries, Idle
    <3>2. slots'[s] = Idle \/ (slots'[s].kind = slots[s].kind /\ slots'[s].tok = slots[s].tok)
      BY <2>3
    <3> QED BY <2>1, <2>2, <3>1, <3>2, MovesOn DEF TabInv
  <2>5. BucketInv'
    BY <2>1, <2>2, <2>3, SameCount DEF TabInv, Idle, Carries
  <2> QED BY <2>4, <2>5
<1>3. CASE Check(s)
  <2> DEFINE b   == buckets[net.mine]
             now == EffectiveNow(b, slots[s].at)
             w   == Windowed(b, now)
  <2>1. Open(b) /\ b.count <= Cardinality(Checked) /\ slots[s].pc = "clocked" /\ slots[s].at \in Nat
    BY <1>0, <1>3 DEF BucketInv, Check, Slot
  <2>2. b.count <= Free /\ Cardinality(Checked \cup {s}) = Cardinality(Checked) + 1
        /\ Cardinality(Checked) \in Nat
    <3>1. IsFiniteSet(Checked) /\ Cardinality(Checked) \in Nat /\ Cardinality(Checked) <= Free
          /\ Cardinality(Checked \cup {s}) = Cardinality(Checked) + 1
      BY <2>1, RoomForOne
    <3> QED BY <2>1, <3>1, WebSessionAssumption DEF Open
  <2>3. /\ ~(now < w.next)
        /\ Open(Reserve(w, now)) /\ Reserve(w, now).count <= b.count + 1
    <3> HIDE DEF b
    <3> QED BY <2>1, <2>2, OpenLetsThrough
  <2>4. /\ slots' = [slots EXCEPT ![s].pc = "checked", ![s].at = 0]
        /\ buckets' = [buckets EXCEPT ![net.mine] = Reserve(w, now)]
        /\ UNCHANGED <<server, tab, clock, net>>
    BY <1>1, <1>3, <2>3 DEF Check
  <2> HIDE DEF b, now, w
  <2>5. TabInv'
    <3>1. slots' \in [Slots -> Slot] /\ \A r \in Own \ {s} : slots'[r] = slots[r]
      BY <1>0, <2>4 DEF Slot
    <3>2. slots'[s].kind = slots[s].kind /\ slots'[s].tok = slots[s].tok
          /\ slots'[s].pc = "checked" /\ slots'[s].ans = slots[s].ans
      BY <1>0, <2>4 DEF Slot
    <3>3. Carries(slots'[s])
      BY <2>1, <3>2 DEF TabInv, Carries
    <3> QED BY <2>1, <2>4, <3>1, <3>2, <3>3, MovesOn DEF TabInv
  <2>6. Checked' = Checked \cup {s}
    BY <1>0, <2>4 DEF Checked, Slot
  <2>7. buckets'[net'.mine] = Reserve(w, now) /\ net'.mine \in DOMAIN buckets'
    BY <1>0, <2>4
  <2>8. Reserve(w, now).count <= Cardinality(Checked')
    BY <2>1, <2>2, <2>3, <2>6 DEF Open
  <2> QED BY <2>3, <2>5, <2>7, <2>8 DEF BucketInv, Open
<1>4. CASE Serve(s)
  <2>1. slots[s].pc = "checked" /\ slots[s].tok = "right"
        /\ UNCHANGED <<tab, clock, net, queue>>
        /\ buckets' = [buckets EXCEPT ![net.mine] = NoBucket]
        /\ slots' = IF slots[s].kind = "queue" THEN ReadsQueue(s) ELSE Answered(s, "ok")
    BY <1>0, <1>1, <1>4 DEF Serve, TabInv, Carries
  <2>2. slots' \in [Slots -> Slot] /\ \A r \in Own \ {s} : slots'[r] = slots[r]
    BY <1>0, <2>1 DEF ReadsQueue, Answered, Slot, Idle, Kinds, Refused, Tokens, TabInv
  <2>3. \/ slots'[s] = Idle
        \/ /\ slots'[s].tok = "right" /\ slots'[s].ans = "ok" /\ slots'[s].pc = "answered"
           /\ slots'[s].kind = slots[s].kind
    BY <1>0, <2>1 DEF ReadsQueue, Answered, Slot, Idle
  <2>4. TabInv'
    <3>1. Carries(slots'[s]) /\ (slots'[s] = Idle \/ (slots'[s].kind = slots[s].kind /\ slots'[s].tok = slots[s].tok))
      BY <2>1, <2>3 DEF Carries, Idle
    <3> QED BY <2>1, <2>2, <3>1, MovesOn DEF TabInv
  <2>5. buckets'[net'.mine] = NoBucket /\ net'.mine \in DOMAIN buckets'
    BY <1>0, <2>1
  <2>6. Cardinality(Checked') \in Nat
    <3>1. Checked' \subseteq Own
      BY DEF Checked
    <3> QED BY <3>1, OwnFinite, FS_Subset, FS_CardinalityType
  <2> QED BY <2>4, <2>5, <2>6 DEF BucketInv, Open, NoBucket
<1> QED BY <1>2, <1>3, <1>4 DEF ServerNext

\* Steps that leave the tab's connections alone.
LEMMA TabRests ==
  ASSUME TabInv, slots' \in [Slots -> Slot], \A s \in Own : slots'[s] = slots[s],
         UNCHANGED tab, clock' \in Nat, queue' \in Nat, net' = net
  PROVE  TabInv' /\ \A s \in Own : slots'[s].pc = "checked" <=> slots[s].pc = "checked"
<1>1. "stream" \in Own
  BY DEF Own, Slots
<1>2. \A s \in Own : Carries(slots'[s])
  BY DEF TabInv, Carries
<1> QED BY <1>1, <1>2 DEF TabInv, tab

\* The neighbour's requests are counted in a bucket of its own.
LEMMA ServesNeighbour ==
  ASSUME NeighbourIsApart, SessionInv, ServerNext("neighbour")
  PROVE  SessionInv'
<1> USE DEF server, tab, SessionInv
<1> DEFINE n == "neighbour"
<1>0. /\ slots \in [Slots -> Slot] /\ n \in Slots /\ slots[n] \in Slot /\ net \in Networks
      /\ net.mine \in DOMAIN buckets /\ Own \subseteq Slots \ {n}
  BY DEF TabInv, BucketInv, Slots, Own
<1>1. Source(n) = net.theirs /\ net.theirs # net.mine
  BY <1>0, ClientIsAddress DEF Source, NeighbourIsApart
<1>2. UNCHANGED <<tab, clock, net, queue>>
  BY DEF ServerNext, ReadsClock, Check, Serve
<1>3. Idle \in Slot /\ \A ans \in {"none", "ok"} \cup Refused : Answered(n, ans) \in [Slots -> Slot]
      /\ \A s \in Own : Answered(n, ans)[s] = slots[s]
  BY <1>0 DEF Answered, Idle, Slot, Kinds, Tokens, Refused
<1>4. slots' \in [Slots -> Slot] /\ \A s \in Own : slots'[s] = slots[s]
  <2>1. \/ \E ans \in {"none", "ok"} \cup Refused : slots' = Answered(n, ans)
        \/ \E r \in Slot : slots' = [slots EXCEPT ![n] = r]
    <3>1. \/ \E ans \in {"missing", "throttled", "wrong", "ok"} : slots' = Answered(n, ans)
          \/ slots' = [slots EXCEPT ![n].pc = "clocked", ![n].at = clock]
          \/ slots' = [slots EXCEPT ![n].pc = "checked", ![n].at = 0]
          \/ slots' = ReadsQueue(n)
      <4>1. CASE ReadsClock(n)
        BY <4>1 DEF ReadsClock
      <4>2. CASE Check(n)
        BY <4>2 DEF Check
      <4>3. CASE Serve(n)
        BY <4>3 DEF Serve
      <4> QED BY <4>1, <4>2, <4>3 DEF ServerNext
    <3>2. CASE slots' = [slots EXCEPT ![n].pc = "clocked", ![n].at = clock]
      <4>1. [slots[n] EXCEPT !.pc = "clocked", !.at = clock] \in Slot
        BY <1>0 DEF Slot, TabInv
      <4> QED BY <1>0, <3>2, <4>1 DEF Slot
    <3>3. CASE slots' = [slots EXCEPT ![n].pc = "checked", ![n].at = 0]
      <4>1. [slots[n] EXCEPT !.pc = "checked", !.at = 0] \in Slot
        BY <1>0 DEF Slot, TabInv
      <4> QED BY <1>0, <3>3, <4>1 DEF Slot
    <3>4. CASE slots' = ReadsQueue(n)
      <4>1. [slots[n] EXCEPT !.pc = "answered", !.ans = "ok", !.snap = queue] \in Slot
        BY <1>0 DEF Slot, TabInv
      <4> QED BY <1>0, <3>4, <4>1 DEF Slot, ReadsQueue
    <3> QED BY <3>1, <3>2, <3>3, <3>4 DEF Refused
  <2> HIDE DEF n
  <2> QED BY <1>0, <1>3, <2>1
<1>5. buckets'[net.mine] = buckets[net.mine] /\ net.mine \in DOMAIN buckets'
  <2>1. CASE ReadsClock(n)
    BY <1>0, <2>1 DEF ReadsClock
  <2>2. CASE Check(n)
    BY <1>0, <1>1, <2>2 DEF Check
  <2>3. CASE Serve(n)
    BY <1>0, <1>1, <2>3 DEF Serve
  <2> QED BY <2>1, <2>2, <2>3 DEF ServerNext
<1>6. TabInv'
  BY <1>2, <1>4, TabRests DEF TabInv
<1>7. Checked' = Checked
  BY <1>4 DEF Checked
<1> QED BY <1>2, <1>5, <1>6, <1>7 DEF BucketInv, Open

\* The core, the channel, the neighbour and the clock.
LEMMA Elsewhere ==
  ASSUME SessionInv, Change \/ Emit \/ Lag \/ NeighbourAsks \/ Tick
  PROVE  SessionInv'
<1> USE DEF server, tab, SessionInv
<1>1. /\ UNCHANGED <<tab, buckets, net>> /\ clock' \in Nat /\ queue' \in Nat
  BY DEF Change, Emit, Lag, NeighbourAsks, Tick, TabInv
<1>2. slots' \in [Slots -> Slot] /\ \A s \in Own : slots'[s] = slots[s]
  <2>1. CASE Change \/ Emit \/ Lag \/ Tick
    BY <2>1 DEF Change, Emit, Lag, Tick, TabInv
  <2>2. CASE NeighbourAsks
    <3>1. [Request("other", "wrong") EXCEPT !.pc = "clocked", !.at = clock] \in Slot
      BY DEF Request, Idle, Slot, Kinds, Tokens, TabInv
    <3> QED BY <2>2, <3>1 DEF NeighbourAsks, TabInv, Own, Slots
  <2> QED BY <2>1, <2>2
<1>3. TabInv' /\ \A s \in Own : slots'[s].pc = "checked" <=> slots[s].pc = "checked"
  BY <1>1, <1>2, TabRests
<1> QED BY <1>1, <1>3, SameCount

-----------------------------------------------------------------------------
(* The tab.                                                                *)

\* What becomes of a connection: freed, given up, or used for a request with the cookie.
Frees(s)   == slots[s].pc # "checked" /\ slots'[s] = Idle
GivesUp(s) == slots'[s] = Abandoned(slots[s])
Asks(s)    == slots[s].pc # "checked" /\ \E k \in {"queue", "probe", "stream"} : slots'[s] = Request(k, cookie)

LEMMA Requests ==
  /\ Idle \in Slot
  /\ \A k \in Kinds, t \in Tokens : Request(k, t) \in Slot
  /\ \A k \in Kinds, t \in Tokens : Request(k, t).kind = k /\ Request(k, t).tok = t
                                    /\ Request(k, t).pc = "sent" /\ Request(k, t).ans = "none"
  /\ \A r \in Slot : /\ Abandoned(r) \in Slot
                     /\ \/ Abandoned(r) = Idle /\ r.pc # "checked"
                        \/ /\ Abandoned(r).kind = "gone" /\ Abandoned(r).tok = r.tok
                           /\ Abandoned(r).pc = r.pc /\ Abandoned(r).ans = r.ans
                           /\ r.pc \notin {"idle", "answered"}
<1>1. Idle \in Slot
  BY DEF Idle, Slot, Kinds, Tokens, Refused
<1>2. ASSUME NEW k \in Kinds, NEW t \in Tokens
      PROVE  /\ Request(k, t) \in Slot /\ Request(k, t).kind = k /\ Request(k, t).tok = t
             /\ Request(k, t).pc = "sent" /\ Request(k, t).ans = "none"
  BY DEF Request, Idle, Slot, Kinds, Tokens, Refused
<1>3. ASSUME NEW r \in Slot
      PROVE  /\ Abandoned(r) \in Slot
             /\ \/ Abandoned(r) = Idle /\ r.pc # "checked"
                \/ /\ Abandoned(r).kind = "gone" /\ Abandoned(r).tok = r.tok
                   /\ Abandoned(r).pc = r.pc /\ Abandoned(r).ans = r.ans
                   /\ r.pc \notin {"idle", "answered"}
  BY <1>1 DEF Abandoned, Slot, Kinds
<1> QED BY <1>1, <1>2, <1>3

LEMMA TabSteps ==
  ASSUME SessionInv,
         slots' \in [Slots -> Slot],
         \A s \in Own : slots'[s] = slots[s] \/ Frees(s) \/ GivesUp(s) \/ Asks(s),
         UNCHANGED <<cookie, queue, buckets, clock, net>>,
         form' \in BOOLEAN, form' => form \/ cookie = "none",
         stream' # "connecting" => slots'["stream"].pc = "idle"
  PROVE  SessionInv'
<1> USE DEF SessionInv
<1>0. slots \in [Slots -> Slot] /\ Own \subseteq Slots /\ "stream" \in Own /\ cookie \in Tokens
  BY DEF TabInv, Own, Slots, Tokens
<1>1. ASSUME NEW s \in Own
      PROVE  /\ Carries(slots'[s]) /\ (slots'[s].pc = "checked" <=> slots[s].pc = "checked")
             /\ cookie = "right" => /\ slots'[s].kind # "login"
                                    /\ slots'[s].kind \in {"queue", "probe", "stream"} => slots'[s].tok = "right"
             /\ slots[s].tok = "none" /\ cookie = "none" => slots'[s].tok = "none"
  <2>0. /\ Carries(slots[s]) /\ slots[s] \in Slot /\ cookie \in {"none", "right"}
        /\ cookie = "right" => /\ slots[s].kind # "login"
                               /\ slots[s].kind \in {"queue", "probe", "stream"} => slots[s].tok = "right"
    BY <1>0 DEF TabInv
  <2>1. CASE slots'[s] = slots[s]
    BY <2>0, <2>1
  <2>2. CASE Frees(s)
    BY <2>2 DEF Frees, Carries, Idle
  <2>3. CASE GivesUp(s)
    <3>1. CASE slots'[s] = Idle /\ slots[s].pc # "checked"
      BY <3>1 DEF Carries, Idle
    <3>2. CASE /\ slots'[s].kind = "gone" /\ slots'[s].tok = slots[s].tok
               /\ slots'[s].pc = slots[s].pc /\ slots'[s].ans = slots[s].ans
      BY <2>0, <3>2 DEF Carries
    <3> QED BY <2>0, <2>3, <3>1, <3>2, Requests DEF GivesUp
  <2>4. CASE Asks(s)
    <3>1. PICK k \in {"queue", "probe", "stream"} : slots'[s] = Request(k, cookie)
      BY <2>4 DEF Asks
    <3>2. slots'[s].kind = k /\ slots'[s].tok = cookie /\ slots'[s].pc = "sent" /\ slots'[s].ans = "none"
      BY <1>0, <3>1, Requests DEF Kinds
    <3> QED BY <2>0, <2>4, <3>2 DEF Asks, Carries
  <2> QED BY <2>1, <2>2, <2>3, <2>4
<1>2. TabInv'
  BY <1>0, <1>1 DEF TabInv
<1> QED BY <1>1, <1>2, SameCount

\* A fresh request, and the slots a step can leave.
LEMMA OneSlot ==
  ASSUME TabInv, NEW f \in Fetches
  PROVE  /\ f \in Own /\ f # "stream" /\ slots[f] \in Slot /\ Own \subseteq Slots
         /\ \A r \in Slot : [slots EXCEPT ![f] = r] \in [Slots -> Slot]
         /\ \A k \in Kinds : Request(k, cookie) \in Slot
         /\ Idle \in Slot /\ Abandoned(slots[f]) \in Slot
<1>1. f \in Slots /\ f # "neighbour" /\ f # "stream"
  BY WebSessionAssumption DEF Slots
<1>2. slots[f] \in Slot /\ cookie \in Tokens
  BY <1>1 DEF TabInv, Tokens
<1> QED BY <1>1, <1>2, Requests DEF TabInv, Own

LEMMA FetchSteps ==
  ASSUME SessionInv, NEW f \in Fetches,
         FetchAnswered(f) \/ ProbeAnswered(f) \/ TimesOut(f) \/ Deliver(f) \/ StreamOpens(f)
  PROVE  SessionInv'
<1> USE DEF server
<1>0. /\ f \in Own /\ f # "stream" /\ slots[f] \in Slot /\ slots \in [Slots -> Slot]
      /\ \A r \in Slot : [slots EXCEPT ![f] = r] \in [Slots -> Slot]
      /\ Request("queue", cookie) \in Slot /\ Request("probe", cookie) \in Slot
      /\ Idle \in Slot /\ Abandoned(slots[f]) \in Slot /\ Own \subseteq Slots /\ "stream" \in Own
  BY OneSlot DEF SessionInv, TabInv, Kinds, Own, Slots
<1>1. UNCHANGED <<cookie, queue, buckets, clock, net>>
  BY DEF FetchAnswered, ProbeAnswered, TimesOut, Deliver, StreamOpens
<1>2. CASE FetchAnswered(f) \/ ProbeAnswered(f) \/ TimesOut(f) \/ Deliver(f)
  <2>1. /\ \E r \in {slots[f], Idle, Abandoned(slots[f]), Request("queue", cookie), Request("probe", cookie)} :
             slots' = [slots EXCEPT ![f] = r] /\ (r = Abandoned(slots[f]) \/ r = slots[f] \/ slots[f].pc # "checked")
    <3>1. CASE FetchAnswered(f)
      BY <3>1 DEF FetchAnswered, Unauthorized
    <3>2. CASE ProbeAnswered(f)
      BY <3>2 DEF ProbeAnswered, Refresh
    <3>3. CASE TimesOut(f)
      BY <3>3 DEF TimesOut
    <3>4. CASE Deliver(f)
      BY <1>0, <3>4 DEF Deliver, FirstIdle, Refresh
    <3> QED BY <1>2, <3>1, <3>2, <3>3, <3>4
  <2>2. PICK r \in {slots[f], Idle, Abandoned(slots[f]), Request("queue", cookie), Request("probe", cookie)} :
          slots' = [slots EXCEPT ![f] = r] /\ (r = Abandoned(slots[f]) \/ r = slots[f] \/ slots[f].pc # "checked")
    BY <2>1
  <2>3. slots' \in [Slots -> Slot] /\ slots'[f] = r /\ \A s \in Own \ {f} : slots'[s] = slots[s]
    BY <1>0, <2>2
  <2>4. \A s \in Own : slots'[s] = slots[s] \/ Frees(s) \/ GivesUp(s) \/ Asks(s)
    BY <2>2, <2>3 DEF Frees, GivesUp, Asks
  <2>5. stream' = stream /\ slots'["stream"] = slots["stream"]
    BY <1>0, <1>2, <2>3 DEF FetchAnswered, ProbeAnswered, TimesOut, Deliver
  <2>6. form' \in BOOLEAN /\ (form' => form \/ cookie = "none")
    <3>1. CASE ProbeAnswered(f)
      <4>1. cookie = "right" => slots[f].ans \notin Refused
        BY <1>0, <3>1 DEF ProbeAnswered, SessionInv, TabInv, Carries, Refused
      <4> QED BY <3>1, <4>1 DEF ProbeAnswered, SessionInv, TabInv
    <3>2. CASE ~ProbeAnswered(f)
      BY <1>2, <3>2 DEF FetchAnswered, TimesOut, Deliver, SessionInv, TabInv
    <3> QED BY <3>1, <3>2
  <2> QED BY <1>1, <2>3, <2>4, <2>5, <2>6, TabSteps DEF SessionInv, TabInv
<1>3. CASE StreamOpens(f)
  <2>1. /\ slots["stream"].pc = "answered" /\ slots[f].pc = "idle" /\ form' = form
        /\ slots' = [slots EXCEPT !["stream"] = Idle]
           \/ slots' = [[slots EXCEPT !["stream"] = Idle] EXCEPT ![f] = Request("queue", cookie)]
    BY <1>0, <1>3 DEF StreamOpens, FirstIdle, Refresh
  <2>2. /\ slots' \in [Slots -> Slot] /\ slots'["stream"] = Idle
        /\ slots'[f] \in {slots[f], Request("queue", cookie)}
        /\ \A s \in Own \ {f, "stream"} : slots'[s] = slots[s]
    BY <1>0, <2>1
  <2>3. \A s \in Own : slots'[s] = slots[s] \/ Frees(s) \/ GivesUp(s) \/ Asks(s)
    BY <2>1, <2>2 DEF Frees, Asks
  <2> QED BY <1>1, <2>1, <2>2, <2>3, TabSteps DEF SessionInv, TabInv, Idle
<1> QED BY <1>2, <1>3

LEMMA StreamSteps ==
  ASSUME SessionInv,
         \/ StreamRefused \/ StreamDrops
         \/ \E f \in Fetches, g \in Fetches : FormGivesWay(f, g)
  PROVE  SessionInv'
<1> USE DEF server
<1>0. /\ slots \in [Slots -> Slot] /\ Own \subseteq Slots /\ "stream" \in Own /\ cookie \in Tokens
      /\ Idle \in Slot /\ Request("queue", cookie) \in Slot /\ Request("stream", cookie) \in Slot
  BY Requests DEF SessionInv, TabInv, Kinds, Own, Slots, Tokens
<1>1. CASE StreamRefused
  <2>1. /\ slots["stream"].pc = "answered" /\ slots' = [slots EXCEPT !["stream"] = Idle]
        /\ UNCHANGED <<cookie, form, queue, buckets, clock, net>>
    BY <1>1 DEF StreamRefused
  <2>2. slots' \in [Slots -> Slot] /\ slots'["stream"] = Idle /\ \A s \in Own \ {"stream"} : slots'[s] = slots[s]
    BY <1>0, <2>1
  <2>3. \A s \in Own : slots'[s] = slots[s] \/ Frees(s) \/ GivesUp(s) \/ Asks(s)
    BY <2>1, <2>2 DEF Frees
  <2> QED BY <2>1, <2>2, <2>3, TabSteps DEF SessionInv, TabInv, Idle
<1>2. CASE StreamDrops
  <2>1. /\ stream = "open" /\ stream' = "connecting"
        /\ slots' = [slots EXCEPT !["stream"] = Request("stream", cookie)]
        /\ UNCHANGED <<cookie, form, queue, buckets, clock, net>>
    BY <1>2 DEF StreamDrops
  <2>2. /\ slots' \in [Slots -> Slot] /\ slots'["stream"] = Request("stream", cookie)
        /\ \A s \in Own \ {"stream"} : slots'[s] = slots[s]
    BY <1>0, <2>1
  <2>3. slots["stream"].pc = "idle"
    BY <2>1 DEF SessionInv, TabInv
  <2>4. \A s \in Own : slots'[s] = slots[s] \/ Frees(s) \/ GivesUp(s) \/ Asks(s)
    BY <2>2, <2>3 DEF Asks
  <2> QED BY <2>1, <2>2, <2>4, TabSteps DEF SessionInv, TabInv
<1>3. CASE \E f \in Fetches, g \in Fetches : FormGivesWay(f, g)
  <2>1. PICK f \in Fetches, g \in Fetches : FormGivesWay(f, g)
    BY <1>3
  <2>2. /\ slots[g].pc = "idle" /\ form' = FALSE /\ UNCHANGED <<cookie, stream, queue, buckets, clock, net>>
        /\ slots' = [[slots EXCEPT ![f] = Abandoned(@)] EXCEPT ![g] = Request("queue", cookie)]
    BY <2>1 DEF FormGivesWay, FirstIdle, Refresh
  <2>3. f \in Own /\ g \in Own /\ f # "stream" /\ g # "stream" /\ Abandoned(slots[f]) \in Slot
    BY OneSlot DEF SessionInv
  <2>4. /\ slots' \in [Slots -> Slot] /\ slots'[g] = Request("queue", cookie)
        /\ f # g => slots'[f] = Abandoned(slots[f])
        /\ \A s \in Own \ {f, g} : slots'[s] = slots[s]
    BY <1>0, <2>2, <2>3
  <2>5. \A s \in Own : slots'[s] = slots[s] \/ Frees(s) \/ GivesUp(s) \/ Asks(s)
    BY <2>2, <2>4 DEF Asks, GivesUp
  <2> QED BY <1>0, <2>2, <2>3, <2>4, <2>5, TabSteps DEF SessionInv, TabInv
<1> QED BY <1>1, <1>2, <1>3

\* The form is up only for a tab without the cookie, whose other requests carry nothing to count.
LEMMA LoginSteps ==
  ASSUME SessionInv, NEW f \in Fetches, SubmitToken(f) \/ LoginAnswered(f)
  PROVE  SessionInv'
<1> USE DEF server
<1>0. /\ f \in Own /\ f # "stream" /\ slots[f] \in Slot /\ slots \in [Slots -> Slot] /\ Own \subseteq Slots
      /\ "stream" \in Own /\ Carries(slots[f]) /\ cookie \in {"none", "right"}
  BY OneSlot DEF SessionInv, TabInv, Own, Slots
<1>1. CASE SubmitToken(f)
  <2>1. /\ cookie = "none" /\ slots[f].pc = "idle" /\ slots' = [slots EXCEPT ![f] = Request("login", "right")]
        /\ UNCHANGED <<tab, queue, buckets, clock, net>>
    BY <1>1 DEF SubmitToken, FirstIdle, SessionInv, TabInv
  <2>2. /\ Request("login", "right") \in Slot /\ Request("login", "right").tok = "right"
        /\ Request("login", "right").pc = "sent" /\ Request("login", "right").ans = "none"
    BY Requests DEF Kinds, Tokens
  <2>3. /\ slots' \in [Slots -> Slot] /\ slots'[f] = Request("login", "right")
        /\ \A s \in Own \ {f} : slots'[s] = slots[s]
    BY <1>0, <2>1, <2>2
  <2>4. \A s \in Own : Carries(slots'[s])
    BY <2>2, <2>3 DEF SessionInv, TabInv, Carries
  <2>5. TabInv'
    BY <1>0, <2>1, <2>3, <2>4 DEF SessionInv, TabInv, tab
  <2> QED BY <2>1, <2>2, <2>3, <2>5, SameCount DEF SessionInv
<1>2. CASE LoginAnswered(f) /\ slots[f].ans # "ok"
  <2>1. /\ slots' = [slots EXCEPT ![f] = Idle] \/ slots' = [slots EXCEPT ![f] = Request("probe", cookie)]
        /\ slots[f].pc = "answered" /\ UNCHANGED <<cookie, form, stream, queue, buckets, clock, net>>
    BY <1>2 DEF LoginAnswered, Unauthorized
  <2>2. Idle \in Slot /\ Request("probe", cookie) \in Slot
    BY OneSlot DEF SessionInv, Kinds
  <2>3. /\ slots' \in [Slots -> Slot] /\ slots'[f] \in {Idle, Request("probe", cookie)}
        /\ \A s \in Own \ {f} : slots'[s] = slots[s]
    BY <1>0, <2>1, <2>2
  <2>4. \A s \in Own : slots'[s] = slots[s] \/ Frees(s) \/ GivesUp(s) \/ Asks(s)
    BY <2>1, <2>3 DEF Frees, Asks
  <2> QED BY <1>0, <2>1, <2>3, <2>4, TabSteps DEF SessionInv, TabInv
<1>3. CASE LoginAnswered(f) /\ slots[f].ans = "ok"
  <2> DEFINE t == slots[f].tok
  <2>1. /\ slots[f].kind = "login" /\ slots[f].pc = "answered" /\ cookie' = t /\ form' = FALSE
        /\ stream' = "connecting" /\ UNCHANGED <<queue, buckets, clock, net>>
        /\ slots' = [s \in Slots |->
                       CASE s = f        -> Request("queue", t)
                         [] s = "stream" -> Request("stream", t)
                         [] s \in Fetches \ {f} -> Abandoned(slots[s])
                         [] OTHER        -> slots[s]]
    BY <1>3 DEF LoginAnswered, CookieOf
  <2>2. cookie = "none" /\ t \in {"none", "right"} /\ slots["stream"].tok = "none"
    BY <1>0, <2>1 DEF SessionInv, TabInv, Carries
  <2>3. slots["stream"].pc # "checked"
    BY <1>0, <2>2 DEF SessionInv, TabInv, Carries
  <2> HIDE DEF t
  <2>4. \A k \in {"queue", "stream"} :
          /\ Request(k, t) \in Slot /\ Request(k, t).kind = k /\ Request(k, t).tok = t
          /\ Request(k, t).pc = "sent" /\ Request(k, t).ans = "none"
    BY <2>2, Requests DEF Kinds, Tokens
  <2>5. /\ slots'[f] = Request("queue", t) /\ slots'["stream"] = Request("stream", t)
        /\ \A s \in Own \ {f, "stream"} : slots'[s] = Abandoned(slots[s])
    <3>1. slots'[f] = Request("queue", t) /\ slots'["stream"] = Request("stream", t)
      <4>1. f \in Slots /\ "stream" \in Slots /\ f # "stream"
        BY <1>0
      <4>2. slots'[f] = Request("queue", t)
        BY <2>1, <4>1
      <4>3. slots'["stream"] = Request("stream", t)
        BY <2>1, <4>1, WebSessionAssumption
      <4> QED BY <4>2, <4>3
    <3>2. ASSUME NEW s \in Own \ {f, "stream"} PROVE slots'[s] = Abandoned(slots[s])
      <4>1. s \in Slots /\ s # f /\ s # "stream" /\ s \in Fetches \ {f}
        BY DEF Own, Slots
      <4> QED BY <2>1, <4>1
    <3> QED BY <3>1, <3>2
  <2>6. slots' \in [Slots -> Slot]
    BY <1>0, <2>1, <2>4, Requests DEF Slots
  <2>7. ASSUME NEW s \in Own
        PROVE  /\ Carries(slots'[s]) /\ slots'[s].kind # "login"
               /\ slots'[s].kind \in {"queue", "probe", "stream"} => slots'[s].tok = t
               /\ slots'[s].pc = "checked" <=> slots[s].pc = "checked"
    <3>1. CASE s \in {f, "stream"}
      BY <2>1, <2>2, <2>3, <2>4, <2>5, <3>1 DEF Carries
    <3>2. CASE s \notin {f, "stream"}
      <4>1. slots'[s] = Abandoned(slots[s]) /\ slots[s] \in Slot /\ Carries(slots[s])
        BY <1>0, <2>5, <3>2 DEF SessionInv, TabInv
      <4>2. CASE slots'[s] = Idle /\ slots[s].pc # "checked"
        BY <4>2 DEF Carries, Idle
      <4>3. CASE /\ slots'[s].kind = "gone" /\ slots'[s].tok = slots[s].tok
                 /\ slots'[s].pc = slots[s].pc /\ slots'[s].ans = slots[s].ans
        BY <4>1, <4>3 DEF Carries
      <4> QED BY <4>1, <4>2, <4>3, Requests
    <3> QED BY <3>1, <3>2
  <2>8. TabInv'
    BY <2>1, <2>2, <2>4, <2>5, <2>6, <2>7 DEF SessionInv, TabInv
  <2> QED BY <2>1, <2>7, <2>8, SameCount DEF SessionInv
<1> QED BY <1>1, <1>2, <1>3

-----------------------------------------------------------------------------
(* The theorem.                                                            *)

LEMMA SessionStarts ==
  ASSUME FitsAllowance, Init, NeighbourIsApart
  PROVE  SessionInv
<1>0. latest \in Slots /\ latest # "neighbour" /\ latest # "stream" /\ cookie \in {"none", "right"}
  BY WebSessionAssumption DEF Init, Slots
<1>1. /\ Idle \in Slot
      /\ \A k \in {"queue", "stream"} :
           /\ Request(k, cookie) \in Slot /\ Request(k, cookie).kind = k /\ Request(k, cookie).tok = cookie
           /\ Request(k, cookie).pc = "sent" /\ Request(k, cookie).ans = "none"
  BY <1>0, Requests DEF Kinds, Tokens
<1>2. /\ slots \in [Slots -> Slot]
      /\ \A s \in Own : /\ Carries(slots[s]) /\ slots[s].kind # "login" /\ slots[s].pc # "checked"
                        /\ slots[s].kind \in {"queue", "probe", "stream"} => slots[s].tok = cookie
  BY <1>0, <1>1 DEF Init, Own, Carries, Idle
<1>3. slots["stream"].tok = cookie
  BY <1>0, <1>1 DEF Init, Slots
<1>4. TabInv
  BY <1>0, <1>2, <1>3 DEF Init, TabInv
<1>5. BucketInv
  <2>1. net.mine \in Addresses
    BY WebSessionAssumption DEF Init
  <2>2. buckets[net.mine] = NoBucket /\ net.mine \in DOMAIN buckets
    BY <2>1 DEF Init
  <2> QED BY <2>2, CheckedFinite DEF BucketInv, Open, NoBucket
<1> QED BY <1>4, <1>5 DEF SessionInv

\* A page whose connections fit into the free allowance is never refused as too soon: for any
\* policy, any proxies the server knows between it and the neighbour, any faults and wrong tokens,
\* and whatever order its requests read the clock, take the lock and are compared in.
THEOREM RightTokenServed ==
  ASSUME FitsAllowance
  PROVE  Spec => []RightTokenIsServed
<1> DEFINE Inv == NeighbourIsApart => SessionInv
<1>1. Init => Inv
  BY SessionStarts
<1>2. Inv /\ [Next]_vars => Inv'
  <2> SUFFICES ASSUME NeighbourIsApart', Inv, [Next]_vars PROVE SessionInv'
    OBVIOUS
  <2>1. UNCHANGED net
    BY DEF vars, Next, Progress, ServerNext, TabNext, ReadsClock, Check, Serve, FetchAnswered, ProbeAnswered,
       Deliver, StreamOpens, LoginAnswered, SubmitToken, StreamRefused, Emit, TimesOut, FormGivesWay,
       StreamDrops, Lag, Change, NeighbourAsks, Tick
  <2>2. NeighbourIsApart /\ SessionInv
    BY <2>1 DEF NeighbourIsApart
  <2>3. CASE Next
    <3>1. CASE \E s \in Slots : ServerNext(s)
      BY <2>2, <3>1, ServesTab, ServesNeighbour DEF Own
    <3>2. CASE \E f \in Fetches : TabNext(f) \/ SubmitToken(f) \/ TimesOut(f)
      BY <2>2, <3>2, FetchSteps, LoginSteps DEF TabNext
    <3>3. CASE StreamRefused \/ StreamDrops \/ \E f \in Fetches, g \in Fetches : FormGivesWay(f, g)
      BY <2>2, <3>3, StreamSteps
    <3>4. CASE Change \/ Emit \/ Lag \/ NeighbourAsks \/ Tick
      BY <2>2, <3>4, Elsewhere
    <3> QED BY <2>3, <3>1, <3>2, <3>3, <3>4 DEF Next, Progress
  <2>4. CASE UNCHANGED vars
    <3>1. UNCHANGED <<server, tab, slots, buckets, clock, net>>
      BY <2>4 DEF vars
    <3>2. TabInv'
      BY <2>2, <3>1 DEF SessionInv, TabInv, tab, server
    <3> QED BY <2>2, <3>1, <3>2, SameCount DEF SessionInv
  <2> QED BY <2>3, <2>4
<1>3. Inv => RightTokenIsServed
  BY DEF RightTokenIsServed, SessionInv, TabInv, Carries, Own
<1> QED BY <1>1, <1>2, <1>3, PTL DEF Spec
=============================================================================
