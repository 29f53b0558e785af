------------------------------ MODULE WebSession ------------------------------
(***************************************************************************)
(* A tab of the web UI and the server head it talks to: the queue the tab  *)
(* shows and the refreshes that fetch it, the stream of events that ask    *)
(* for one, the guard every request passes with its throttle, the probe    *)
(* that follows a 401, and the login form.  A neighbour with a wrong token *)
(* uses the same server, behind a proxy the server knows or one it does    *)
(* not.                                                                    *)
(*                                                                         *)
(* The queue is a number that grows with each change.  An address stands   *)
(* for its bucket_addr; the eviction of buckets above 4096 sources is left *)
(* out.  A request occupies one of the tab's connections until the server  *)
(* is done with it, also when the tab no longer waits.                     *)
(***************************************************************************)
EXTENDS Naturals, FiniteSets, Sequences, SequencesExt

CONSTANTS
  Fetches,       \* the connections of the tab, beside the one of its event stream
  Addresses, Trusted,   \* trusted_proxies
  Networks,      \* [route, mine, theirs]: the proxies on the way to the server, the two addresses
  Free, Base, Cap, Window,   \* ThrottlePolicy
  MaxChanges, MaxAsked, MaxFaults,
  QuietFrom, MaxClock   \* wrong tokens are sent up to QuietFrom

ASSUME WebSessionAssumption ==
  /\ Fetches # {} /\ {"stream", "neighbour"} \cap Fetches = {}
  /\ Trusted \subseteq Addresses
  /\ Networks \subseteq [route : Seq(Addresses), mine : Addresses, theirs : Addresses]
  /\ {Free, Base, Cap, Window, MaxChanges, MaxAsked, MaxFaults, QuietFrom, MaxClock}
       \subseteq Nat
  /\ QuietFrom + Cap <= MaxClock

VARIABLES
  queue, unsent,     \* the rows; changes whose event is not sent yet
  subscribed, inbox, \* the stream's receiver and what it has not delivered
  stream, hadError,  \* the tab's EventSource
  slots,             \* the connections: what is asked on each, and how far it is
  latest, shown,     \* the connection of the latest refresh still awaited, and the queue on display
  probing, form, cookie,
  buckets, clock,
  net,
  unheard,           \* a change or an answer was lost and nothing later replaces it
  changes, asked, faults

server == <<queue, unsent, subscribed, inbox, changes>>
tab    == <<stream, hadError, latest, shown, probing, form, cookie>>
vars   == <<server, tab, slots, buckets, clock, net, unheard, asked, faults>>

Slots  == Fetches \cup {"stream", "neighbour"}
Tokens == {"none", "right", "wrong"}
NoView == MaxChanges + 1   \* the queue of a page that has fetched none

Refused == {"missing", "throttled", "wrong"}

Idle == [kind |-> "none", pc |-> "idle", tok |-> "none", at |-> 0, snap |-> 0, ans |-> "none"]
NoBucket == [count |-> 0, first |-> 0, next |-> 0, last |-> 0]

Request(kind, tok) == [Idle EXCEPT !.kind = kind, !.pc = "sent", !.tok = tok]

TypeOK ==
  /\ queue \in 0..MaxChanges /\ unsent \in 0..MaxChanges /\ changes \in 0..MaxChanges
  /\ subscribed \in BOOLEAN /\ inbox \in 0..MaxChanges
  /\ stream \in {"connecting", "open", "closed"} /\ hadError \in BOOLEAN
  /\ slots \in [Slots -> [kind : {"none", "queue", "probe", "login", "stream", "other", "gone"},
                          pc : {"idle", "sent", "clocked", "checked", "answered"},
                          tok : Tokens, at : 0..MaxClock, snap : 0..MaxChanges,
                          ans : {"none", "ok"} \cup Refused]]
  /\ latest \in Fetches \cup {"none"} /\ shown \in 0..NoView
  /\ probing \in BOOLEAN /\ form \in BOOLEAN /\ cookie \in {"none", "right"}
  /\ \A b \in DOMAIN buckets : buckets[b] \in [count : Nat, first : Nat, next : Nat, last : Nat]
  /\ clock \in 0..MaxClock /\ net \in Networks
  /\ unheard \in BOOLEAN /\ asked \in 0..MaxAsked /\ faults \in 0..MaxFaults

\* Whose bucket a request is counted in: the last entry of the chain that is no trusted proxy.
\* Each proxy on the way has appended the address it was called from; the last one is the peer.
ClientId(address) ==
  LET peer    == IF net.route = <<>> THEN address ELSE Last(net.route)
      chain   == IF net.route = <<>> THEN <<>> ELSE <<address>> \o Front(net.route)
      nearest == SelectLastInSeq(chain, LAMBDA a : a \notin Trusted)
  IN  IF peer \notin Trusted \/ nearest = 0 THEN peer ELSE chain[nearest]

Source(s) == ClientId(IF s = "neighbour" THEN net.theirs ELSE net.mine)

Smaller(a, b) == IF a < b THEN a ELSE b
Larger(a, b)  == IF a < b THEN b ELSE a

SpacingFor(count) ==
  IF count <= Free THEN 0 ELSE Smaller(Base * 2^(count - Free - 1), Cap)

(***************************************************************************)
(* The server                                                              *)
(***************************************************************************)
\* An answer to a request nobody waits for frees its connection.
Answered(s, ans) ==
  IF slots[s].kind \in {"gone", "other"} THEN [slots EXCEPT ![s] = Idle]
  ELSE [slots EXCEPT ![s].pc = "answered", ![s].ans = ans, ![s].at = 0]

\* auth_guard up to the clock, and login, which the guard lets through.
ReadsClock(s) ==
  /\ slots[s].pc = "sent"
  /\ IF slots[s].tok = "none" THEN slots' = Answered(s, "missing")
     ELSE slots' = [slots EXCEPT ![s].pc = "clocked", ![s].at = clock]
  /\ UNCHANGED <<server, tab, buckets, clock, net, unheard, asked, faults>>

\* Seeded fault: a request goes by the clock it read before it waited for the lock.
EffectiveNow_AsRead(b, at) == at

\* The time a check goes by, never before that of an earlier evaluation.
EffectiveNow(b, at) == IF b.count = 0 THEN at ELSE Larger(at, b.last)

\* The bucket as the check finds it: new for a new source and once its window is over.
Windowed(b, now) ==
  IF b.count = 0 \/ now > b.first + Window
  THEN [count |-> 0, first |-> now, next |-> now, last |-> now] ELSE b

Reserve(b, now) ==
  [count |-> b.count + 1, first |-> b.first, next |-> now + SpacingFor(b.count + 1), last |-> now]

Check(s) ==
  /\ slots[s].pc = "clocked"
  /\ LET b   == buckets[Source(s)]
         now == EffectiveNow(b, slots[s].at)
         w   == Windowed(b, now)
     IN  IF now < w.next
         THEN slots' = Answered(s, "throttled") /\ UNCHANGED buckets
         ELSE /\ slots' = [slots EXCEPT ![s].pc = "checked", ![s].at = 0]
              /\ buckets' = [buckets EXCEPT ![Source(s)] = Reserve(w, now)]
  /\ UNCHANGED <<server, tab, clock, net, unheard, asked, faults>>

\* get_queue answers with the rows of this moment; sse_handler subscribes; login hands out what was
\* accepted as the cookie.
ReadsQueue(s) == [slots EXCEPT ![s].pc = "answered", ![s].ans = "ok", ![s].snap = queue]
Subscribes(s) == slots[s].kind = "stream"
CookieOf(s)   == slots[s].tok

\* The comparison, the success that clears the bucket, and the route behind the guard.
Serve(s) ==
  /\ slots[s].pc = "checked"
  /\ IF slots[s].tok = "right"
     THEN /\ buckets' = [buckets EXCEPT ![Source(s)] = NoBucket]
          /\ subscribed' = (subscribed \/ Subscribes(s))
          /\ slots' = IF slots[s].kind = "queue" THEN ReadsQueue(s) ELSE Answered(s, "ok")
     ELSE slots' = Answered(s, "wrong") /\ UNCHANGED <<buckets, subscribed>>
  /\ UNCHANGED <<queue, unsent, inbox, changes, tab, clock, net, unheard, asked, faults>>

\* A job moves on, files are added: the rows change under the database lock, the event follows.
Change ==
  /\ changes < MaxChanges
  /\ queue' = queue + 1 /\ unsent' = unsent + 1 /\ changes' = changes + 1
  /\ UNCHANGED <<subscribed, inbox, tab, slots, buckets, clock, net, unheard, asked, faults>>

\* A stream that reconnects after an error will refetch; any other that is not there misses it.
Emit ==
  /\ unsent > 0
  /\ unsent' = unsent - 1
  /\ inbox' = IF subscribed THEN inbox + 1 ELSE inbox
  /\ unheard' = (unheard \/ ~(subscribed \/ (stream = "connecting" /\ hadError)))
  /\ UNCHANGED <<queue, subscribed, changes, tab, slots, buckets, clock, net, asked, faults>>

\* The receiver has fallen behind the channel's 256 events and skips some.
Lag ==
  /\ inbox > 0 /\ faults < MaxFaults
  /\ inbox' = inbox - 1 /\ unheard' = TRUE /\ faults' = faults + 1
  /\ UNCHANGED <<queue, unsent, subscribed, changes, tab, slots, buckets, clock, net, asked>>

(***************************************************************************)
(* The tab                                                                 *)
(***************************************************************************)
\* Connections are alike: a request takes the first one that is idle.
FirstIdle(f) ==
  LET idle == {g \in Fetches : slots[g].pc = "idle"} IN f \in idle /\ f = CHOOSE g \in idle : TRUE

\* refresh: a new latestRequest, which makes every earlier request's answer a stale one.
Refresh(f, others) ==
  /\ latest' = f
  /\ slots' = [others EXCEPT ![f] = Request("queue", cookie)]
  /\ unheard' = FALSE

\* Where a 401 leads, also one nobody waits for: one probe of /api/status for all that come while it is under way.
Unauthorized(f) ==
  IF probing THEN slots' = [slots EXCEPT ![f] = Idle] /\ UNCHANGED probing
  ELSE slots' = [slots EXCEPT ![f] = Request("probe", cookie)] /\ probing' = TRUE

\* Seeded fault: whatever answer comes last is shown.
ShowsAny(f) == slots[f].snap

\* The answer to the latest request replaces the view, any other is dropped.
Shows(f) == IF f = latest THEN slots[f].snap ELSE shown

FetchAnswered(f) ==
  /\ slots[f].kind = "queue" /\ slots[f].pc = "answered"
  /\ IF slots[f].ans = "ok"
     THEN /\ shown' = Shows(f)
          /\ slots' = [slots EXCEPT ![f] = Idle]
          /\ UNCHANGED <<probing, unheard>>
     ELSE /\ Unauthorized(f)
          /\ unheard' = (unheard \/ f = latest)
          /\ UNCHANGED shown
  /\ latest' = IF f = latest THEN "none" ELSE latest
  /\ UNCHANGED <<server, stream, hadError, form, cookie, buckets, clock, net, asked, faults>>

\* The login form takes the queue page's place, or gives it back.
ProbeAnswered(f) ==
  /\ slots[f].kind = "probe" /\ slots[f].pc = "answered"
  /\ probing' = FALSE
  /\ form' = (slots[f].ans \in Refused)
  /\ IF form = form' THEN slots' = [slots EXCEPT ![f] = Idle] /\ UNCHANGED <<latest, shown, unheard>>
     ELSE IF form' THEN /\ slots' = [slots EXCEPT ![f] = Idle]
                        /\ latest' = "none" /\ shown' = NoView /\ UNCHANGED unheard
     ELSE Refresh(f, slots) /\ UNCHANGED shown
  /\ UNCHANGED <<server, stream, hadError, cookie, buckets, clock, net, asked, faults>>

\* What becomes of a request the tab gives up.
Abandoned(r) == IF r.pc \in {"idle", "answered"} THEN Idle ELSE [r EXCEPT !.kind = "gone"]

\* A deadline passes.  What the tab no longer waits for goes on in the server; a probe that says
\* nothing counts as one that was not refused.
TimesOut(f) ==
  /\ slots[f].kind \in {"queue", "probe", "login"} /\ slots[f].pc # "answered" /\ faults < MaxFaults
  /\ slots[f].kind = "probe" => ~form
  /\ slots' = [slots EXCEPT ![f] = Abandoned(@)]
  /\ probing' = (probing /\ slots[f].kind # "probe")
  /\ unheard' = (unheard \/ f = latest)
  /\ latest' = IF f = latest THEN "none" ELSE latest
  /\ faults' = faults + 1
  /\ UNCHANGED <<server, stream, hadError, shown, form, cookie, buckets, clock, net, asked>>

\* The same while the form is up, which it takes down until the next refusal.
FormGivesWay(f, g) ==
  /\ form /\ slots[f].kind = "probe" /\ slots[f].pc # "answered" /\ faults < MaxFaults
  /\ FirstIdle(g) /\ Refresh(g, [slots EXCEPT ![f] = Abandoned(@)])
  /\ probing' = FALSE /\ form' = FALSE /\ faults' = faults + 1
  /\ UNCHANGED <<server, stream, hadError, shown, cookie, buckets, clock, net, asked>>

\* An event of the queue arrives: the queue page, if it is there, asks for the queue.
Deliver(f) ==
  /\ stream = "open" /\ inbox > 0 /\ FirstIdle(f)
  /\ inbox' = inbox - 1
  /\ IF form THEN UNCHANGED <<latest, slots, unheard>> ELSE Refresh(f, slots)
  /\ UNCHANGED <<queue, unsent, subscribed, changes, stream, hadError, shown, probing, form, cookie,
                 buckets, clock, net, asked, faults>>

\* EventSource: open, which refetches if it is not the first time; closed for good by a refusal.
StreamOpens(f) ==
  /\ slots["stream"].pc = "answered" /\ slots["stream"].ans = "ok" /\ FirstIdle(f)
  /\ stream' = "open" /\ hadError' = FALSE
  /\ LET rest == [slots EXCEPT !["stream"] = Idle]
     IN  IF hadError /\ ~form THEN Refresh(f, rest)
         ELSE slots' = rest /\ UNCHANGED <<latest, unheard>>
  /\ UNCHANGED <<server, shown, probing, form, cookie, buckets, clock, net, asked, faults>>

StreamRefused ==
  /\ slots["stream"].pc = "answered" /\ slots["stream"].ans \in Refused
  /\ stream' = "closed" /\ unheard' = TRUE
  /\ slots' = [slots EXCEPT !["stream"] = Idle]
  /\ UNCHANGED <<server, hadError, latest, shown, probing, form, cookie, buckets, clock, net, asked, faults>>

StreamDrops ==
  /\ stream = "open" /\ faults < MaxFaults
  /\ stream' = "connecting" /\ hadError' = TRUE
  /\ subscribed' = FALSE /\ inbox' = 0
  /\ slots' = [slots EXCEPT !["stream"] = Request("stream", cookie)]
  /\ faults' = faults + 1
  /\ UNCHANGED <<queue, unsent, changes, latest, shown, probing, form, cookie, buckets, clock, net,
                 unheard, asked>>

\* The form takes one token at a time.
SubmitToken(f) ==
  /\ form /\ FirstIdle(f) /\ \A g \in Fetches : slots[g].kind # "login"
  /\ slots' = [slots EXCEPT ![f] = Request("login", "right")]
  /\ UNCHANGED <<server, tab, buckets, clock, net, unheard, asked, faults>>

\* Accepted, the form reloads the page, which asks for the stream and for the queue anew.
LoginAnswered(f) ==
  /\ slots[f].kind = "login" /\ slots[f].pc = "answered"
  /\ IF slots[f].ans = "ok"
     THEN /\ cookie' = CookieOf(f) /\ form' = FALSE /\ probing' = FALSE
          /\ latest' = f /\ shown' = NoView /\ unheard' = FALSE
          /\ stream' = "connecting" /\ hadError' = FALSE /\ subscribed' = FALSE /\ inbox' = 0
          /\ slots' = [s \in Slots |->
                         CASE s = f        -> Request("queue", CookieOf(f))
                           [] s = "stream" -> Request("stream", CookieOf(f))
                           [] s \in Fetches \ {f} -> Abandoned(slots[s])
                           [] OTHER        -> slots[s]]
     ELSE /\ Unauthorized(f)
          /\ UNCHANGED <<cookie, form, latest, shown, unheard, stream, hadError, subscribed, inbox>>
  /\ UNCHANGED <<queue, unsent, changes, buckets, clock, net, asked, faults>>

(***************************************************************************)
(* The neighbour, and time                                                 *)
(***************************************************************************)
NeighbourAsks ==
  /\ slots["neighbour"].pc = "idle" /\ asked < MaxAsked /\ clock <= QuietFrom
  /\ slots' = [slots EXCEPT !["neighbour"] =
                 [Request("other", "wrong") EXCEPT !.pc = "clocked", !.at = clock]]
  /\ asked' = asked + 1
  /\ UNCHANGED <<server, tab, buckets, clock, net, unheard, faults>>

\* The neighbour's last requests get to their checks before QuietFrom is over: a bound of the model.
Tick ==
  /\ clock < MaxClock
  /\ clock = QuietFrom => slots["neighbour"].pc # "clocked"
  /\ clock' = clock + 1
  /\ UNCHANGED <<server, tab, slots, buckets, net, unheard, asked, faults>>

\* A page is loaded, by a user who has logged in before or has not.
Init ==
  /\ net \in Networks /\ cookie \in {"none", "right"}
  /\ queue = 0 /\ unsent = 0 /\ changes = 0 /\ subscribed = FALSE /\ inbox = 0
  /\ stream = "connecting" /\ hadError = FALSE
  /\ latest = CHOOSE f \in Fetches : TRUE
  /\ slots = [s \in Slots |-> CASE s = latest   -> Request("queue", cookie)
                                [] s = "stream" -> Request("stream", cookie)
                                [] OTHER        -> Idle]
  /\ shown = NoView /\ probing = FALSE /\ form = FALSE
  /\ buckets = [a \in Addresses |-> NoBucket] /\ clock = 0
  /\ unheard = FALSE /\ asked = 0 /\ faults = 0

ServerNext(s) == ReadsClock(s) \/ Check(s) \/ Serve(s)
TabNext(f) == FetchAnswered(f) \/ ProbeAnswered(f) \/ Deliver(f) \/ StreamOpens(f) \/ LoginAnswered(f)

\* What is under way goes on: the server's tasks and the tab's callbacks run, an owner of the token
\* tries it again.
Progress ==
  \/ \E s \in Slots : ServerNext(s)
  \/ \E f \in Fetches : TabNext(f) \/ SubmitToken(f)
  \/ StreamRefused \/ Emit

Next ==
  \/ Progress
  \/ \E f \in Fetches : TimesOut(f) \/ \E g \in Fetches : FormGivesWay(f, g)
  \/ StreamDrops \/ Lag
  \/ Change \/ NeighbourAsks \/ Tick

Spec == Init /\ [][Next]_vars

\* Every request is served in the end and time passes, whatever else goes on.
FairSpec == Spec /\ WF_vars(Progress) /\ WF_vars(\E s \in Slots : Serve(s)) /\ WF_vars(Tick)

(***************************************************************************)
(* What is checked                                                         *)
(***************************************************************************)
NeighbourIsApart ==
  /\ net.mine # net.theirs /\ {net.mine, net.theirs} \cap Trusted = {}
  /\ \A i \in DOMAIN net.route : net.route[i] \in Trusted

\* A request that carries the right token is answered: as many as the page can have under way at
\* once, in whatever order they read the clock and take the lock, none is ever refused as too soon,
\* unless wrong tokens came from its own address or through a proxy the server does not know.
RightTokenIsServed ==
  NeighbourIsApart =>
    \A s \in Slots \ {"neighbour"} : slots[s].ans # "throttled"

\* Nobody is locked out for good, and no view stays stale: once wrong tokens stop and the rows rest,
\* an owner of the token who keeps trying is past the login form to stay, and the tab shows the rows
\* as they are, through refreshes that overtake each other, a stream that drops, a login, a deadline.
\* `unheard` is the exception: an event skipped by a slow receiver, a change before the page's first
\* stream is subscribed, the last refresh timed out or refused, a stream refused for good; each only
\* until the next refresh.
TabComesToShowQueue == <>[](~form /\ (unheard \/ shown = queue))
=============================================================================
