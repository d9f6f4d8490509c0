----------------------------- MODULE ProxyBypass -----------------------------
(***************************************************************************)
(* A route between two portals that move from node to node. A router whose *)
(* portal has moved stays behind as a proxy and forwards, until the router *)
(* that has the portal now (near) replaces the chain                       *)
(*                                                                         *)
(*     far --central-- proxy --peripheral-- near                           *)
(*                                                                         *)
(* by a new central link to far, while both portals go on sending, may     *)
(* move again and may close. Each action is a whole message handler or     *)
(* call of a node (routing.rs): a node is a single thread, and nodes share *)
(* only the link states and FIFO channels. The steps inside the exchange   *)
(* loops on a link state are modelled by RouterLinkState; here each call   *)
(* on a link state is one step. Every router has a node of its own.        *)
(***************************************************************************)
EXTENDS Router

LOCAL INSTANCE Functions

CONSTANTS MaxParcels,    \* how many parcels the two portals send, together
          MaxMoves,      \* how often the two portals move, together
          MaxDeferred    \* how many parcels may wait for their buffer at a time

Ends == {"left", "right"}
Peer(e) == CHOOSE d \in Ends : d # e

ASSUME ProxyBypassAssumption ==
  MaxParcels \in Nat /\ MaxMoves \in Nat /\ MaxDeferred \in Nat

\* The routers that an end's portal has one after the other.
Routers == Ends \X (0 .. MaxMoves)
End(n) == n[1]
Successor(n) == <<n[1], n[2] + 1>>

IsCentral(link) == link.kind = "central"
Across(n, link) == IF link.a = n THEN link.b ELSE link.a
Side(n, link) == IF link.a = n THEN "A" ELSE "B"
Opposite(side) == IF side = "A" THEN "B" ELSE "A"

VARIABLES
  routers,    \* the routers there are
  owners,     \* pairs of a router and a link it is registered for
  words,      \* the states of the central links
  chan,       \* messages on their way, by sender and receiver
  deferred,   \* parcels that wait for the buffer of their data, by receiver
  early,      \* parcels for links without an owner, by receiver
  bypass,     \* how far the bypass of each router has come
  error,      \* the first protocol error a node has reported
  moves,      \* how often a portal has moved
  sent, received, closed   \* history, by end

vars == <<routers, owners, words, chan, deferred, early, bypass, error,
          moves, sent, received, closed>>

-----------------------------------------------------------------------------
(* The link state of a central link (RouterLinkState has its steps).       *)

Fresh(stable) == [stable |-> stable, waiting |-> {}, locked |-> {}, source |-> <<>>]

\* Mutants: a lock while a side is not stable, a lock while the other side has it.
CanLockUnstable(word) == word.locked = {}
CanLockShared(word) == word.stable = {"A", "B"}

CanLock(word) == word.locked = {} /\ word.stable = {"A", "B"}

\* TryLock: a side that has to wait for the other one leaves a mark.
AfterTryLock(word, side) ==
  IF CanLock(word) THEN [word EXCEPT !.locked = {side}]
  ELSE IF word.locked = {} /\ side \in word.stable
       THEN [word EXCEPT !.waiting = @ \cup {side}]
       ELSE word

IsWaiting(word, side) ==
  word.stable = {"A", "B"} /\ side \in word.waiting /\ word.locked = {}

-----------------------------------------------------------------------------
(* What a handler does to its node is collected in an effect: its router   *)
(* (or that it was removed), the link states, the messages it sent and the *)
(* parcels its portal got.                                                 *)

With(f, x, v) == [y \in DOMAIN f \cup {x} |-> IF y = x THEN v ELSE f[y]]

Effect(r) == [router |-> r, removed |-> FALSE, words |-> words,
              sends |-> <<>>, taken |-> <<>>]

ParcelMessages(collected) ==
  [i \in DOMAIN collected |->
     [type |-> "AcceptParcel", link |-> collected[i].link,
      seq |-> collected[i].parcel.seq, body |-> collected[i].parcel.body]]

\* The flush up to the point where a proxy without links is dropped: r is its
\* router at the start, `decayed` after it has collected and finished decays.
AfterForwarding(e, r, decayed, keep) ==
  [e EXCEPT
    !.router = AfterDelivery(decayed, keep),
    !.removed = r.proxying /\ HasNoLinks(decayed.outward),
    !.sends = @ \o ParcelMessages(Collected(r.outbound, r.outward))
                \o (IF r.proxying THEN ParcelMessages(Collected(r.inbound, r.inward))
                    ELSE <<>>),
    !.taken = @ \o PortalTakes(decayed, keep)]

Forwarded(e, keep) ==
  AfterForwarding(e, e.router, AfterDecays(AfterCollect(e.router)), keep)

\* Mutant: whether the edges are stable is read before their decays end.
BecameStableEarly(r, outward, inward) ==
  /\ IsCentral(r.outward.primary)
  /\ outward \/ inward
  /\ ~r.outward.decays
  /\ r.proxying => ~r.inward.decays

\* This flush ended a decay (of the `outward` or the `inward` edge of r) and
\* both edges are stable now.
BecameStable(r, outward, inward) ==
  /\ IsCentral(r.outward.primary)
  /\ outward \/ inward
  /\ ~r.outward.decays \/ outward
  /\ r.proxying => ~r.inward.decays \/ inward

Stabilises(r, collected) ==
  BecameStable(r, OutwardDecayed(collected), InwardDecayed(collected))

RouteClosed(link, length) == [type |-> "RouteClosed", link |-> link, length |-> length]

MarkStable(e, link, side) == [e EXCEPT !.words[link].stable = @ \cup {side}]

\* The closure of this direction goes out on a central link that can be locked;
\* a link on which nothing more will come is released.
PassClosureOutward(e, link, side) ==
  IF IsCentral(link) /\ FullyConsumed(e.router.outbound)
  THEN LET tried == [e EXCEPT !.words[link] = AfterTryLock(@, side)] IN
       IF CanLock(e.words[link])
       THEN [tried EXCEPT !.router.outward = ReleasePrimaryLink(@),
                          !.sends = Append(@, RouteClosed(link, e.router.outbound.final))]
       ELSE tried
  ELSE IF ExpectsMore(e.router.inbound) THEN e
  ELSE [e EXCEPT !.router.outward = ReleasePrimaryLink(@)]

\* A proxy passes on the closure of the other direction.
PassClosureInward(e, link) ==
  IF e.router.proxying /\ FullyConsumed(e.router.inbound) /\ link # NoLink
  THEN [e EXCEPT !.router.inward = ReleasePrimaryLink(@),
                 !.sends = Append(@, RouteClosed(link, e.router.inbound.final))]
  ELSE e

\* flush_other_side_if_waiting, on a central link that was not released.
WakeOther(e, link, other) ==
  IF /\ IsCentral(link) /\ e.router.outward.primary = link
     /\ IsWaiting(e.words[link], other)
  THEN [e EXCEPT !.words[link].waiting = @ \ {other},
                 !.sends = Append(@, [type |-> "FlushRouter", link |-> link])]
  ELSE e

\* The rest of a flush, after the decays.
PassClosures(e, link, side) ==
  PassClosureInward(PassClosureOutward(e, link, side), e.router.inward.primary)

Settled(e, link, side, stable, force) ==
  CASE e.removed -> e
    [] ~e.removed /\ stable ->
         WakeOther(PassClosures(MarkStable(e, link, side), link, side), link, Opposite(side))
    [] ~e.removed /\ ~stable /\ force ->
         WakeOther(PassClosures(e, link, side), link, Opposite(side))
    [] OTHER -> PassClosures(e, link, side)

\* router_flush. `e.router` is the router at its start.
Flush(n, e, force, keep) ==
  Settled(Forwarded(e, keep), e.router.outward.primary, Side(n, e.router.outward.primary),
          Stabilises(e.router, AfterCollect(e.router)), force)

\* The channels after n has sent the messages, one after the other.
Queued(channels, n, messages) ==
  LET after[i \in 0 .. Len(messages)] ==
        IF i = 0 THEN channels
        ELSE [after[i - 1] EXCEPT ![<<n, Across(n, messages[i].link)>>] =
                Append(@, messages[i])]
  IN  after[Len(messages)]

\* remove_router takes every link of its router out of the table.
OwnersAfter(n, e, links) ==
  IF e.removed THEN {o \in owners : o[1] # n} ELSE owners \cup ({n} \X links)

\* The effect of a handler of node n, which took its message from `channels`
\* and registered its router for `links`.
Commit(n, e, channels, links) ==
  /\ routers' = IF e.removed
                THEN [m \in DOMAIN routers \ {n} |-> routers[m]]
                ELSE With(routers, n, e.router)
  /\ owners' = OwnersAfter(n, e, links)
  /\ words' = e.words
  /\ chan' = Queued(channels, n, e.sends)
  /\ received' = [received EXCEPT ![End(n)] = @ \o [i \in DOMAIN e.taken |-> e.taken[i].body]]

\* The three ways a handler ends: it does its work, it ignores the message, or
\* it reports an error, with which the node's run ends.
Proceed(n, e, channels, links) ==
  Commit(n, e, channels, links) /\ UNCHANGED error

Ignore(channels) ==
  chan' = channels /\ UNCHANGED <<routers, owners, words, received, error>>

Fail(kind, channels) ==
  /\ error' = kind
  /\ chan' = channels
  /\ UNCHANGED <<routers, owners, words, received>>

-----------------------------------------------------------------------------
InitialLink == Link("central", <<"left", 0>>, <<"right", 0>>)

(* Calls of the portals.                                                   *)

HasPortal(n) == n \in DOMAIN routers /\ ~routers[n].proxying

\* The node of the right end has marked its side of the initial link.
Established(n) == n = <<"right", 0>> => "B" \in words[InitialLink].stable

\* put: the parcel takes the number the outbound queue is at.
Put(n) ==
  LET r == routers[n]
      parcel == [seq |-> r.outbound.current, body |-> sent[End(n)] + 1]
  IN  /\ HasPortal(n)
      /\ ~closed[End(n)]
      /\ sent["left"] + sent["right"] < MaxParcels
      /\ Proceed(n, Flush(n, Effect([r EXCEPT !.outbound = Push(@, parcel)]), FALSE, FALSE),
                 chan, {})
      /\ sent' = [sent EXCEPT ![End(n)] = @ + 1]
      /\ UNCHANGED <<deferred, early, bypass, moves, closed>>

CloseRoute(n) ==
  LET r == routers[n] IN
  /\ HasPortal(n)
  /\ ~closed[End(n)]
  /\ Established(n)
  /\ Proceed(n, Flush(n, Effect([r EXCEPT !.outbound = SetFinal(@, r.outbound.current)]),
                      FALSE, FALSE), chan, {})
  /\ closed' = [closed EXCEPT ![End(n)] = TRUE]
  /\ UNCHANGED <<deferred, early, bypass, moves, sent>>

\* A portal leaves in a parcel of some other route: serialize_router describes
\* its router, the parcel is sent, begin_proxying adopts the link to the new
\* one. A bypass starts here if the link to far can be locked for it.
Serialized(r, link, locked) ==
  LET inward == CASE r.peerClosed -> SetLengths(BeginPrimaryLinkDecay(Bare),
                                                r.inbound.final, r.outbound.current)
                  [] ~r.peerClosed /\ locked -> BeginPrimaryLinkDecay(Bare)
                  [] OTHER -> Bare
  IN  [r EXCEPT !.proxying = TRUE,
                !.inward = SetPrimaryLink(inward, link),
                !.outward = IF ~r.peerClosed /\ locked THEN BeginPrimaryLinkDecay(@) ELSE @]

\* Mutant: the descriptor leaves out the parcels that are still queued.
DescriptorSkipsQueued(r, link, locked) ==
  [type |-> "Descriptor", link |-> link,
   outgoing |-> r.outbound.current, incoming |-> SequenceLength(r.inbound),
   peerClosed |-> r.peerClosed, closedLength |-> r.inbound.final,
   bypass |-> IF ~r.peerClosed /\ locked THEN r.outward.primary ELSE NoLink]

Descriptor(r, link, locked) ==
  [type |-> "Descriptor", link |-> link,
   outgoing |-> r.outbound.current, incoming |-> r.inbound.current,
   peerClosed |-> r.peerClosed, closedLength |-> r.inbound.final,
   bypass |-> IF ~r.peerClosed /\ locked THEN r.outward.primary ELSE NoLink]

\* begin_proxying marks side A of the outward link, whichever side it has.
MarkedByProxy(r, ws) ==
  IF IsCentral(r.outward.primary) /\ ~r.outward.decays /\ ~r.inward.decays
  THEN [ws EXCEPT ![r.outward.primary].stable = @ \cup {"A"}]
  ELSE ws

SerializeRouter(n) ==
  LET r == routers[n]
      link == r.outward.primary
      inner == Link("peripheral", n, Successor(n))
      locked == IsCentral(link) /\ CanLock(words[link])
      tried == IF IsCentral(link)
               THEN [words EXCEPT ![link] = AfterTryLock(@, Side(n, link))]
               ELSE words
      authorised == IF locked THEN [tried EXCEPT ![link].source = Successor(n)] ELSE tried
      proxy == Serialized(r, inner, locked)
      e == [Effect(proxy) EXCEPT !.words = MarkedByProxy(proxy, authorised),
                                 !.sends = <<Descriptor(r, inner, locked)>>]
  IN  /\ HasPortal(n)
      /\ moves < MaxMoves /\ moves' = moves + 1
      /\ ~closed[End(n)]
      /\ Established(n)
      /\ link # NoLink
      /\ Proceed(n, Flush(n, e, FALSE, FALSE), chan, {inner})
      /\ UNCHANGED <<deferred, early, bypass, sent, closed>>

\* The node of the right end marks its side of the initial link stable.
MarkInitialLinksStable ==
  /\ "B" \notin words[InitialLink].stable
  /\ words' = [words EXCEPT ![InitialLink].stable = @ \cup {"B"}]
  /\ UNCHANGED <<routers, owners, chan, deferred, early, bypass, error,
                 moves, sent, received, closed>>

-----------------------------------------------------------------------------
(* Messages. Each handler names the channels with its message removed.     *)

OnEdge(edge, link) == link \in {edge.primary, edge.decaying}
OnOutward(r, link) == OnEdge(r.outward, link)
OnInward(r, link) == r.proxying /\ OnEdge(r.inward, link)

\* process_accept_parcel. `keep` is TRUE for the parcels a referrer reads before
\* it passes the portal on.
OnAcceptParcel(n, m, channels, keep) ==
  LET r == routers[n]
      parcel == [seq |-> m.seq, body |-> m.body]
      queue == IF OnOutward(r, m.link) THEN r.inbound ELSE r.outbound
      pushed == IF OnOutward(r, m.link) THEN [r EXCEPT !.inbound = Push(@, parcel)]
                ELSE [r EXCEPT !.outbound = Push(@, parcel)]
  IN  CASE <<n, m.link>> \notin owners ->
             early' = [early EXCEPT ![n] = Append(@, m)] /\ Ignore(channels)
        [] <<n, m.link>> \in owners /\ ~OnOutward(r, m.link) /\ ~OnInward(r, m.link) ->
             UNCHANGED early /\ Fail("parcel for unbound sublink", channels)
        [] OTHER ->
             /\ UNCHANGED early
             /\ IF PushAllowed(queue, parcel)
                THEN Proceed(n, Flush(n, Effect(pushed), FALSE, keep), channels, {})
                ELSE Fail("sequence gap or duplicate", channels)

\* router_route_closed, for a link that has an owner.
OnRouteClosed(n, m, channels) ==
  LET r == routers[n]
      known == r.inbound.final # None /\ r.inbound.final <= m.length
      inward == [r EXCEPT !.inbound = SetFinal(@, m.length), !.peerClosed = TRUE]
      outward == [r EXCEPT !.outbound = SetFinal(@, m.length)]
      regression == Fail("closure sequence regression", channels)
  IN  IF OnOutward(r, m.link)
      THEN IF FinalAllowed(r.inbound, m.length)
           THEN Proceed(n, Flush(n, Effect(inward), FALSE, FALSE), channels, {})
           ELSE IF known THEN Ignore(channels) ELSE regression
      ELSE IF FinalAllowed(r.outbound, m.length)
           THEN Proceed(n, Flush(n, Effect(outward), FALSE, FALSE), channels, {})
           ELSE regression

\* on_accept_bypass_link: far leaves its link for the new one and tells both
\* proxy and near up to which parcel it has used the old one.
OnAcceptBypassLink(n, m, channels) ==
  LET r == routers[n]
      old == r.outward.primary
      length == r.outbound.current
      moved == [r EXCEPT !.outward =
                  SetPrimaryLink(SetLengths(BeginPrimaryLinkDecay(@), length, m.length), m.link)]
      notices == <<[type |-> "StopProxying", link |-> old,
                    inbound |-> length, outbound |-> m.length],
                   [type |-> "ProxyWillStop", link |-> m.link, length |-> length]>>
  IN  CASE old = NoLink -> Ignore(channels)
        [] IsCentral(old) /\ DecayAllowed(r.outward)
             /\ words[old].source = Across(n, m.link) ->
             Proceed(n, Flush(n, [Effect(moved) EXCEPT !.sends = notices], FALSE, FALSE),
                     channels, {m.link})
        [] OTHER -> Fail("unauthorized bypass", channels)

OnStopProxying(n, m, channels) ==
  LET r == routers[n]
      stopping == [r EXCEPT !.inward = SetLengths(@, m.inbound, m.outbound),
                            !.outward = SetLengths(@, m.outbound, m.inbound)]
  IN  IF /\ r.outward.decays /\ r.proxying /\ r.inward.decays
         /\ \A edge \in {r.inward, r.outward} : edge.to = None /\ edge.from = None
      THEN Proceed(n, Flush(n, Effect(stopping), FALSE, FALSE), channels, {})
      ELSE Fail("unexpected StopProxying", channels)

OnProxyWillStop(n, m, channels) ==
  LET r == routers[n] IN
  IF r.outward.decays /\ r.outward.from = None
  THEN Proceed(n, Flush(n, Effect([r EXCEPT !.outward.from = m.length]), FALSE, FALSE),
               channels, {})
  ELSE Fail("unexpected ProxyWillStop", channels)

\* bypass_peer_with_new_remote_link: near begins to use a new link to the router
\* across `old`, and tells it how many parcels it has sent through the proxy.
NewLink(n, old) == Link("central", n, Across(<<n[1], n[2] - 1>>, old))

BypassPeer(n, e, old) ==
  LET length == e.router.outbound.current
      link == NewLink(n, old)
      offer == [type |-> "AcceptBypassLink", link |-> link, old |-> old, length |-> length]
      moved == [e EXCEPT
                  !.router.outward =
                     SetPrimaryLink([BeginPrimaryLinkDecay(@) EXCEPT !.to = length], link),
                  !.words = With(@, link, Fresh({})),
                  !.sends = Append(@, offer)]
  IN  Flush(n, moved, TRUE, FALSE)

\* router_deserialize: the new router, with the parcels that came before its
\* descriptor.
Deserialized(m) ==
  Effect([NewTerminal(m.link) EXCEPT
            !.outbound = Queue(m.outgoing, None),
            !.inbound = Queue(m.incoming, IF m.peerClosed THEN m.closedLength ELSE None),
            !.peerClosed = m.peerClosed])

\* Mutant: the parcels that came before the descriptor are lost.
WithoutEarlyParcels(n, e) == e

WithEarlyParcel(n, e, p) ==
  Flush(n, [e EXCEPT !.router.inbound = Push(@, [seq |-> p.seq, body |-> p.body])],
        FALSE, FALSE)

WithEarlyParcels(n, e) ==
  LET after[i \in 0 .. Len(early[n])] ==
        IF i = 0 THEN e ELSE WithEarlyParcel(n, after[i - 1], early[n][i])
  IN  after[Len(early[n])]

\* A bypass needs a link to far's node, which the broker may have to introduce
\* first, and a block for the new link state.
OnDescriptor(n, m, channels) ==
  LET e == WithEarlyParcels(n, Deserialized(m)) IN
  /\ early' = [early EXCEPT ![n] = <<>>]
  /\ \/ /\ m.bypass = NoLink
        /\ Proceed(n, Flush(n, e, FALSE, FALSE), channels, {m.link})
        /\ UNCHANGED bypass
     \/ /\ m.bypass # NoLink
        /\ \E state \in {"requested", "exhausted"} :
             bypass' = [bypass EXCEPT ![n] = [state |-> state, old |-> m.bypass]]
        /\ Proceed(n, Flush(n, e, FALSE, FALSE), channels, {m.link})
     \/ /\ m.bypass # NoLink
        /\ bypass' = [bypass EXCEPT ![n] = [state |-> "started", old |-> m.bypass]]
        /\ Proceed(n, Flush(n, BypassPeer(n, e, m.bypass), FALSE, FALSE), channels,
                   {m.link, NewLink(n, m.bypass)})

DeferredParcels == FoldFunction(LAMBDA q, count : count + Len(q), 0, deferred)
IsParcel(m) == m.type \in {"AcceptParcel", "Descriptor"}

\* A parcel may be kept queued only at a router that still has its portal.
AcceptMessage(n, m, channels) ==
  \/ m.type = "Descriptor" /\ OnDescriptor(n, m, channels)
  \/ /\ m.type = "AcceptParcel"
     /\ \E keep \in BOOLEAN :
          /\ keep => HasPortal(n) /\ moves < MaxMoves
          /\ OnAcceptParcel(n, m, channels, keep)
     /\ UNCHANGED bypass

\* dispatch: messages other than parcels are ignored on links without an owner.
Dispatch(n, m, channels) ==
  LET owned == <<n, IF m.type = "AcceptBypassLink" THEN m.old ELSE m.link>> \in owners IN
  \/ ~owned /\ Ignore(channels)
  \/ owned /\ m.type = "RouteClosed" /\ OnRouteClosed(n, m, channels)
  \/ owned /\ m.type = "AcceptBypassLink" /\ OnAcceptBypassLink(n, m, channels)
  \/ owned /\ m.type = "StopProxying" /\ OnStopProxying(n, m, channels)
  \/ owned /\ m.type = "ProxyWillStop" /\ OnProxyWillStop(n, m, channels)
  \/ /\ owned /\ m.type = "FlushRouter"
     /\ Proceed(n, Flush(n, Effect(routers[n]), TRUE, FALSE), channels, {})

ReadMessage(from, n) ==
  LET m == Head(chan[<<from, n>>])
      channels == [chan EXCEPT ![<<from, n>>] = Tail(@)]
  IN  /\ chan[<<from, n>>] # <<>>
      /\ UNCHANGED <<moves, sent, closed>>
      /\ \/ /\ IsParcel(m)
            /\ AcceptMessage(n, m, channels)
            /\ UNCHANGED deferred
         \/ /\ IsParcel(m) /\ DeferredParcels < MaxDeferred
            /\ deferred' = [deferred EXCEPT ![n] = Append(@, m)]
            /\ Ignore(channels)
            /\ UNCHANGED <<early, bypass>>
         \/ /\ ~IsParcel(m)
            /\ Dispatch(n, m, channels)
            /\ UNCHANGED <<deferred, early, bypass>>

\* The buffer with the data of a deferred parcel arrives.
AddBlockBuffer(n) ==
  /\ deferred[n] # <<>>
  /\ deferred' = [deferred EXCEPT ![n] = Tail(@)]
  /\ AcceptMessage(n, Head(deferred[n]), chan)
  /\ UNCHANGED <<moves, sent, closed>>

\* The broker answers the request for an introduction.
AcceptIntroduction(n) ==
  LET old == bypass[n].old IN
  /\ bypass[n].state = "requested"
  /\ \/ /\ Proceed(n, BypassPeer(n, Effect(routers[n]), old), chan, {NewLink(n, old)})
        /\ bypass' = [bypass EXCEPT ![n].state = "started"]
     \/ /\ Ignore(chan)
        /\ bypass' = [bypass EXCEPT ![n].state = "exhausted"]
  /\ UNCHANGED <<deferred, early, moves, sent, closed>>

RejectIntroduction(n) ==
  /\ bypass[n].state = "requested"
  /\ bypass' = [bypass EXCEPT ![n].state = "rejected"]
  /\ Proceed(n, [Effect(routers[n]) EXCEPT !.removed = TRUE], chan, {})
  /\ UNCHANGED <<deferred, early, moves, sent, closed>>

-----------------------------------------------------------------------------
Pairs == {pair \in Routers \X Routers : pair[1] # pair[2]}

\* The initial link is established; its side B may still have to become stable.
Init ==
  /\ routers = [n \in Ends \X {0} |-> NewTerminal(InitialLink)]
  /\ owners = (Ends \X {0}) \X {InitialLink}
  /\ \E stable \in {{"A"}, {"A", "B"}} : words = [link \in {InitialLink} |-> Fresh(stable)]
  /\ chan = [pair \in Pairs |-> <<>>]
  /\ deferred = [n \in Routers |-> <<>>]
  /\ early = [n \in Routers |-> <<>>]
  /\ bypass = [n \in Routers |-> [state |-> "none", old |-> NoLink]]
  /\ error = "none"
  /\ moves = 0
  /\ sent = [e \in Ends |-> 0]
  /\ received = [e \in Ends |-> <<>>]
  /\ closed = [e \in Ends |-> FALSE]

Step ==
  \/ \E n \in Routers : \/ Put(n) \/ CloseRoute(n) \/ SerializeRouter(n)
                        \/ AddBlockBuffer(n)
                        \/ AcceptIntroduction(n) \/ RejectIntroduction(n)
  \/ \E pair \in Pairs : ReadMessage(pair[1], pair[2])
  \/ MarkInitialLinksStable

Next == error = "none" /\ Step

Spec == Init /\ [][Next]_vars

-----------------------------------------------------------------------------
(* What the route keeps true.                                              *)

\* No handler meets a message its state does not allow: no repeated parcel, no
\* bypass that was not authorised, no StopProxying or ProxyWillStop out of turn,
\* no shrinking closure length (the errors of process_accept_parcel,
\* on_accept_bypass_link, router_stop_proxying, router_proxy_will_stop and
\* router_route_closed). The one exception is a parcel that was on its way to a
\* portal that has closed: a router that has passed the closure on has left the
\* link and still owns it.
OnlyLateParcelsFail ==
  error \in {"none", "parcel for unbound sublink"} /\ (error # "none" => \E e \in Ends : closed[e])

\* A portal that is told its peer has closed is told the truth: the peer is
\* closed, and the length it is told is the number of parcels the peer sent,
\* through however many proxies and bypasses the closure came
\* (router_route_closed, router_deserialize's peer_closed).
ClosureIsTrue ==
  \A n \in DOMAIN routers : HasPortal(n) /\ routers[n].peerClosed =>
    /\ closed[Peer(End(n))]
    /\ routers[n].inbound.final = sent[Peer(End(n))]

\* Router n leaves `link` and has not been told yet where the link ends.
Leaving(n, link) ==
  /\ n \in DOMAIN routers /\ routers[n].proxying
  /\ routers[n].outward.decaying = link /\ routers[n].outward.to = None

\* The two routers of a central link never both leave it for a bypass: the one
\* that locked it goes, and the other one is a far end it can rely on until it
\* has been told where the old link ends (TryLock in serialize_router).
OneBypassPerLink == \A link \in DOMAIN words : ~(Leaving(link.a, link) /\ Leaving(link.b, link))

\* A side of a central link is marked stable only while its router has finished
\* the decay that gave it the link: the mark is what permits the other router,
\* and the next one, to lock the link (set_side_stable in begin_proxying:
\* "Side A (this node allocates the link as side A)").
StableMarksAreTrue ==
  \A n \in DOMAIN routers :
    LET link == routers[n].outward.primary IN
    IsCentral(link) /\ Side(n, link) \in words[link].stable => ~routers[n].outward.decays

-----------------------------------------------------------------------------
(* What has happened once the nodes have nothing left to do: every message *)
(* is read, every buffer and every introduction has arrived, both sides of *)
(* the initial link are marked, and no referrer keeps parcels for a portal *)
(* it is about to pass on.                                                 *)

Keeps(n) == HasPortal(n) /\ Holds(routers[n].inbound, routers[n].inbound.current)

AtRest ==
  /\ error = "none"
  /\ \A pair \in Pairs : chan[pair] = <<>>
  /\ \A n \in Routers : deferred[n] = <<>> /\ bypass[n].state # "requested" /\ ~Keeps(n)
  /\ "B" \in words[InitialLink].stable

Ended(state) == \E n \in Routers : bypass[n].state = state

\* Every parcel that was sent while the portal of the other end was open has
\* reached it, whichever links it took and whenever they decayed, unless the
\* broker refused an introduction, which cuts the route (router_flush,
\* transmit_parcel).
ParcelsArrive ==
  AtRest /\ ~Ended("rejected") =>
    \A e \in Ends : closed[e] \/ received[e] = [i \in 1 .. sent[Peer(e)] |-> i]

\* A proxy whose bypass began has forwarded the last parcel of both directions
\* and is gone, unless the bypass got no introduction or no block for its link
\* state (finish_decays and the drop of a proxy in router_flush).
ProxiesGo ==
  AtRest /\ ~Ended("rejected") /\ ~Ended("exhausted") =>
    \A n \in DOMAIN routers : ~(routers[n].proxying /\ routers[n].outward.decays)

\* A proxy nobody bypasses; a side that nobody has woken; an end that knows.
Unbypassed(n) == routers[n].proxying /\ ~routers[n].outward.decays
LeftWaiting(link) == \E side \in {"A", "B"} : IsWaiting(words[link], side)
Told(e) == \E n \in DOMAIN routers : HasPortal(n) /\ End(n) = e /\ routers[n].peerClosed

\* A closure reaches the portal of the other end, if that is still open, when
\* every proxy of the route was bypassed and no side still waits for a wake-up
\* from a link whose two sides are stable (router_flush, wake_if_waiting).
ClosureArrives ==
  /\ AtRest /\ ~Ended("rejected") /\ ~Ended("exhausted")
  /\ \A n \in DOMAIN routers : ~Unbypassed(n)
  /\ ~LeftWaiting(InitialLink)
  => \A e \in Ends : closed[e] /\ ~closed[Peer(e)] => Told(Peer(e))

\* The route keeps its promise to the two portals (Route): parcels arrive in
\* order, once each, while the links under them are replaced.
Abstract == INSTANCE Route
ImplementsRoute == Abstract!Spec

=============================================================================
